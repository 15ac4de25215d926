------------------------------ MODULE MCCorpus ------------------------------
\* One curated and one private request, the loop and one command line.  What is
\* uploaded and what is in the imported archive has a user's prompt under the curated
\* hash.
EXTENDS Corpus

HashOf == [p \in {"our words", "their words"} |-> IF p = "our words" THEN "curated" ELSE "private"]

Of(h, p, a) == [hash |-> h, prompt |-> p, answer |-> a]

Ours == Of("curated", "our words", "real")
Theirs == Of("private", "their words", "real")
Disguised == Of("curated", "their words", "real")

Everyday == {Ours, Theirs, Of("curated", "our words", "filler")}
StarterPack == {Ours}
UploadedEntries == {Disguised}
SharedEntries == {Theirs, Disguised}
=============================================================================
