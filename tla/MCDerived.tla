----------------------------- MODULE MCDerived ------------------------------
(* Two similar queries under one system prompt, with and without a memory, the  *)
(* second of them late in a conversation.                                    *)
EXTENDS Derived

Said(form, text) ==
  <<[role |-> "system", form |-> form, memories |-> {}, text |-> text]>>

Asked ==
  {[system |-> Said("text", "coder"), before |-> "nothing", query |-> "how"],
   [system |-> Said("text", "coder"), before |-> "talk", query |-> "how to"]}

Asking == {<<"nothing", "how">>}

Similar == {"how", "how to"} \X {"how", "how to"}

Dimensions == [e \in {"fastlocal", "ollama"} |-> IF e = "fastlocal" THEN 256 ELSE 384]
=============================================================================
