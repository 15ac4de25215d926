--------------------------- MODULE MCConversation ---------------------------
EXTENDS Conversation

Call(id, name, arg) == [id |-> id, name |-> name, arg |-> arg]
Bash(id) == Call(id, "Bash", <<>>)
Read(id) == Call(id, "Read", <<>>)
Plan == <<Word("plan")>>

Says(content, reasoning, calls) == [content |-> content, reasoning |-> reasoning, calls |-> calls]
Thinks(text) == [i \in DOMAIN text |-> [text[i] EXCEPT !.in = "think"]]

MCReplies == {
  Says(<<Word("done")>>, <<>>, <<>>),
  Says(<<Word("looks"), Written("dsml", Bash(1))>>, <<>>, <<>>),
  Says(<<Written("dsmlTag", NoCall), [Written("dsml", Read(1)) EXCEPT !.open = TRUE]>>, Plan, <<>>),
  Says(<<Word("looks"), Written("json", Bash(1))>>, <<>>, <<>>),
  Says(<<Written("hermes", Bash(1)), Word("looks")>>, <<>>, <<Bash(2), Read(3)>>),
  Says(<<Written("leaked", Bash(1))>>, <<>>, <<>>),
  Says(Thinks(Plan), <<>>, <<Call(1, "ExitPlanMode", <<>>)>>),
  Says(Plan \o <<Word("exiting")>>, <<>>, <<>>),
  Says(<<>>, <<>>, <<Call(1, "Write", Plan)>>),
  Says(<<>>, Plan, <<Call(1, "Write", <<Word("draft")>>), Call(2, "ExitPlanMode", <<>>)>>),
  Says(Thinks(<<Written("bash", Bash(1))>>) \o <<Word("done")>>, <<>>, <<>>)
}

MCTools == {"Bash", "Read", "Write", "ExitPlanMode"}
=============================================================================
