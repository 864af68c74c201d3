---------------------------- MODULE MCCustomers -----------------------------
(* What is kept of customers and said to them, on small instances: who they *)
(* are and which conversations are theirs, the folding of those into one,   *)
(* what is remembered of them, the files they sent, what a visitor says     *)
(* through the widget, what an answer is looked up in, the reading of what  *)
(* the AI said, what an agent writes to them and the tags of a              *)
(* conversation.  These share no state here: a behaviour is of one of them, *)
(* the part.                                                                *)
EXTENDS People, Memory, Files, Widget, Review, Retrieval, Desk, Tags,
        Rejoin, TLC

CONSTANTS a, b, m1, m2, m3, k1, t1, t2, u1, d1, w1, w2, r1, r2, x1, q1, g1, g2, wa, wb, wc, wd,
          c1, c2, i1, i2

VARIABLE part

parts == <<part, records, memory, files, widget, retrieving, review, composing, tagging,
           rejoining>>

WroteWhat == (m1 :> a) @@ (m2 :> a) @@ (m3 :> b)
Cascading == <<"messages", "feedback">>
OneInEach == (i1 :> "messages") @@ (i2 :> "feedback")
SentWhere == (m1 :> t1) @@ (u1 :> t1)

\* One of the words is masked into another.
MaskedTo == [w \in {wa, wb, wc, wd} |-> IF w = wc THEN wb ELSE w]

Init ==
  /\ part \in {"people", "memory", "files", "widget", "retrieval", "review",
             "desk", "tags", "rejoin"}
  /\ PeopleInit /\ MemoryInit /\ FilesInit /\ WidgetInit
  /\ RetrievalInit /\ ReviewInit /\ DeskInit /\ TagsInit /\ RejoinInit
  /\ part # "retrieval" => scores = [k \in Chunks |-> [dense |-> 0, keyword |-> 0]]
  /\ tags[g2] = tags[g1]
  /\ part # "tags" => tags[g1] = << >>
  /\ part # "rejoin" => recent = <<c1, c2>>

Next ==
  \/ /\ part = "people" /\ PeopleNext
     /\ UNCHANGED <<part, memory, files, widget, retrieving, review, composing, tagging, rejoining>>
  \/ /\ part = "memory" /\ MemoryNext
     /\ UNCHANGED <<part, records, files, widget, retrieving, review, composing, tagging, rejoining>>
  \/ /\ part = "files" /\ FilesNext
     /\ UNCHANGED <<part, records, memory, widget, retrieving, review, composing, tagging, rejoining>>
  \/ /\ part = "widget" /\ WidgetNext
     /\ UNCHANGED <<part, records, memory, files, retrieving, review, composing, tagging, rejoining>>
  \/ /\ part = "retrieval" /\ RetrievalNext
     /\ UNCHANGED <<part, records, memory, files, widget, review, composing, tagging, rejoining>>
  \/ /\ part = "review" /\ ReviewNext
     /\ UNCHANGED <<part, records, memory, files, widget, retrieving, composing, tagging, rejoining>>
  \/ /\ part = "desk" /\ DeskNext
     /\ UNCHANGED <<part, records, memory, files, widget, retrieving, review, tagging, rejoining>>
  \/ /\ part = "tags" /\ TagsNext
     /\ UNCHANGED <<part, records, memory, files, widget, retrieving, review, composing, rejoining>>
  \/ /\ part = "rejoin" /\ RejoinNext
     /\ UNCHANGED <<part, records, memory, files, widget, retrieving, review, composing, tagging>>

Spec == Init /\ [][Next]_parts

(* Each part keeps its types.                                               *)
CustomersTypeOK ==
  /\ part = "people" => PeopleTypeOK
  /\ part = "memory" => MemoryTypeOK
  /\ part = "files" => FilesTypeOK
  /\ part = "widget" => WidgetTypeOK
  /\ part = "retrieval" => RetrievalTypeOK
  /\ part = "review" => ReviewTypeOK
  /\ part = "desk" => DeskTypeOK
  /\ part = "tags" => TagsTypeOK
  /\ part = "rejoin" => RejoinTypeOK

(* What was put into a conversation is there until somebody takes it away:  *)
(* the text or file an agent last put into the composer, unless it is in    *)
(* the thread (Desk), the tags that a person or the AI was told it has,     *)
(* whoever else changes them at that moment (Tags), and all that hung off   *)
(* the conversations it was folded from when they were read (Rejoin).       *)
WhatIsPutStays == TypedIsKept /\ TagsAreKept /\ WhatItSawIsKept
=============================================================================
