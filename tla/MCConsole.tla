----------------------------- MODULE MCConsole ------------------------------
(* What an agent's screens show, on small instances: the inbox's pages, the *)
(* messages of a conversation, the sockets that say what has changed, the   *)
(* knowledge entries they edit.  These share no state: a behaviour is of    *)
(* one of them, the part.                                                   *)
EXTENDS Queue, Thread, Sockets, Knowledge

CONSTANTS a, n1, n2, n3, u1

VARIABLE part

parts == <<part, queue, thread, feed, knowledge>>

Init ==
  /\ part \in {"queue", "thread", "sockets", "knowledge"}
  /\ QueueInit /\ ThreadInit /\ SocketsInit /\ KnowledgeInit
  /\ part # "queue" => key = [c \in Listed |-> 0]
  /\ part # "thread" => written = 1
  /\ part # "knowledge" => kind = "file"

Next ==
  \/ /\ part = "queue" /\ QueueNext
     /\ UNCHANGED <<part, thread, feed, knowledge>>
  \/ /\ part = "thread" /\ ThreadNext
     /\ UNCHANGED <<part, queue, feed, knowledge>>
  \/ /\ part = "sockets" /\ SocketsNext
     /\ UNCHANGED <<part, queue, thread, knowledge>>
  \/ /\ part = "knowledge" /\ KnowledgeNext
     /\ UNCHANGED <<part, queue, thread, feed>>

\* The fairness of each part, of a behaviour that is of it.
InSockets(A)   == part = "sockets" /\ A
InKnowledge(A) == part = "knowledge" /\ A

Spec ==
  /\ Init /\ [][Next]_parts
  /\ \A s \in SocketIds :
       /\ WF_feed(InSockets(TimerFires(s))) /\ WF_feed(InSockets(Revalidate(s)))
       /\ WF_feed(InSockets(HandleClose(s))) /\ WF_feed(InSockets(LeaveRoom(s)))
  /\ \A j \in IngestJobs : WF_knowledge(InKnowledge(IngestStep(j)))

(* Each part keeps its types.                                               *)
ConsoleTypeOK ==
  /\ part = "queue" => QueueTypeOK
  /\ part = "thread" => ThreadTypeOK
  /\ part = "sockets" => SocketsTypeOK
  /\ part = "knowledge" => KnowledgeTypeOK
=============================================================================
