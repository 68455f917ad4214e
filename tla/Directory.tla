------------------------------ MODULE Directory ------------------------------
(****************************************************************************)
(* The directory of one block on its own.  The rest of the system is an     *)
(* environment that may send any request at any time and that answers every *)
(* invalidation and every forwarded request exactly once, in any order.     *)
(* This is the abstract specification that the whole protocol, module       *)
(* Coherence, implements.                                                   *)
(****************************************************************************)
EXTENDS DirEntry

VARIABLES
  entry,     \* the directory entry
  copy,      \* the copy registers
  owed       \* the answers still to come from agents (environment)

dvars == <<entry, copy, owed>>

DirInit ==
  /\ entry = [state |-> "S_UNSHARED", bitmap |-> {}, count |-> 0]
  /\ copy = NoCopy
  /\ owed = {}

Write(res) == entry' = res.entry /\ copy' = res.copy

\* dirCtrlHLS_to_net takes a new message only while the copy flag is 0.
DirRequest(t, n) ==
  /\ copy.type = "none"
  /\ Write(HandleRequest(entry, t, n))
  /\ owed' = owed \cup Owing(HandleRequest(entry, t, n).out)

DirAck(m) ==
  /\ copy.type = "none"
  /\ Write(HandleAck(entry, m.type, m.req, m.agent))
  /\ owed' = owed \ {m}

DirCopy ==
  /\ copy.type # "none"
  /\ copy' = CopyNext(copy)
  /\ owed' = owed \cup Owing(CopyOut(copy))
  /\ UNCHANGED entry

DirNext ==
  \/ \E t \in Request, n \in Node : DirRequest(t, n)
  \/ \E m \in owed : DirAck(m)
  \/ DirCopy

DirSpec == DirInit /\ [][DirNext]_dvars

\* The entry, the registers and the answers still due are well typed; the
\* count stays within its byte.
DirTypeOK == EntryTyped(entry, copy, owed)

------------------------------------------------------------------------------
\* The directory and the answers it waits for agree in every state: the count
\* of a transient entry is exactly the number of answers to come, so that the
\* last answer, and no other, completes the write (dirCtrlHLS_to_net.cpp,
\* cases AGENT_2_DIR_*).
DirConsistent == EntryConsistent(entry, copy, owed)

\* A transient entry stays as it is, or closes for the requester.
CloseStep == Closes(entry, owed, entry')

\* Whatever requests come in meanwhile and in whatever order the answers arrive,
\* a transient entry is left only for the requester it was opened for, who is
\* then the only owner: the requests that dirCtrlHLS_to_net.cpp refuses do not
\* disturb it.
TransientCloses == [][CloseStep]_dvars

\* The copy loop runs on its own clock and the agents' FPGAs answer on their own.
DirFairness == WF_dvars(DirCopy) /\ WF_dvars(\E m \in owed : DirAck(m))

DirFairSpec == DirSpec /\ DirFairness

\* Every handover and every round of invalidations ends.
TransientEnds ==
  entry.state \in {"S_TO_SHARED", "S_TO_DIRTY"} ~> entry.state \in {"S_SHARED", "S_DIRTY"}
==============================================================================
