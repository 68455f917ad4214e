------------------------------- MODULE NetPath --------------------------------
(****************************************************************************)
(* The way of the messages of one node to another: ctrlMsgCopy merges what  *)
(* the cache controller and the directory send, dataMsgFetch has the data   *)
(* that goes with a message fetched from the host's memory, the parser      *)
(* frames both, the deparser of the other node takes the frames apart.      *)
(*                                                                          *)
(* A module is a pipeline that starts a call every cycle and blocks when a  *)
(* stream it writes is full.  A beat of data is known by the message it     *)
(* was fetched for and its place in the cache line.                         *)
(****************************************************************************)
EXTENDS Integers, Sequences

CONSTANTS
  Limit,      \* Limit[s]: messages that sender s sends, at most
  Kinds,      \* Kinds[s]: their types
  LineBeats,  \* beats of a cache line
  NetDepth,   \* entries a stream holds
  LoopDepth,  \* entries the stream from dataMsgFetch to itself holds
  NoMsg

Sender == {"CC", "DC"}      \* cacheCtrlHLS_to_net and dirCtrlHLS_to_net

\* Types whose data dataMsgFetch takes from the buffer named by agent_cline_addr,
\* dir_gblock_addr or req_cline_addr of the message.
FromAgent == {"AGENT_2_DIR_READ_MISS_DIRTY_ACKDATA", "AGENT_2_APP_READ_MISS_DIRTY_ACKDATA",
              "AGENT_2_APP_WRITE_MISS_DIRTY_ACKDATA"}
FromHome  == {"DIR_2_APP_READ_MISS_ACKDATA", "DIR_2_APP_WRITE_MISS_ACKDATA",
              "DIR_2_APP_WRITE_MISS_SHAREDDATA"}
FromRequester == {"R_EVICT_DIRTY"}

HasData(m) == m.type \in FromAgent \cup FromHome \cup FromRequester

\* Types that the deparser gives to the directory; the rest goes to the cache
\* controller.
ToDirectory == {"R_READ_MISS", "R_WRITE_MISS", "R_WRITE_SHARED", "R_EVICT_SHARED", "R_EVICT_DIRTY",
                "AGENT_2_DIR_READ_MISS_DIRTY_ACKDATA", "AGENT_2_DIR_WRITE_MISS_DIRTY_ACK",
                "AGENT_2_DIR_WRITE_MISS_SHARED_ACK", "AGENT_2_DIR_WRITE_SHARED_NOTONLY_ACK"}

Msg(s, n, y) == [from |-> s, num |-> n, type |-> y]

Message ==
  {m \in [from : Sender, num : Nat, type : Kinds["CC"] \cup Kinds["DC"]] : m.type \in Kinds[m.from]}

\* The cache controller sends requests and what its agents answer, the directory
\* everything else.
ASSUME NetPathAssumption ==
  /\ Limit \in [Sender -> Nat]
  /\ LineBeats \in Nat \ {0} /\ NetDepth \in Nat \ {0} /\ LoopDepth \in Nat \ {0}
  /\ Kinds["CC"] \subseteq ToDirectory \cup FromAgent
  /\ Kinds["DC"] \cap (ToDirectory \cup FromAgent) = {}
  /\ NoMsg \notin Message

VARIABLES
  sent,     \* sent[s]: messages sent so far
  inq,      \* streams from the two senders to ctrlMsgCopy
  flag,     \* reg_flag of ctrlMsgCopy
  merged,   \* stream from ctrlMsgCopy to dataMsgFetch
  held,     \* the message that dataMsgFetch has read and cannot write yet
  loop,     \* stream from dataMsgFetch to itself: messages that wait for data
  fetch,    \* commands to the DMA engine of the host
  fetched,  \* beats that have come back
  inLine,   \* ~reg_h2c_data_end_flag
  ctrl,     \* streams from dataMsgFetch to the parser
  data,
  stage,    \* reg_send_stage
  sending,  \* reg_send_ctrl_msg
  wire,     \* beats between the two cards
  rstage,   \* reg_recv_stage
  toCtrl,   \* messages the deparser has handed on, in order
  toHost    \* commands and beats it has written for the host's memory, in order

sendVars == <<sent, inq, flag, merged>>
fetchVars == <<held, loop, fetch, fetched, inLine, ctrl, data>>
frameVars == <<stage, sending, wire>>
recvVars == <<rstage, toCtrl, toHost>>
netVars == <<sendVars, fetchVars, frameVars, recvVars>>

NetInit ==
  /\ sent = [s \in Sender |-> 0] /\ inq = [s \in Sender |-> <<>>]
  /\ flag = "CC" /\ merged = <<>>
  /\ held = NoMsg /\ loop = <<>> /\ fetch = <<>> /\ fetched = <<>> /\ inLine = FALSE
  /\ ctrl = <<>> /\ data = <<>>
  /\ stage = "MAC" /\ sending = NoMsg /\ wire = <<>>
  /\ rstage = "MAC" /\ toCtrl = <<>> /\ toHost = [cmd |-> <<>>, beat |-> <<>>]

Room(q) == Len(q) < NetDepth

------------------------------------------------------------------------------
Send(s) ==
  /\ sent[s] < Limit[s] /\ Room(inq[s])
  /\ \E y \in Kinds[s] : inq' = [inq EXCEPT ![s] = Append(@, Msg(s, sent[s] + 1, y))]
  /\ sent' = [sent EXCEPT ![s] = @ + 1]
  /\ UNCHANGED <<flag, merged, fetchVars, frameVars, recvVars>>

\* The sender whose turn it is: the only one that waits, or the one that was not
\* the last.
Turn(s) == inq[s] # <<>> /\ (flag = s => \A r \in Sender \ {s} : inq[r] = <<>>)

CtrlMsgCopy(s) ==
  /\ Turn(s) /\ Room(merged)
  /\ merged' = Append(merged, Head(inq[s]))
  /\ inq' = [inq EXCEPT ![s] = Tail(@)]
  /\ flag' = s
  /\ UNCHANGED <<sent, fetchVars, frameVars, recvVars>>

------------------------------------------------------------------------------
(* dataMsgFetch.  A beat that has come back goes before a new message; within *)
(* a cache line nothing else is done.                                         *)

LastOfLine(b) == b.pos = LineBeats

PassBeat ==
  /\ data' = Append(data, Head(fetched))
  /\ fetched' = Tail(fetched)
  /\ inLine' = ~LastOfLine(Head(fetched))

NextBeat ==
  /\ held = NoMsg /\ inLine /\ fetched # <<>>
  /\ Room(data)
  /\ PassBeat
  /\ UNCHANGED <<held, loop, fetch, ctrl, sendVars, frameVars, recvVars>>

\* Fault: data is passed on when it comes, whether its message does or not.
Join_fault ==
  /\ held = NoMsg /\ ~inLine
  /\ fetched # <<>>
  /\ Room(data)
  /\ IF loop # <<>> /\ Room(ctrl) THEN ctrl' = Append(ctrl, Head(loop)) /\ loop' = Tail(loop)
     ELSE UNCHANGED <<ctrl, loop>>
  /\ PassBeat
  /\ UNCHANGED <<held, fetch, sendVars, frameVars, recvVars>>

\* The first beat of a line, with the message it belongs to.
Join ==
  /\ held = NoMsg /\ ~inLine
  /\ fetched # <<>> /\ loop # <<>>
  /\ Room(data) /\ Room(ctrl)
  /\ ctrl' = Append(ctrl, Head(loop))
  /\ loop' = Tail(loop)
  /\ PassBeat
  /\ UNCHANGED <<held, fetch, sendVars, frameVars, recvVars>>

Idle == held = NoMsg /\ ~inLine /\ (fetched = <<>> \/ loop = <<>>)

\* Fault: an eviction goes on at once, its data follows when it has come.
TakeMessage_fault ==
  /\ Idle /\ merged # <<>>
  /\ LET m == Head(merged) IN
     /\ IF HasData(m) THEN Len(fetch) < LoopDepth + 1 /\ fetch' = Append(fetch, [msg |-> m, pos |-> 1])
        ELSE UNCHANGED fetch
     /\ IF HasData(m) /\ m.type # "R_EVICT_DIRTY" THEN held' = m /\ UNCHANGED ctrl
        ELSE Room(ctrl) /\ ctrl' = Append(ctrl, m) /\ UNCHANGED held
  /\ merged' = Tail(merged)
  /\ UNCHANGED <<sent, inq, flag, loop, fetched, inLine, data, frameVars, recvVars>>

\* A new message: one with data has it fetched and waits in the loop, any other
\* one goes on.  The command is written before the loop, which may be full.
TakeMessage ==
  /\ Idle /\ merged # <<>>
  /\ LET m == Head(merged) IN
     IF HasData(m)
     THEN /\ Len(fetch) < LoopDepth + 1
          /\ fetch' = Append(fetch, [msg |-> m, pos |-> 1])
          /\ held' = m
          /\ UNCHANGED ctrl
     ELSE /\ Room(ctrl)
          /\ ctrl' = Append(ctrl, m)
          /\ UNCHANGED <<fetch, held>>
  /\ merged' = Tail(merged)
  /\ UNCHANGED <<sent, inq, flag, loop, fetched, inLine, data, frameVars, recvVars>>

WriteLoop ==
  /\ held # NoMsg
  /\ Len(loop) < LoopDepth
  /\ loop' = Append(loop, held)
  /\ held' = NoMsg
  /\ UNCHANGED <<sendVars, fetch, fetched, inLine, ctrl, data, frameVars, recvVars>>

\* The DMA engine (external) reads the lines in the order of the commands;
\* h2cCmdDeliverHLS and h2cDataDeliverHLS only pass on.
HostRead ==
  /\ fetch # <<>> /\ Room(fetched)
  /\ fetched' = Append(fetched, Head(fetch))
  /\ fetch' = IF LastOfLine(Head(fetch)) THEN Tail(fetch) ELSE [fetch EXCEPT ![1].pos = @ + 1]
  /\ UNCHANGED <<sendVars, held, loop, inLine, ctrl, data, frameVars, recvVars>>

------------------------------------------------------------------------------
(* parser: MAC, control and data beats of a frame *)

WireBeat(k, m, p) == [kind |-> k, msg |-> m, pos |-> p]

ParserMac ==
  /\ stage = "MAC" /\ ctrl # <<>> /\ Room(wire)
  /\ sending' = Head(ctrl)
  /\ ctrl' = Tail(ctrl)
  /\ wire' = Append(wire, WireBeat("MAC", Head(ctrl), 0))
  /\ stage' = "CTRL"
  /\ UNCHANGED <<sendVars, held, loop, fetch, fetched, inLine, data, recvVars>>

ParserCtrl ==
  /\ stage = "CTRL" /\ Room(wire)
  /\ wire' = Append(wire, WireBeat("CTRL", sending, 0))
  /\ stage' = IF HasData(sending) THEN "DATA" ELSE "MAC"
  /\ UNCHANGED <<sendVars, fetchVars, sending, recvVars>>

FrameEnd(b) == LastOfLine(b)

ParserData ==
  /\ stage = "DATA" /\ data # <<>> /\ Room(wire)
  /\ wire' = Append(wire, WireBeat("DATA", Head(data).msg, Head(data).pos))
  /\ data' = Tail(data)
  /\ stage' = IF FrameEnd(Head(data)) THEN "MAC" ELSE "DATA"
  /\ UNCHANGED <<sendVars, held, loop, fetch, fetched, inLine, ctrl, sending, recvVars>>

------------------------------------------------------------------------------
(* deparser: which beat is what follows from its own stage only *)

Goal(m) == IF m.type \in ToDirectory THEN "DC" ELSE "CC"

\* The memory that the data goes to: the block at home or the requester's line.
StoreAt(m) == IF Goal(m) = "DC" THEN "dir_gblock_addr" ELSE "req_cline_addr"

DeparserMac ==
  /\ rstage = "MAC" /\ wire # <<>>
  /\ wire' = Tail(wire) /\ rstage' = "CTRL"
  /\ UNCHANGED <<sendVars, fetchVars, stage, sending, toCtrl, toHost>>

DeparserCtrl ==
  /\ rstage = "CTRL" /\ wire # <<>>
  /\ LET m == Head(wire).msg IN
     /\ toCtrl' = Append(toCtrl, [msg |-> m, goal |-> Goal(m)])
     /\ rstage' = IF HasData(m) THEN "DATA" ELSE "MAC"
     /\ toHost' = IF HasData(m) THEN [toHost EXCEPT !.cmd = Append(@, [msg |-> m, at |-> StoreAt(m)])] ELSE toHost
  /\ wire' = Tail(wire)
  /\ UNCHANGED <<sendVars, fetchVars, stage, sending>>

DeparserData ==
  /\ rstage = "DATA" /\ wire # <<>>
  /\ toHost' = [toHost EXCEPT !.beat = Append(@, Head(wire))]
  /\ rstage' = IF Head(wire).pos = LineBeats THEN "MAC" ELSE "DATA"
  /\ wire' = Tail(wire)
  /\ UNCHANGED <<sendVars, fetchVars, stage, sending, toCtrl>>

------------------------------------------------------------------------------
Hardware ==
  \/ \E s \in Sender : CtrlMsgCopy(s)
  \/ NextBeat \/ Join \/ TakeMessage \/ WriteLoop \/ HostRead
  \/ ParserMac \/ ParserCtrl \/ ParserData
  \/ DeparserMac \/ DeparserCtrl \/ DeparserData

NetNext == Hardware \/ \E s \in Sender : Send(s)

NetSpec == NetInit /\ [][NetNext]_netVars

\* Every module is clocked: one that can move does.
NetFairSpec ==
  /\ NetSpec
  /\ \A s \in Sender : WF_netVars(CtrlMsgCopy(s))
  /\ WF_netVars(NextBeat \/ Join \/ TakeMessage \/ WriteLoop) /\ WF_netVars(HostRead)
  /\ WF_netVars(ParserMac \/ ParserCtrl \/ ParserData)
  /\ WF_netVars(DeparserMac \/ DeparserCtrl \/ DeparserData)

------------------------------------------------------------------------------
\* The deparser never mistakes a beat: what it reads in a stage was written by
\* the parser in the same stage.
FramesAligned == wire # <<>> => Head(wire).kind = rstage

\* The k-th run of beats that is written to the host's memory belongs to the
\* k-th command, and so to its message: no cache line goes to the address of
\* another.
OwnData ==
  \A i \in DOMAIN toHost.beat :
    LET k == ((i - 1) \div LineBeats) + 1
    IN /\ k <= Len(toHost.cmd)
       /\ toHost.beat[i].msg = toHost.cmd[k].msg
       /\ toHost.beat[i].pos = ((i - 1) % LineBeats) + 1

Before(x, y) == x.from = y.from /\ x.num < y.num

\* A message is overtaken by a later one of its sender only if it carries data
\* and the other does not; in particular no message is handed on twice.
OnlyPlainOvertakes ==
  \A i, j \in DOMAIN toCtrl : i < j =>
    /\ toCtrl[i].msg # toCtrl[j].msg
    /\ Before(toCtrl[j].msg, toCtrl[i].msg) => HasData(toCtrl[j].msg) /\ ~HasData(toCtrl[i].msg)

\* Requests, and answers to the directory, reach the directory, and the data of
\* a dirty line goes to the block at home; everything else reaches the cache
\* controller, and its data the line of the requester.
WellRouted ==
  /\ \A i \in DOMAIN toCtrl :
       toCtrl[i].goal = IF toCtrl[i].msg.from = "DC" \/ toCtrl[i].msg.type \in FromAgent \ ToDirectory
                        THEN "CC" ELSE "DC"
  /\ \A k \in DOMAIN toHost.cmd :
       toHost.cmd[k].at = "dir_gblock_addr" <=>
         toHost.cmd[k].msg.type \in {"R_EVICT_DIRTY", "AGENT_2_DIR_READ_MISS_DIRTY_ACKDATA"}

\* From card to card no cache line goes to the address of another message, the
\* deparser reads every beat as what the parser wrote, a message is overtaken only
\* by one without data, and all reach the controller they are for.
NetSound == FramesAligned /\ OwnData /\ OnlyPlainOvertakes /\ WellRouted

\* Every message that is sent is handed on, once its sender has got rid of it,
\* as long as the loop holds the messages that wait for data.
Delivered ==
  \A s \in Sender : \A n \in 1 .. Limit[s] :
    sent[s] >= n ~> \E i \in DOMAIN toCtrl : toCtrl[i].msg.from = s /\ toCtrl[i].msg.num = n
==============================================================================
