--------------------------------- MODULE Card ---------------------------------
(****************************************************************************)
(* The parts of the card: the directory of one block (Directory), the       *)
(* pipeline in front of it (DirPipeline), the arbiter in front of the DMA   *)
(* engine (DmaArbiter) and the way of a message from card to card           *)
(* (NetPath).  They share no register: what the pipeline does is what lets  *)
(* Directory take a message and its entry as one step.  So a behaviour is   *)
(* that of one of them, the one in focus, with the others at rest.          *)
(****************************************************************************)
EXTENDS Directory, DirPipeline, DmaArbiter, NetPath

CONSTANTS b1, b2, b3, b4, b5, k1, k2, k3

\* Five blocks in three buckets: two pairs share a bucket.
MCBucketOf ==
  [b \in Block |-> CASE b \in {b1, b2} -> k1 [] b \in {b3, b4} -> k2 [] OTHER -> k3]

\* Two messages of one sender and one of the other, of every kind that the modules treat differently.
MCLimit == [s \in Sender |-> IF s = "CC" THEN 2 ELSE 1]

MCKinds ==
  [s \in Sender |->
    IF s = "CC" THEN {"R_READ_MISS", "R_EVICT_DIRTY", "AGENT_2_DIR_READ_MISS_DIRTY_ACKDATA",
                      "AGENT_2_APP_READ_MISS_DIRTY_ACKDATA"}
    ELSE {"DIR_2_AGENT_WRITE_MISS_SHARED", "DIR_2_APP_READ_MISS_ACKDATA"}]

VARIABLE focus

CardInit == focus \in {"directory", "pipeline", "dma", "net"} /\ DirInit /\ Init /\ DmaInit /\ NetInit

CardNext ==
  /\ \/ focus = "directory" /\ DirNext /\ UNCHANGED <<vars, dmaVars, netVars>>
     \/ focus = "pipeline" /\ Next /\ UNCHANGED <<dvars, dmaVars, netVars>>
     \/ focus = "dma" /\ DmaNext /\ UNCHANGED <<dvars, vars, netVars>>
     \/ focus = "net" /\ NetNext /\ UNCHANGED <<dvars, vars, dmaVars>>
  /\ UNCHANGED focus

\* The fairness of the part in focus, as its module states it.
DirectoryFair ==
  LET On == focus = "directory" IN
  WF_dvars(On /\ DirCopy) /\ WF_dvars(On /\ \E m \in owed : DirAck(m))

PipelineFair ==
  LET On == focus = "pipeline" IN
  /\ WF_vars(On /\ UnlockTurn)
  /\ WF_vars(On /\ (IdleTurn \/ \E b \in Block : LockTurn(b)))
  /\ WF_vars(On /\ DdrWrite)
  /\ WF_vars(On /\ rd # <<>> /\ DdrRead(1))
  /\ WF_vars(On /\ \E b \in Block : InitDir(b))
  /\ WF_vars(On /\ \E copying \in BOOLEAN : Handle(copying))
  /\ WF_vars(On /\ CopyEnd)

DmaFair ==
  LET On == focus = "dma" IN
  /\ WF_dmaVars(On /\ Arbitrate) /\ WF_dmaVars(On /\ Continue)
  /\ WF_dmaVars(On /\ Engine) /\ WF_dmaVars(On /\ DeparserBeat)

NetFair ==
  LET On == focus = "net" IN
  /\ \A s \in Sender : WF_netVars(On /\ CtrlMsgCopy(s))
  /\ WF_netVars(On /\ (NextBeat \/ Join \/ TakeMessage \/ WriteLoop))
  /\ WF_netVars(On /\ HostRead)
  /\ WF_netVars(On /\ (ParserMac \/ ParserCtrl \/ ParserData))
  /\ WF_netVars(On /\ (DeparserMac \/ DeparserCtrl \/ DeparserData))

CardSpec ==
  /\ CardInit /\ [][CardNext]_<<focus, dvars, vars, dmaVars, netVars>>
  /\ DirectoryFair /\ PipelineFair /\ DmaFair /\ NetFair
==============================================================================
