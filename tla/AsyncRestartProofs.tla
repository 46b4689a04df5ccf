------------------------- MODULE AsyncRestartProofs -------------------------
(* Theorems about AsyncRestart for every number of PEs, domains and steps. *)
EXTENDS AsyncRestart, TLAPS

(* The loop indices stay inside the loops, and the file a server fetches   *)
(* into is open: what the types of idom, ridom and file rest on.           *)
LoopInv ==
    /\ \A w \in Work : wpc[w] \in {"updsent", "locked"} => idom[w] \in Dom
    /\ \A r \in Rest :
          /\ rpc[r] \in {"passing", "get"} => ridom[r] \in Dom
          /\ rpc[r] = "get" =>
                /\ r = Server(ridom[r])
                /\ rstep[r] \in CkptSteps => file[rstep[r]][ridom[r]].state = "open"

TypeInv == TypeOK /\ LoopInv

LEMMA InitType == Init => TypeInv
  <1> SUFFICES ASSUME Init PROVE TypeInv
    OBVIOUS
  <1> USE SizesAssumption, NestAssumption DEF Work, Rest, Dom, Steps
  <1>1. InitDesc \in Descriptions
    BY DEF InitDesc, Descriptions, Description
  <1>2. file \in [CkptSteps -> [Dom -> File]]
    BY DEF Init, File, NoFile
  <1>3. toRest \in Message /\ wcast \in [Work -> Message \ {Shutdown}] /\ rcast \in [Rest -> Message]
    BY DEF Init, Message, NoMsg, Shutdown
  <1>4. upd \in [Dom -> PatchMsg]
    BY DEF Init, PatchMsg, NoMsg
  <1>5. wpc \in [Work -> WorkPC] /\ rpc \in [Rest -> RestPC]
    BY DEF Init, WorkPC, RestPC
  <1>6. ldom \in [Work -> [Dom -> BOOLEAN]]
    BY DEF Init
  <1>7. /\ dyn \in [Work -> [Dom -> Steps]] /\ win \in [Work -> [Dom -> Steps]]
        /\ step \in [Work -> Steps] /\ rstep \in [Rest -> Steps]
    BY DEF Init
  <1>8. idom \in [Work -> 1 .. NDom + 1] /\ ridom \in [Rest -> 1 .. NDom + 1]
    BY DEF Init
  <1>9. /\ xlock \in [Work -> SUBSET Dom] /\ slock \in [Rest -> SUBSET Dom]
        /\ got \in [Rest -> SUBSET Work] /\ toWork \in {"none", "done"}
    BY DEF Init
  <1>10. desc \in [Work -> Descriptions] /\ rdesc \in [Rest -> Descriptions]
    BY <1>1 DEF Init
  <1> QED
    BY <1>2, <1>3, <1>4, <1>5, <1>6, <1>7, <1>8, <1>9, <1>10
       DEF TypeOK, TypeInv, LoopInv, Init

LEMMA FirstIndex == 1 \in 1 .. NDom + 1 /\ 0 \in Work /\ 0 \in Rest
  BY SizesAssumption DEF Work, Rest

(* What a command carries.                                                 *)
LEMMA StartMessage ==
    ASSUME NEW n \in Steps, NEW D \in Descriptions
    PROVE  Start(n, D) \in Message \ {Shutdown, NoMsg}
  BY DEF Start, Message, Shutdown, NoMsg

LEMMA MessageCases ==
    ASSUME NEW m \in Message
    PROVE  /\ m \in {NoMsg, Shutdown} \/ m.cmd = "start"
           /\ m.cmd = "start" => m.step \in Steps /\ m.desc \in Descriptions
  BY DEF Message, Shutdown, NoMsg

(* A restart PE that obeys a command keeps the types of what it sets.      *)
LEMMA ObeyType ==
    ASSUME TypeOK, NEW r \in Rest, NEW m \in Message, Obey(r, m)
    PROVE  /\ rpc' \in [Rest -> RestPC] /\ ridom' \in [Rest -> 1 .. NDom + 1]
           /\ rstep' \in [Rest -> Steps] /\ rdesc' \in [Rest -> Descriptions]
  <1>1. CASE m.cmd = "start"
    <2>1. m.step \in Steps /\ m.desc \in Descriptions
      BY <1>1, MessageCases
    <2>2. rpc' \in [Rest -> RestPC]
      BY <1>1 DEF Obey, TypeOK, RestPC
    <2>3. ridom' \in [Rest -> 1 .. NDom + 1]
      <3>1. ridom' = [ridom EXCEPT ![r] = 1]
        BY <1>1 DEF Obey
      <3>2. ridom \in [Rest -> 1 .. NDom + 1]
        BY DEF TypeOK
      <3> QED
        BY <3>1, <3>2, FirstIndex
    <2>4. rstep' \in [Rest -> Steps] /\ rdesc' \in [Rest -> Descriptions]
      BY <1>1, <2>1 DEF Obey, TypeOK
    <2> QED
      BY <2>2, <2>3, <2>4
  <1>2. CASE m.cmd # "start"
    BY <1>2 DEF Obey, TypeOK, RestPC
  <1> QED
    BY <1>1, <1>2

LEMMA TimeStepType == ASSUME TypeInv, NEW w \in Work, TimeStep(w) PROVE TypeInv'
  <1> USE DEF TypeInv, LoopInv
  <1> DEFINE n == step[w] + 1
  <1>0. n \in Steps
    <2>1. step[w] \in Steps /\ step[w] # NSteps
      BY DEF TimeStep, LastStep, TypeOK
    <2> QED
      BY <2>1, SizesAssumption DEF Steps
  <1>1. wpc' \in [Work -> WorkPC]
    BY DEF TimeStep, GotoW, TypeOK, WorkPC
  <1>2. step' \in [Work -> Steps]
    BY <1>0 DEF TimeStep, TypeOK
  <1>3. ldom' \in [Work -> [Dom -> BOOLEAN]]
    <2> DEFINE new == [d \in Dom |-> d \in Running(w, n) \cup Starting(w, n)]
    <2>1. new \in [Dom -> BOOLEAN]
      OBVIOUS
    <2>2. ldom' = [ldom EXCEPT ![w] = new]
      BY DEF TimeStep
    <2> HIDE DEF new
    <2>3. ldom \in [Work -> [Dom -> BOOLEAN]]
      BY DEF TypeOK
    <2> QED
      BY <2>1, <2>2, <2>3
  <1>4. dyn' \in [Work -> [Dom -> Steps]]
    <2> DEFINE new == [d \in Dom |-> IF \/ d \in Running(w, n) /\ w \in Owned[d]
                                       \/ d \in Starting(w, n)
                                    THEN n ELSE dyn[w][d]]
    <2>1. new \in [Dom -> Steps]
      BY <1>0 DEF TypeOK
    <2>2. dyn' = [dyn EXCEPT ![w] = new]
      BY DEF TimeStep
    <2> QED
      BY <2>1, <2>2 DEF TypeOK
  <1> QED
    BY <1>1, <1>2, <1>3, <1>4 DEF TimeStep, TypeOK, GotoW, restVars, msgVars

LEMMA UpdatePatchType == ASSUME TypeInv, NEW w \in Work, UpdatePatch(w) PROVE TypeInv'
  <1> USE DEF TypeInv, LoopInv
  <1>1. wpc' \in [Work -> WorkPC]
    BY DEF UpdatePatch, GotoW, TypeOK, WorkPC
  <1>2. desc' \in [Work -> Descriptions]
    <2>1. \A d \in Dom : [active |-> ldom[w][d],
                      dyn |-> IF Keeps(w, d) THEN dyn[w][d] ELSE desc[w][d].dyn] \in Description
       BY DEF TypeOK, Descriptions, Description
    <2> QED
      BY <2>1 DEF UpdatePatch, TypeOK, Descriptions
  <1> QED
    BY <1>1, <1>2 DEF UpdatePatch, TypeOK, GotoW, restVars, msgVars

LEMMA MasterType ==
    ASSUME TypeInv, NEW w \in Work,
           SkipMaster(w) \/ SendUpdate(w) \/ UpdateSent(w) \/ UnpackMetadata(w)
    PROVE  TypeInv'
  <1> USE SizesAssumption
      DEF TypeInv, LoopInv, GotoW, GotoR, NextPatch, NextFile, workVars, restVars,
          msgVars, WorkPC, RestPC, Dom
  <1>1. CASE SkipMaster(w)
    BY <1>1 DEF TypeOK, SkipMaster
  <1>2. CASE SendUpdate(w)
    <2>1. idom[w] \in Dom /\ desc[w][idom[w]] \in Description
      BY <1>2 DEF TypeOK, SendUpdate, Descriptions
    <2>2. upd' \in [Dom -> PatchMsg]
      BY <1>2, <2>1 DEF TypeOK, SendUpdate, PatchMsg
    <2>3. wpc' \in [Work -> WorkPC]
      BY <1>2 DEF TypeOK, SendUpdate
    <2> QED
      BY <1>2, <2>1, <2>2, <2>3 DEF TypeOK, SendUpdate
  <1>3. CASE UpdateSent(w)
    BY <1>3 DEF TypeOK, UpdateSent
  <1>4. CASE UnpackMetadata(w)
    <2>1. wcast[w] \in Message \ {Shutdown, NoMsg}
      BY <1>4 DEF TypeOK, UnpackMetadata
    <2>2. wcast[w].desc \in Descriptions
      BY <2>1, MessageCases
    <2>3. desc' \in [Work -> Descriptions]
      BY <1>4, <2>2 DEF TypeOK, UnpackMetadata
    <2>4. wcast' \in [Work -> Message \ {Shutdown}]
      BY <1>4 DEF TypeOK, UnpackMetadata, Message, NoMsg, Shutdown
    <2> QED
      BY <1>4, <2>3, <2>4 DEF TypeOK, UnpackMetadata
  <1> QED
    BY <1>1, <1>2, <1>3, <1>4

LEMMA PostType ==
    ASSUME TypeInv, NEW w \in Work,
           SkipPost(w) \/ LockWindow(w) \/ PostVars(w) \/ Destruct(w)
    PROVE  TypeInv'
  <1> USE SizesAssumption
      DEF TypeInv, LoopInv, GotoW, GotoR, NextPatch, NextFile, workVars, restVars,
          msgVars, WorkPC, RestPC, Dom
  <1>1. CASE SkipPost(w)
    BY <1>1 DEF TypeOK, SkipPost
  <1>2. CASE LockWindow(w)
    BY <1>2 DEF TypeOK, LockWindow
  <1>3. CASE PostVars(w)
    BY <1>3 DEF TypeOK, PostVars
  <1>4. CASE Destruct(w)
    BY <1>4 DEF TypeOK, Destruct
  <1> QED
    BY <1>1, <1>2, <1>3, <1>4

LEMMA RootType ==
    ASSUME TypeInv,
           RecvDone \/ RecvUpdate \/ BcastMetadata \/ SendTrigger \/ TriggerSent
           \/ RecvLastDone \/ SendShutdown \/ ShutdownSent
    PROVE  TypeInv'
  <1> USE SizesAssumption
      DEF TypeInv, LoopInv, GotoW, GotoR, NextPatch, NextFile, workVars, restVars,
          msgVars, WorkPC, RestPC, Dom
  <1>1. CASE RecvDone
    BY <1>1 DEF TypeOK, RecvDone
  <1>2. CASE RecvUpdate
    <2>1. idom[0] \in Dom /\ 0 \in Work
      BY <1>2 DEF TypeOK, RecvUpdate, Work
    <2>2. upd[idom[0]].desc \in Description
      BY <1>2, <2>1 DEF TypeOK, RecvUpdate, PatchMsg, NoMsg
    <2>3. desc' \in [Work -> Descriptions]
      BY <1>2, <2>1, <2>2 DEF TypeOK, RecvUpdate, Descriptions
    <2>4. upd' \in [Dom -> PatchMsg]
      BY <1>2, <2>1 DEF TypeOK, RecvUpdate, PatchMsg
    <2>5. idom' \in [Work -> 1 .. NDom + 1]
      BY <1>2, <2>1 DEF TypeOK, RecvUpdate
    <2> QED
      BY <1>2, <2>1, <2>3, <2>4, <2>5 DEF TypeOK, RecvUpdate
  <1>3. CASE BcastMetadata
    <2>1. Start(step[0], desc[0]) \in Message \ {Shutdown, NoMsg}
      BY StartMessage DEF TypeOK, Work
    <2>2. wcast' \in [Work -> Message \ {Shutdown}]
      BY <1>3, <2>1 DEF TypeOK, BcastMetadata
    <2>3. wpc' \in [Work -> WorkPC] /\ idom' \in [Work -> 1 .. NDom + 1]
      <3>1. wpc' = [wpc EXCEPT ![0] = "post"] /\ idom' = [idom EXCEPT ![0] = 1]
        BY <1>3 DEF BcastMetadata
      <3>2. wpc \in [Work -> WorkPC] /\ idom \in [Work -> 1 .. NDom + 1]
        BY DEF TypeOK
      <3> QED
        BY <3>1, <3>2, FirstIndex
    <2>4. TypeOK'
      BY <1>3, <2>2, <2>3 DEF TypeOK, BcastMetadata
    <2>5. LoopInv'
      BY <1>3 DEF TypeOK, BcastMetadata
    <2> QED
      BY <2>4, <2>5
  <1>4. CASE SendTrigger
    <2>1. Start(step[0], desc[0]) \in Message \ {Shutdown, NoMsg}
      BY StartMessage DEF TypeOK, Work
    <2> QED
      BY <1>4, <2>1 DEF TypeOK, SendTrigger
  <1>5. CASE TriggerSent
    BY <1>5 DEF TypeOK, TriggerSent
  <1>6. CASE RecvLastDone
    BY <1>6 DEF TypeOK, RecvLastDone
  <1>7. CASE SendShutdown
    BY <1>7 DEF TypeOK, SendShutdown, Message
  <1>8. CASE ShutdownSent
    BY <1>8 DEF TypeOK, ShutdownSent
  <1> QED
    BY <1>1, <1>2, <1>3, <1>4, <1>5, <1>6, <1>7, <1>8

LEMMA RestType ==
    ASSUME TypeInv, NEW r \in Rest,
           UnpackTrigger(r) \/ LockAll(r) \/ UnlockPassing(r) \/ BeginWrite(r)
           \/ SkipFile(r) \/ UnlockAll(r)
    PROVE  TypeInv'
  <1> USE SizesAssumption
      DEF TypeInv, LoopInv, GotoW, GotoR, NextPatch, NextFile, workVars, restVars,
          msgVars, WorkPC, RestPC, Dom
  <1>1. CASE UnpackTrigger(r)
    <2>1. rcast[r] \in Message
      BY DEF TypeOK
    <2>2. Obey(r, rcast[r]) => /\ rpc' \in [Rest -> RestPC]
                               /\ ridom' \in [Rest -> 1 .. NDom + 1]
                               /\ rstep' \in [Rest -> Steps]
                               /\ rdesc' \in [Rest -> Descriptions]
      BY <2>1, ObeyType
    <2>3. rcast' \in [Rest -> Message]
      BY <1>1 DEF TypeOK, UnpackTrigger, Message
    <2>4. TypeOK'
      BY <1>1, <2>2, <2>3 DEF TypeOK, UnpackTrigger
    <2>5. LoopInv'
      BY <1>1 DEF TypeOK, UnpackTrigger, Obey
    <2> QED
      BY <2>4, <2>5
  <1>2. CASE LockAll(r)
    <2>1. ridom[r] \in Dom
      BY <1>2 DEF TypeOK, LockAll
    <2>2. slock' \in [Rest -> SUBSET Dom]
      BY <1>2, <2>1 DEF TypeOK, LockAll
    <2>3. rpc \in [Rest -> RestPC] /\ ridom \in [Rest -> 1 .. NDom + 1]
      BY DEF TypeOK
    <2>4. rpc' \in [Rest -> RestPC] /\ ridom' \in [Rest -> 1 .. NDom + 1]
      <3>1. CASE r = Server(ridom[r])
        BY <1>2, <2>1, <2>3, <3>1 DEF LockAll
      <3>2. CASE r # Server(ridom[r])
        BY <1>2, <2>3, <3>2 DEF LockAll
      <3> QED
        BY <3>1, <3>2
    <2>5. TypeOK'
      BY <1>2, <2>2, <2>4 DEF TypeOK, LockAll
    <2>6. LoopInv'
      BY <1>2, <2>1 DEF TypeOK, LockAll
    <2> QED
      BY <2>5, <2>6
  <1>3. CASE UnlockPassing(r)
    BY <1>3 DEF TypeOK, UnlockPassing
  <1>4. CASE BeginWrite(r)
    BY <1>4 DEF TypeOK, BeginWrite
  <1>5. CASE SkipFile(r)
    BY <1>5 DEF TypeOK, SkipFile
  <1>6. CASE UnlockAll(r)
    BY <1>6 DEF TypeOK, UnlockAll, LockedAfter
  <1> QED
    BY <1>1, <1>2, <1>3, <1>4, <1>5, <1>6

LEMMA ServerType ==
    ASSUME TypeInv,
           SendDone \/ DoneSent \/ RecvTrigger
    PROVE  TypeInv'
  <1> USE SizesAssumption
      DEF TypeInv, LoopInv, GotoW, GotoR, NextPatch, NextFile, workVars, restVars,
          msgVars, WorkPC, RestPC, Dom
  <1>1. CASE SendDone
    BY <1>1 DEF TypeOK, SendDone
  <1>2. CASE DoneSent
    BY <1>2 DEF TypeOK, DoneSent
  <1>3. CASE RecvTrigger
    <2>1. 0 \in Rest /\ toRest \in Message
      BY DEF TypeOK, Rest
    <2>2. Obey(0, toRest) => /\ rpc' \in [Rest -> RestPC]
                             /\ ridom' \in [Rest -> 1 .. NDom + 1]
                             /\ rstep' \in [Rest -> Steps]
                             /\ rdesc' \in [Rest -> Descriptions]
      BY <2>1, ObeyType
    <2>3. rcast' \in [Rest -> Message] /\ toRest' \in Message
      BY <1>3, <2>1 DEF TypeOK, RecvTrigger, Message
    <2>4. TypeOK'
      BY <1>3, <2>2, <2>3 DEF TypeOK, RecvTrigger
    <2>5. LoopInv'
      BY <1>3 DEF TypeOK, RecvTrigger, Obey
    <2> QED
      BY <2>4, <2>5
  <1> QED
    BY <1>1, <1>2, <1>3

LEMMA FileType ==
    ASSUME TypeInv, NEW r \in Rest,
           OpenFile(r) \/ CloseFile(r) \/ (\E w \in Work : GetPart(r, w))
    PROVE  TypeInv'
  <1> USE SizesAssumption
      DEF TypeInv, LoopInv, GotoW, GotoR, NextPatch, NextFile, workVars, restVars,
          msgVars, WorkPC, RestPC, Dom
  <1>1. CASE OpenFile(r)
    <2> DEFINE f == [state |-> "open", attr |-> rdesc[r], part |-> [w \in Work |-> 0]]
    <2>1. f \in File /\ f.state = "open"
      BY DEF File, TypeOK, Steps
    <2>2. file' = [file EXCEPT ![rstep[r]] = [@ EXCEPT ![ridom[r]] = f]]
      BY <1>1 DEF OpenFile
    <2> HIDE DEF f
    <2>3. file' \in [CkptSteps -> [Dom -> File]]
      BY <2>1, <2>2 DEF TypeOK
    <2>4. rpc' \in [Rest -> RestPC] /\ got' \in [Rest -> SUBSET Work]
      BY <1>1 DEF TypeOK, OpenFile
    <2>5. TypeOK'
      BY <1>1, <2>3, <2>4 DEF TypeOK, OpenFile
    <2>6. ridom[r] \in Dom /\ r = Server(ridom[r])
      BY <1>1 DEF TypeOK, OpenFile
    <2>7. rstep[r] \in CkptSteps => file'[rstep[r]][ridom[r]] = f
      BY <2>2, <2>6 DEF TypeOK
    <2>8. \A q \in Rest : q # r /\ rpc[q] = "get" /\ rstep[q] \in CkptSteps =>
             file'[rstep[q]][ridom[q]] = file[rstep[q]][ridom[q]]
      BY <2>2, <2>6 DEF TypeOK
    <2>9. LoopInv'
      BY <1>1, <2>1, <2>6, <2>7, <2>8 DEF TypeOK, OpenFile
    <2> QED
      BY <2>5, <2>9
  <1>2. CASE CloseFile(r)
    <2>1. ridom[r] \in Dom
      BY <1>2 DEF CloseFile
    <2>2. file' \in [CkptSteps -> [Dom -> File]]
      <3>1. CASE rstep[r] \in CkptSteps
        <4>1. file[rstep[r]][ridom[r]] \in File
          <5>1. file \in [CkptSteps -> [Dom -> File]]
            BY DEF TypeOK
          <5> QED
            BY <2>1, <3>1, <5>1, Zenon
        <4>2. file[rstep[r]][ridom[r]].state = "open"
          BY <1>2, <3>1 DEF CloseFile
        <4> DEFINE g == [file[rstep[r]][ridom[r]] EXCEPT !.state = "closed"]
        <4>3. g \in File
          BY <4>1, <4>2 DEF File, NoFile
        <4>4. file' = [file EXCEPT ![rstep[r]] = [@ EXCEPT ![ridom[r]] = g]]
          BY <1>2 DEF CloseFile
        <4>5. file \in [CkptSteps -> [Dom -> File]]
          BY DEF TypeOK
        <4> HIDE DEF g
        <4> QED
          BY <4>3, <4>4, <4>5
      <3>2. CASE rstep[r] \notin CkptSteps
        BY <1>2, <3>2 DEF TypeOK, CloseFile
      <3> QED
        BY <3>1, <3>2
    <2>3. rpc' \in [Rest -> RestPC] /\ ridom' \in [Rest -> 1 .. NDom + 1]
      BY <1>2, <2>1 DEF TypeOK, CloseFile
    <2>4. TypeOK'
      BY <1>2, <2>2, <2>3 DEF TypeOK, CloseFile
    <2>5. LoopInv'
      BY <1>2, <2>1 DEF TypeOK, CloseFile
    <2> QED
      BY <2>4, <2>5
  <1>3. CASE \E w \in Work : GetPart(r, w)
    <2>1. PICK w \in Work : GetPart(r, w)
      BY <1>3
    <2>2. ridom[r] \in Dom /\ win[w][ridom[r]] \in Steps
      BY <2>1 DEF TypeOK, GetPart
    <2>3. file' \in [CkptSteps -> [Dom -> File]]
      <3>1. CASE rstep[r] \in CkptSteps
        <4> DEFINE f == file[rstep[r]][ridom[r]]
        <4>1. f \in File
          <5>1. file \in [CkptSteps -> [Dom -> File]]
            BY DEF TypeOK
          <5> QED
            BY <2>2, <3>1, <5>1, Zenon
        <4>2. f.state = "open"
          BY <2>1, <3>1 DEF GetPart
        <4>3. f.part \in [Work -> Steps]
          BY <4>1, <4>2 DEF File, NoFile
        <4>4. [f EXCEPT !.part[w] = win[w][ridom[r]]] \in File
          BY <2>2, <4>1, <4>2, <4>3 DEF File, NoFile
        <4> DEFINE g == [f EXCEPT !.part[w] = win[w][ridom[r]]]
        <4>5. file' = [file EXCEPT ![rstep[r]] = [@ EXCEPT ![ridom[r]] = g]]
          BY <2>1 DEF GetPart
        <4>6. file \in [CkptSteps -> [Dom -> File]] /\ g \in File
          BY <4>4 DEF TypeOK
        <4> HIDE DEF f, g
        <4> QED
          BY <4>5, <4>6
      <3>2. CASE rstep[r] \notin CkptSteps
        <4> DEFINE h == [file[rstep[r]] EXCEPT ![ridom[r]].part[w] =
                            win[w][ridom[r]]]
        <4>1. file' = [file EXCEPT ![rstep[r]] = h]
          BY <2>1 DEF GetPart
        <4>2. file \in [CkptSteps -> [Dom -> File]]
          BY DEF TypeOK
        <4> HIDE DEF h
        <4>3. file' = file
          BY <3>2, <4>1, <4>2
        <4> QED
          BY <4>2, <4>3
      <3> QED
        BY <3>1, <3>2
    <2>4. got' \in [Rest -> SUBSET Work]
      BY <2>1 DEF TypeOK, GetPart
    <2>5. TypeOK'
      BY <2>1, <2>3, <2>4 DEF TypeOK, GetPart
    <2>6. LoopInv'
      BY <2>1, <2>2 DEF TypeOK, GetPart
    <2> QED
      BY <2>5, <2>6
  <1> QED
    BY <1>1, <1>2, <1>3

LEMMA CollectiveType ==
    ASSUME TypeInv,
           Collective
    PROVE  TypeInv'
  <1> USE SizesAssumption
      DEF TypeInv, LoopInv, GotoW, GotoR, NextPatch, NextFile, workVars, restVars,
          msgVars, WorkPC, RestPC, Dom
  <1>1. CASE WaitBarrier
    BY <1>1 DEF TypeOK, WaitBarrier
  <1>2. CASE PostBarrier
    BY <1>2 DEF TypeOK, PostBarrier
  <1>3. CASE LastBarrier
    BY <1>3 DEF TypeOK, LastBarrier
  <1>4. CASE RestBarrier
    BY <1>4 DEF TypeOK, RestBarrier
  <1>5. CASE FreeWindows
    BY <1>5 DEF TypeOK, FreeWindows
  <1> QED
    BY <1>1, <1>2, <1>3, <1>4, <1>5 DEF Collective

LEMMA TypeStep == TypeInv /\ [Next]_vars => TypeInv'
  <1> SUFFICES ASSUME TypeInv, [Next]_vars PROVE TypeInv'
    OBVIOUS
  <1>1. ASSUME NEW w \in Work, WorkStep(w) PROVE TypeInv'
    BY <1>1, TimeStepType, UpdatePatchType, MasterType, PostType DEF WorkStep
  <1>2. CASE MasterStep
    BY <1>2, RootType DEF MasterStep
  <1>3. ASSUME NEW r \in Rest, RestStep(r) PROVE TypeInv'
    BY <1>3, RestType, FileType DEF RestStep
  <1>4. CASE ServerStep
    BY <1>4, ServerType DEF ServerStep
  <1>5. CASE Collective
    BY <1>5, CollectiveType
  <1>6. CASE UNCHANGED vars
    BY <1>6 DEF TypeInv, TypeOK, LoopInv, vars, workVars, restVars, msgVars
  <1> QED
    BY <1>1, <1>2, <1>3, <1>4, <1>5, <1>6 DEF Next, Terminating

(* Every variable has its type, whatever the numbers of PEs, domains and   *)
(* steps, the checkpoint schedule and the nests.                           *)
THEOREM TypeCorrect == Spec => []TypeOK
  <1>1. TypeInv => TypeOK
    BY DEF TypeInv
  <1> QED
    BY <1>1, InitType, TypeStep, PTL DEF Spec

-----------------------------------------------------------------------------
(* No get meets a half-posted snapshot: the baton invariant is inductive.  *)
(* The types the argument needs.                                           *)
BatonTypes ==
    /\ 0 \in Work /\ 0 \in Rest
    /\ wpc \in [Work -> WorkPC] /\ rpc \in [Rest -> RestPC]
    /\ idom \in [Work -> 1 .. NDom + 1]
    /\ xlock \in [Work -> SUBSET Dom] /\ slock \in [Rest -> SUBSET Dom]
    /\ toWork \in {"none", "done"} /\ toRest \in Message
    /\ rcast \in [Rest -> Message]

LEMMA BatonTypesHold == TypeOK => BatonTypes
  BY FirstIndex DEF TypeOK, BatonTypes

LEMMA InitBaton == Init => BatonInv
  BY FirstIndex DEF Init, BatonInv, Baton, WorkTogether, RestTogether, LocksHeld,
     WorkHas, RestHas, Serving, Left, NoMsg, Shutdown

LEMMA WorkBaton ==
    ASSUME BatonTypes, BatonInv, NEW w \in Work,
           WorkStep(w)
    PROVE  BatonInv'
  <1> USE DEF BatonTypes, BatonInv, Baton, WorkTogether, RestTogether, LocksHeld,
      WorkHas, RestHas, Serving, Left, WorkPC, RestPC, workVars, restVars, msgVars, GotoW, NextPatch
  <1>1. CASE TimeStep(w)
    BY <1>1 DEF TimeStep
  <1>2. CASE UpdatePatch(w)
    BY <1>2 DEF UpdatePatch
  <1>3. CASE SkipMaster(w)
    BY <1>3 DEF SkipMaster
  <1>4. CASE SendUpdate(w)
    BY <1>4 DEF SendUpdate
  <1>5. CASE UpdateSent(w)
    BY <1>5 DEF UpdateSent
  <1>6. CASE UnpackMetadata(w)
    BY <1>6 DEF UnpackMetadata
  <1>7. CASE SkipPost(w)
    BY <1>7 DEF SkipPost
  <1>8. CASE LockWindow(w)
    BY <1>8 DEF LockWindow
  <1>9. CASE PostVars(w)
    BY <1>9 DEF PostVars
  <1>10. CASE Destruct(w)
    BY <1>10 DEF Destruct
  <1> QED
    BY <1>1, <1>2, <1>3, <1>4, <1>5, <1>6, <1>7, <1>8, <1>9, <1>10 DEF WorkStep

LEMMA MasterBaton ==
    ASSUME BatonTypes, BatonInv,
           MasterStep
    PROVE  BatonInv'
  <1> USE DEF BatonTypes, BatonInv, Baton, WorkTogether, RestTogether, LocksHeld,
      WorkHas, RestHas, Serving, Left, WorkPC, RestPC, workVars, restVars, msgVars, GotoW, NextPatch
  <1>1. CASE RecvDone
    BY <1>1 DEF RecvDone
  <1>2. CASE RecvUpdate
    BY <1>2 DEF RecvUpdate
  <1>3. CASE BcastMetadata
    BY <1>3 DEF BcastMetadata
  <1>4. CASE SendTrigger
    BY <1>4 DEF SendTrigger, Start, NoMsg
  <1>5. CASE TriggerSent
    BY <1>5 DEF TriggerSent
  <1>6. CASE RecvLastDone
    BY <1>6 DEF RecvLastDone
  <1>7. CASE SendShutdown
    BY <1>7 DEF SendShutdown, Shutdown, NoMsg
  <1>8. CASE ShutdownSent
    BY <1>8 DEF ShutdownSent
  <1> QED
    BY <1>1, <1>2, <1>3, <1>4, <1>5, <1>6, <1>7, <1>8 DEF MasterStep

LEMMA RestBaton ==
    ASSUME BatonTypes, BatonInv, NEW r \in Rest,
           RestStep(r)
    PROVE  BatonInv'
  <1> USE DEF BatonTypes, BatonInv, Baton, WorkTogether, RestTogether, LocksHeld,
      WorkHas, RestHas, Serving, Left, WorkPC, RestPC, workVars, restVars, msgVars, GotoR, NextFile, Obey
  <1>1. CASE UnpackTrigger(r)
    <2>1. rcast[r] = Shutdown \/ rcast[r].cmd = "start"
      BY <1>1, MessageCases DEF UnpackTrigger
    <2>2. rcast' = [rcast EXCEPT ![r] = NoMsg] /\ NoMsg.cmd = "none"
          /\ Shutdown.cmd = "shutdown" /\ NoMsg # Shutdown
      BY <1>1 DEF UnpackTrigger, NoMsg, Shutdown
    <2>3. CASE rcast[r] = Shutdown
      BY <1>1, <2>2, <2>3 DEF UnpackTrigger
    <2>4. CASE rcast[r].cmd = "start"
      BY <1>1, <2>2, <2>4 DEF UnpackTrigger
    <2> QED
      BY <2>1, <2>3, <2>4
  <1>2. CASE LockAll(r)
    BY <1>2 DEF LockAll
  <1>3. CASE UnlockPassing(r)
    BY <1>3 DEF UnlockPassing
  <1>4. CASE BeginWrite(r)
    BY <1>4 DEF BeginWrite
  <1>5. CASE SkipFile(r)
    BY <1>5 DEF SkipFile
  <1>6. CASE OpenFile(r)
    BY <1>6 DEF OpenFile
  <1>7. CASE \E w \in Work : GetPart(r, w)
    BY <1>7 DEF GetPart
  <1>8. CASE CloseFile(r)
    BY <1>8 DEF CloseFile
  <1>9. CASE UnlockAll(r)
    BY <1>9 DEF UnlockAll, LockedAfter
  <1> QED
    BY <1>1, <1>2, <1>3, <1>4, <1>5, <1>6, <1>7, <1>8, <1>9 DEF RestStep

LEMMA ServerBaton ==
    ASSUME BatonTypes, BatonInv,
           ServerStep
    PROVE  BatonInv'
  <1> USE DEF BatonTypes, BatonInv, Baton, WorkTogether, RestTogether, LocksHeld,
      WorkHas, RestHas, Serving, Left, WorkPC, RestPC, workVars, restVars, msgVars, GotoR, Obey
  <1>1. CASE SendDone
    BY <1>1 DEF SendDone
  <1>2. CASE DoneSent
    BY <1>2 DEF DoneSent
  <1>3. CASE RecvTrigger
    <2>1. toRest = Shutdown \/ toRest.cmd = "start"
      BY <1>3, MessageCases DEF RecvTrigger
    <2>2. \A r \in Rest \ {0} : rpc[r] = "recv" /\ rcast'[r] = toRest
      BY <1>3 DEF RecvTrigger
    <2>3. Shutdown.cmd = "shutdown"
      BY DEF Shutdown
    <2>4. CASE toRest = Shutdown
      BY <1>3, <2>2, <2>3, <2>4 DEF RecvTrigger
    <2>5. CASE toRest.cmd = "start"
      BY <1>3, <2>2, <2>3, <2>5 DEF RecvTrigger
    <2> QED
      BY <2>1, <2>4, <2>5
  <1> QED
    BY <1>1, <1>2, <1>3 DEF ServerStep

LEMMA CollectiveBaton ==
    ASSUME BatonTypes, BatonInv,
           Collective
    PROVE  BatonInv'
  <1> USE DEF BatonTypes, BatonInv, Baton, WorkTogether, RestTogether, LocksHeld,
      WorkHas, RestHas, Serving, Left, WorkPC, RestPC, workVars, restVars, msgVars
  <1>1. CASE WaitBarrier
    BY <1>1 DEF WaitBarrier
  <1>2. CASE PostBarrier
    BY <1>2 DEF PostBarrier
  <1>3. CASE LastBarrier
    BY <1>3 DEF LastBarrier
  <1>4. CASE RestBarrier
    BY <1>4 DEF RestBarrier
  <1>5. CASE FreeWindows
    BY <1>5 DEF FreeWindows
  <1> QED
    BY <1>1, <1>2, <1>3, <1>4, <1>5 DEF Collective

LEMMA BatonStep == TypeOK /\ BatonInv /\ [Next]_vars => BatonInv'
  <1> SUFFICES ASSUME TypeOK, BatonInv, [Next]_vars PROVE BatonInv'
    OBVIOUS
  <1>0. BatonTypes
    BY BatonTypesHold
  <1>1. CASE UNCHANGED vars
    BY <1>1 DEF BatonInv, Baton, WorkTogether, RestTogether, LocksHeld, WorkHas,
       RestHas, Serving, Left, vars, workVars, restVars, msgVars
  <1> QED
    BY <1>0, <1>1, WorkBaton, MasterBaton, RestBaton, ServerBaton, CollectiveBaton
       DEF Next, Terminating

LEMMA BatonExcludesRace == BatonTypes /\ BatonInv => WindowRaceFree
  BY DEF BatonTypes, BatonInv, Baton, WorkTogether, RestTogether, LocksHeld,
     WorkHas, RestHas, Serving, WindowRaceFree

(* The baton has one holder, each group acts as one, and locks are held in *)
(* possession of the baton only.                                           *)
THEOREM BatonPassed == Spec => []BatonInv
  BY TypeCorrect, InitBaton, BatonStep, PTL DEF Spec

(* MPI_MODE_NOCHECK is justified: no work PE posts into a window that a    *)
(* restart PE has locked, for every number of PEs, domains and steps.      *)
THEOREM RaceFree == Spec => []WindowRaceFree
  <1>1. TypeOK /\ BatonInv => WindowRaceFree
    BY BatonTypesHold, BatonExcludesRace
  <1> QED
    BY <1>1, TypeCorrect, BatonPassed, PTL

(***************************************************************************)
(* What reaches the disk: every file is the snapshot of the step it is     *)
(* named after, and no checkpoint is incomplete.  The invariant follows a  *)
(* snapshot along its way: through the time loop (LoopTruth, PhaseInv),    *)
(* the metadata of the work PEs (MetaInv), the windows and the message     *)
(* (WinInv, AskInv), and the restart PEs (RestInv, FileInv).               *)
(***************************************************************************)

(* A PE that integrates the parent of a domain knows when it starts; the   *)
(* others may learn of it only from the metadata of a checkpoint.          *)
Knows(w, d) == d = 1 \/ w \in Owned[Parent[d]]

LoopTruth ==
    \A w \in Work, d \in Dom :
        /\ ldom[w][d] => ActiveAfter(d, step[w])
        /\ Knows(w, d) /\ ActiveAfter(d, step[w]) => ldom[w][d]
        /\ w \in Owned[d] /\ ActiveAfter(d, step[w]) => dyn[w][d] = step[w]

(* The work PEs are in the same stage of the same checkpoint: one that     *)
(* waits is ahead of those that do not, none passes a checkpoint another   *)
(* has not reached, and all post together.                                 *)
Waiting(w)    == wpc[w] \in {"update", "wait", "waitbar"}
Posting(w)    == wpc[w] \in {"master", "updsent", "post", "locked"}
Triggering(w) == wpc[w] \in {"trigger", "trigsent"}
Ending(w)     == wpc[w] \in {"lastwait", "lastbar", "shutdown", "shutsent",
                             "free", "stopped"}

PhaseInv ==
    /\ \A w \in Work : Waiting(w) \/ Posting(w) \/ Triggering(w) => step[w] \in CkptSteps
    /\ \A w \in Work : Ending(w) => step[w] = NSteps
    /\ \A v, w \in Work :
          Waiting(w) => step[v] < step[w] \/ (step[v] = step[w] /\ Waiting(v))
    /\ \A v, w \in Work, n \in CkptSteps :
          step[w] < n /\ n <= step[v] => step[v] = n /\ Waiting(v)
    /\ \A v, w \in Work : Posting(w) => Posting(v) /\ step[v] = step[w]

(* A description of d as the domain is after step n.                       *)
Right(x, d, n) == /\ x.active = ActiveAfter(d, n)
                  /\ ActiveAfter(d, n) => x.dyn = n

RightAll(D, n) == \A d \in Dom : Right(D[d], d, n)

(* The first PE of a domain describes it rightly; what it sent is under    *)
(* way until PE 0, which receives in the order of the domains, has it; the *)
(* broadcast carries what PE 0 then knows of all domains.                  *)
Unsent(w, d) == \/ wpc[w] = "master" /\ idom[w] <= d
                \/ wpc[w] = "updsent" /\ idom[w] < d

Merged(w) == wpc[w] \in {"post", "locked"}

OwnInv == \A d \in Dom :
    wpc[FirstPE(d)] \in {"wait", "waitbar"} \/ Posting(FirstPE(d)) =>
        Right(desc[FirstPE(d)][d], d, step[FirstPE(d)])

UpdInv == \A d \in Dom :
    /\ FirstPE(d) # 0 /\ Unsent(FirstPE(d), d) =>
          wpc[0] = "master" /\ idom[0] <= d /\ upd[d] = NoMsg
    /\ upd[d] # NoMsg => /\ FirstPE(d) # 0 /\ wpc[0] = "master" /\ idom[0] <= d
                         /\ Right(upd[d].desc, d, step[0])

MasterInv ==
    /\ wpc[0] # "updsent"
    /\ wpc[0] = "master" => \A d \in Dom : d < idom[0] => Right(desc[0][d], d, step[0])
    /\ Merged(0) \/ wpc[0] = "trigger" => RightAll(desc[0], step[0])

CastInv == \A w \in Work :
    /\ wcast[w] # NoMsg => /\ w # 0 /\ wpc[w] \in {"master", "updsent"} /\ Merged(0)
                           /\ wcast[w] = Start(step[0], desc[0])
    /\ Merged(w) => Merged(0) /\ desc[w] = desc[0]

MetaInv == OwnInv /\ UpdInv /\ MasterInv /\ CastInv

(* Every window holds the snapshot of step n: from the end of posting      *)
(* until the restart PEs have unlocked.                                    *)
Filled(n) == \A w \in Work, d \in Dom : ActiveAfter(d, n) => win[w][d] = n

WinInv ==
    /\ \A w \in Work, d \in Dom :
          Merged(w) /\ d < idom[w] /\ ActiveAfter(d, step[w]) => win[w][d] = step[w]
    /\ wpc[0] = "trigger" => Filled(step[0])
    /\ toRest.cmd = "start" => Filled(toRest.step)
    /\ Serving(0) => Filled(rstep[0])

(* Every checkpoint up to the step of PE 0 was asked for, but the one it   *)
(* is preparing; what it asks for is the next one after the last served.   *)
PreTrigger == Waiting(0) \/ Posting(0) \/ wpc[0] = "trigger"

AskInv ==
    /\ rstep[0] \in {0} \cup CkptSteps /\ Requested <= step[0]
    /\ PreTrigger => Requested < step[0]
    /\ \A n \in CkptSteps : n <= step[0] => n <= Requested \/ (n = step[0] /\ PreTrigger)
    /\ toRest.cmd = "start" =>
          /\ toRest.step \in CkptSteps /\ RightAll(toRest.desc, toRest.step)
          /\ rstep[0] < toRest.step
          /\ \A n \in CkptSteps : rstep[0] < n => toRest.step <= n

(* The restart PEs serve the same request.                                 *)
RestInv ==
    /\ rcast[0] = NoMsg
    /\ Serving(0) => rstep[0] \in CkptSteps /\ RightAll(rdesc[0], rstep[0])
    /\ \A r \in Rest \ {0} :
          /\ Serving(r) => rstep[r] = rstep[0] /\ rdesc[r] = rdesc[0]
          /\ rcast[r].cmd = "start" => rcast[r].step = rstep[0] /\ rcast[r].desc = rdesc[0]
          /\ rcast[r] # NoMsg => rpc[r] = "recv"

(* The files of earlier checkpoints are complete, later ones do not exist, *)
(* and the files of the one being served are as far as its servers are:    *)
(* an open file has the parts its server has fetched.                      *)
Fetching(d) == rpc[Server(d)] = "get" /\ ridom[Server(d)] = d
Written(d)  == \/ rpc[Server(d)] = "bar"
               \/ rpc[Server(d)] \in {"write", "get"} /\ d < ridom[Server(d)]

Progress(d) == IF Fetching(d) THEN "open"
               ELSE IF Written(d) /\ ActiveAfter(d, rstep[0]) THEN "closed" ELSE "absent"

Fetched(r) ==
    /\ ActiveAfter(ridom[r], rstep[r])
    /\ RightAll(file[rstep[r]][ridom[r]].attr, rstep[r])
    /\ \A w \in got[r] : file[rstep[r]][ridom[r]].part[w] = rstep[r]

FileInv ==
    /\ SnapshotConsistent
    /\ \A n \in CkptSteps : n < rstep[0] \/ (n = rstep[0] /\ ~Serving(0)) => Complete(n)
    /\ \A n \in CkptSteps, d \in Dom : rstep[0] < n => file[n][d].state = "absent"
    /\ Serving(0) => \A d \in Dom : file[rstep[0]][d].state = Progress(d)
    /\ \A r \in Rest : rpc[r] = "get" => Fetched(r)

-----------------------------------------------------------------------------
(* The time loop.                                                          *)

LEMMA Times ==
    /\ \A d \in Dom : StartStep[d] \in Nat /\ EndStep[d] \in Nat
    /\ 1 \in Dom /\ \A n \in 0 .. NSteps : ActiveAfter(1, n)
  BY SizesAssumption, NestAssumption DEF Dom, ActiveAfter

LEMMA InitLoop == Init => LoopTruth
  <1> SUFFICES ASSUME Init, NEW w \in Work, NEW d \in Dom
               PROVE  /\ ldom[w][d] = ActiveAfter(d, step[w])
                      /\ dyn[w][d] = step[w]
    BY DEF LoopTruth
  <1> QED
    BY Times DEF Init, ActiveAfter

(* A nest that becomes active in step n was not active before, but its     *)
(* parent was, and is.                                                     *)
LEMMA ParentRuns ==
    ASSUME NEW d \in Dom \ {1}, NEW n \in Nat, ActiveAfter(d, n + 1), ~ActiveAfter(d, n)
    PROVE  ActiveAfter(Parent[d], n) /\ n + 1 < EndStep[Parent[d]]
  <1>1. /\ StartStep[d] \in Nat /\ EndStep[d] \in Nat /\ Parent[d] \in Dom
        /\ StartStep[Parent[d]] \in Nat /\ EndStep[Parent[d]] \in Nat
        /\ EndStep[d] <= EndStep[Parent[d]]
        /\ StartStep[d] # 0 => StartStep[Parent[d]] < StartStep[d]
    BY NestAssumption
  <1>2. StartStep[d] = n + 1
    BY <1>1 DEF ActiveAfter
  <1> QED
    BY <1>1, <1>2 DEF ActiveAfter

LEMMA TimeStepLoop ==
    ASSUME TypeOK, LoopTruth, NEW w \in Work, TimeStep(w)
    PROVE  LoopTruth'
  <1> DEFINE n == step[w] + 1
             On == Running(w, n) \cup Starting(w, n)
  <1>1. /\ step[w] \in Nat /\ n \in Nat /\ n <= NSteps
        /\ \A d \in Dom : StartStep[d] \in Nat /\ EndStep[d] \in Nat
        /\ ActiveAfter(1, step[w]) /\ ActiveAfter(1, n)
    <2>1. step[w] \in Steps /\ step[w] # NSteps
      BY DEF TimeStep, LastStep, TypeOK
    <2> QED
      BY <2>1, SizesAssumption, Times DEF Steps
  <1>2. /\ step' = [step EXCEPT ![w] = n]
        /\ \A d \in Dom : ldom'[w][d] = (d \in On)
        /\ \A d \in Dom : d \in On /\ w \in Owned[d] => dyn'[w][d] = n
        /\ \A v \in Work \ {w} : ldom'[v] = ldom[v] /\ dyn'[v] = dyn[v]
    BY DEF TimeStep, TypeOK
  <1>3. ASSUME NEW d \in Dom, d \in On PROVE ActiveAfter(d, n)
    <2>1. CASE d \in Running(w, n)
      <3>1. ldom[w][d] /\ (d # 1 => n < EndStep[d])
        BY <2>1 DEF Running
      <3>2. StartStep[d] <= step[w]
        BY <3>1 DEF LoopTruth, ActiveAfter
      <3> QED
        BY <1>1, <3>1, <3>2 DEF ActiveAfter
    <2>2. CASE d \in Starting(w, n)
      BY <2>2 DEF Starting
    <2> QED
      BY <1>3, <2>1, <2>2
  <1>4. ASSUME NEW d \in Dom, Knows(w, d), ActiveAfter(d, n) PROVE d \in On
    <2>1. CASE ActiveAfter(d, step[w])
      <3>1. ldom[w][d]
        BY <1>4, <2>1 DEF LoopTruth
      <3> QED
        BY <1>4, <3>1 DEF Running, ActiveAfter
    <2>2. CASE ~ActiveAfter(d, step[w])
      <3>1. d # 1
        BY <1>1, <2>2
      <3>2. ActiveAfter(Parent[d], step[w]) /\ n < EndStep[Parent[d]]
        BY <1>1, <1>4, <2>2, <3>1, ParentRuns
      <3>3. w \in Owned[Parent[d]] /\ Parent[d] \in Dom /\ Knows(w, Parent[d])
        BY <1>4, <3>1, NestAssumption DEF Knows
      <3>4. Parent[d] \in Running(w, n)
        BY <3>2, <3>3 DEF LoopTruth, Running
      <3> QED
        BY <1>4, <3>1, <3>3, <3>4 DEF Starting
    <2> QED
      BY <2>1, <2>2
  <1>5. ASSUME NEW d \in Dom, w \in Owned[d] PROVE Knows(w, d)
    BY <1>5, NestAssumption DEF Knows
  <1> HIDE DEF On
  <1>6. ASSUME NEW v \in Work, NEW d \in Dom
        PROVE  /\ ldom'[v][d] => ActiveAfter(d, step'[v])
               /\ Knows(v, d) /\ ActiveAfter(d, step'[v]) => ldom'[v][d]
               /\ v \in Owned[d] /\ ActiveAfter(d, step'[v]) => dyn'[v][d] = step'[v]
    <2>1. CASE v = w
      <3>1. step'[v] = n
        BY <1>2, <2>1 DEF TypeOK
      <3> QED
        BY <1>2, <1>3, <1>4, <1>5, <2>1, <3>1
    <2>2. CASE v # w
      <3>1. step'[v] = step[v] /\ ldom'[v] = ldom[v] /\ dyn'[v] = dyn[v]
        BY <1>2, <2>2 DEF TypeOK
      <3> QED
        BY <3>1 DEF LoopTruth
    <2> QED
      BY <2>1, <2>2
  <1> QED
    BY <1>6 DEF LoopTruth, ActiveAfter, Knows

-----------------------------------------------------------------------------
(* Which actions touch what.                                               *)

RestSide == (\E r \in Rest : RestStep(r)) \/ ServerStep \/ RestBarrier
WorkSide == (\E w \in Work : WorkStep(w)) \/ MasterStep
            \/ WaitBarrier \/ PostBarrier \/ LastBarrier

LEMMA Sides == [Next]_vars => \/ WorkSide \/ RestSide \/ FreeWindows \/ UNCHANGED vars
  BY DEF Next, Collective, Terminating, WorkSide, RestSide

LEMMA RestSideFrame == RestSide => UNCHANGED <<workVars, upd, wcast>>
  <1>1. ASSUME NEW r \in Rest, RestStep(r) PROVE UNCHANGED <<workVars, upd, wcast>>
    BY <1>1 DEF RestStep, UnpackTrigger, LockAll, UnlockPassing, BeginWrite,
       SkipFile, OpenFile, GetPart, CloseFile, UnlockAll, msgVars
  <1>2. ServerStep \/ RestBarrier => UNCHANGED <<workVars, upd, wcast>>
    BY DEF ServerStep, SendDone, DoneSent, RecvTrigger, RestBarrier, msgVars
  <1> QED
    BY <1>1, <1>2 DEF RestSide

LEMMA WorkSideFrame == WorkSide => UNCHANGED <<restVars, rcast>>
  <1>1. ASSUME NEW w \in Work, WorkStep(w) PROVE UNCHANGED <<restVars, rcast>>
    BY <1>1 DEF WorkStep, TimeStep, UpdatePatch, SkipMaster, SendUpdate, UpdateSent,
       UnpackMetadata, SkipPost, LockWindow, PostVars, Destruct, msgVars
  <1>2. MasterStep => UNCHANGED <<restVars, rcast>>
    BY DEF MasterStep, RecvDone, RecvUpdate, BcastMetadata, SendTrigger, TriggerSent,
       RecvLastDone, SendShutdown, ShutdownSent, msgVars
  <1>3. WaitBarrier \/ PostBarrier \/ LastBarrier => UNCHANGED <<restVars, rcast>>
    BY DEF WaitBarrier, PostBarrier, LastBarrier, msgVars
  <1> QED
    BY <1>1, <1>2, <1>3 DEF WorkSide

LEMMA FreeFrame ==
    FreeWindows => UNCHANGED <<idom, step, ldom, dyn, desc, win, xlock,
                               ridom, rstep, rdesc, got, slock, file, msgVars>>
  BY DEF FreeWindows

(* Only the time loop moves a PE to another step.                          *)
LEMMA TimeFrame ==
    WorkSide => (\E w \in Work : TimeStep(w)) \/ UNCHANGED <<step, ldom, dyn>>
  <1>1. ASSUME NEW w \in Work, WorkStep(w)
        PROVE  TimeStep(w) \/ UNCHANGED <<step, ldom, dyn>>
    BY <1>1 DEF WorkStep, UpdatePatch, SkipMaster, SendUpdate, UpdateSent,
       UnpackMetadata, SkipPost, LockWindow, PostVars, Destruct
  <1>2. MasterStep => UNCHANGED <<step, ldom, dyn>>
    BY DEF MasterStep, RecvDone, RecvUpdate, BcastMetadata, SendTrigger, TriggerSent,
       RecvLastDone, SendShutdown, ShutdownSent
  <1>3. WaitBarrier \/ PostBarrier \/ LastBarrier => UNCHANGED <<step, ldom, dyn>>
    BY DEF WaitBarrier, PostBarrier, LastBarrier
  <1> QED
    BY <1>1, <1>2, <1>3 DEF WorkSide

LEMMA LoopStep == TypeOK /\ LoopTruth /\ [Next]_vars => LoopTruth'
  <1> SUFFICES ASSUME TypeOK, LoopTruth, [Next]_vars PROVE LoopTruth'
    OBVIOUS
  <1>1. ASSUME UNCHANGED <<step, ldom, dyn>> PROVE LoopTruth'
    BY <1>1 DEF LoopTruth, ActiveAfter, Knows
  <1>2. CASE WorkSide
    BY <1>1, <1>2, TimeFrame, TimeStepLoop
  <1>3. CASE RestSide \/ FreeWindows
    BY <1>1, <1>3, RestSideFrame, FreeFrame DEF workVars
  <1>4. CASE UNCHANGED vars
    BY <1>1, <1>4 DEF vars, workVars
  <1> QED
    BY <1>2, <1>3, <1>4, Sides

-----------------------------------------------------------------------------
(* The stages.                                                             *)

PhaseTypes ==
    /\ 0 \in Work /\ wpc \in [Work -> WorkPC] /\ step \in [Work -> Nat]
    /\ \A w \in Work : step[w] <= NSteps
    /\ NSteps \in Nat /\ CkptSteps \subseteq Nat \ {0}

LEMMA PhaseTypesHold == TypeOK => PhaseTypes
  BY FirstIndex, SizesAssumption DEF TypeOK, PhaseTypes, Steps

LEMMA InitPhase == Init => PhaseInv
  BY SizesAssumption DEF Init, PhaseInv, Waiting, Posting, Triggering, Ending

LEMMA TimeStepPhase ==
    ASSUME PhaseTypes, PhaseInv, NEW w \in Work, TimeStep(w)
    PROVE  PhaseInv'
  <1> DEFINE n == step[w] + 1
  <1> USE DEF PhaseTypes, Waiting, Posting, Triggering, Ending, WorkPC
  <1>1. /\ wpc[w] = "step" /\ step' = [step EXCEPT ![w] = n]
        /\ wpc' = [wpc EXCEPT ![w] = IF n \in CkptSteps THEN "update" ELSE "step"]
    BY DEF TimeStep, GotoW
  <1>2. /\ wpc'[w] \in {"update", "step"} /\ (Waiting(w)' <=> n \in CkptSteps)
        /\ step'[w] = n /\ n \in Nat
        /\ \A v \in Work \ {w} : wpc'[v] = wpc[v] /\ step'[v] = step[v]
    BY <1>1
  <1>3. \A v \in Work : Waiting(v) => step[w] < step[v]
    BY <1>1 DEF PhaseInv
  <1>4. \A v \in Work : n \in CkptSteps /\ n <= step[v] => step[v] = n /\ Waiting(v)
    BY <1>1 DEF PhaseInv
  <1>5. \A v \in Work : ~Posting(v)
    BY <1>1 DEF PhaseInv
  <1>6. \A v \in Work : (Waiting(v) \/ Posting(v) \/ Triggering(v))' => step'[v] \in CkptSteps
    BY <1>2 DEF PhaseInv
  <1>7. \A v \in Work : Ending(v)' => step'[v] = NSteps
    BY <1>2 DEF PhaseInv
  <1>8. ASSUME NEW v \in Work, NEW u \in Work, Waiting(u)'
        PROVE  step'[v] < step'[u] \/ (step'[v] = step'[u] /\ Waiting(v)')
    <2>1. CASE u = w
      BY <1>2, <1>4, <1>8, <2>1
    <2>2. CASE u # w /\ v = w
      <3>1. Waiting(u) /\ step'[u] = step[u] /\ step[u] \in CkptSteps
        BY <1>2, <1>8, <2>2 DEF PhaseInv
      <3> QED
        BY <1>2, <1>3, <2>2, <3>1
    <2>3. CASE u # w /\ v # w
      BY <1>2, <1>8, <2>3 DEF PhaseInv
    <2> QED
      BY <2>1, <2>2, <2>3
  <1>9. ASSUME NEW v \in Work, NEW u \in Work, NEW k \in CkptSteps,
               step'[u] < k, k <= step'[v]
        PROVE  step'[v] = k /\ Waiting(v)'
    <2>1. step[u] < k
      BY <1>2, <1>9
    <2>2. CASE v = w
      <3>1. ~(k <= step[w])
        BY <1>1, <2>1 DEF PhaseInv
      <3> QED
        BY <1>2, <1>9, <2>2, <3>1
    <2>3. CASE v # w
      BY <1>2, <1>9, <2>1, <2>3 DEF PhaseInv
    <2> QED
      BY <2>2, <2>3
  <1>10. \A v \in Work : ~Posting(v)'
    BY <1>2, <1>5
  <1> QED
    BY <1>6, <1>7, <1>8, <1>9, <1>10 DEF PhaseInv

(* The other actions of one PE keep it in its stage, or take work PE 0     *)
(* from the end of one to the next.                                        *)
LEMMA StagePhase ==
    ASSUME PhaseTypes, PhaseInv, NEW w \in Work, step' = step,
           wpc' = [wpc EXCEPT ![w] = wpc'[w]], wpc'[w] \in WorkPC,
           Waiting(w)' <=> Waiting(w), Posting(w)' <=> Posting(w),
           Triggering(w)' => Triggering(w),
           Ending(w)' => step[w] = NSteps
    PROVE  PhaseInv'
  <1>1. \A v \in Work : /\ Waiting(v)' <=> Waiting(v)
                        /\ Posting(v)' <=> Posting(v)
                        /\ Triggering(v)' => Triggering(v)
                        /\ Ending(v)' => Ending(v) \/ step[v] = NSteps
    BY DEF PhaseTypes, Waiting, Posting, Triggering, Ending
  <1> QED
    BY <1>1 DEF PhaseInv, PhaseTypes

LEMMA WorkPhase ==
    ASSUME PhaseTypes, PhaseInv, NEW w \in Work, WorkStep(w)
    PROVE  PhaseInv'
  <1> USE DEF PhaseTypes, Waiting, Posting, Triggering, Ending, WorkPC, GotoW
  <1>1. CASE TimeStep(w)
    BY <1>1, TimeStepPhase
  <1>2. CASE UpdatePatch(w)
    BY <1>2, StagePhase DEF UpdatePatch
  <1>3. CASE SkipMaster(w) \/ SkipPost(w)
    BY <1>3, StagePhase DEF SkipMaster, SkipPost
  <1>4. CASE SendUpdate(w)
    BY <1>4, StagePhase DEF SendUpdate
  <1>5. CASE UpdateSent(w)
    BY <1>5, StagePhase DEF UpdateSent
  <1>6. CASE UnpackMetadata(w)
    BY <1>6, StagePhase DEF UnpackMetadata
  <1>7. CASE LockWindow(w)
    BY <1>7, StagePhase DEF LockWindow
  <1>8. CASE PostVars(w)
    BY <1>8, StagePhase DEF PostVars
  <1>9. CASE Destruct(w)
    BY <1>9, StagePhase DEF Destruct, LastStep
  <1> QED
    BY <1>1, <1>2, <1>3, <1>4, <1>5, <1>6, <1>7, <1>8, <1>9 DEF WorkStep

LEMMA MasterPhase ==
    ASSUME PhaseTypes, PhaseInv, MasterStep
    PROVE  PhaseInv'
  <1> USE DEF PhaseTypes, Waiting, Posting, Triggering, Ending, WorkPC, GotoW
  <1>1. CASE RecvDone
    BY <1>1, StagePhase DEF RecvDone
  <1>2. CASE RecvUpdate
    BY <1>2, StagePhase DEF RecvUpdate
  <1>3. CASE BcastMetadata
    BY <1>3, StagePhase DEF BcastMetadata
  <1>4. CASE SendTrigger
    BY <1>4, StagePhase DEF SendTrigger
  <1>5. CASE TriggerSent
    BY <1>5, StagePhase DEF TriggerSent
  <1>6. CASE RecvLastDone \/ SendShutdown \/ ShutdownSent
    <2>1. Ending(0)
      BY <1>6 DEF RecvLastDone, SendShutdown, ShutdownSent
    <2>2. step[0] = NSteps
      BY <2>1 DEF PhaseInv
    <2> QED
      BY <1>6, <2>2, StagePhase DEF RecvLastDone, SendShutdown, ShutdownSent
  <1> QED
    BY <1>1, <1>2, <1>3, <1>4, <1>5, <1>6 DEF MasterStep

LEMMA BarrierPhase ==
    ASSUME PhaseTypes, PhaseInv, WaitBarrier \/ PostBarrier \/ LastBarrier \/ FreeWindows
    PROVE  PhaseInv'
  <1> USE DEF PhaseTypes, Waiting, Posting, Triggering, Ending
  <1>1. CASE WaitBarrier
    <2>1. \A v \in Work : wpc[v] = "waitbar" /\ wpc'[v] = "master" /\ step'[v] = step[v]
      BY <1>1 DEF WaitBarrier
    <2>2. \A v, w \in Work : step[v] <= step[w]
      BY <2>1 DEF PhaseInv
    <2>3. \A v, w \in Work : step[v] = step[w]
      BY <2>2
    <2> QED
      BY <2>1, <2>3 DEF PhaseInv
  <1>2. CASE PostBarrier
    BY <1>2 DEF PostBarrier, PhaseInv
  <1>3. CASE LastBarrier
    BY <1>3 DEF LastBarrier, PhaseInv
  <1>4. CASE FreeWindows
    BY <1>4 DEF FreeWindows, PhaseInv
  <1> QED
    BY <1>1, <1>2, <1>3, <1>4

LEMMA PhaseStep == TypeOK /\ PhaseInv /\ [Next]_vars => PhaseInv'
  <1> SUFFICES ASSUME TypeOK, PhaseInv, [Next]_vars PROVE PhaseInv'
    OBVIOUS
  <1>1. PhaseTypes
    BY PhaseTypesHold
  <1>2. CASE WorkSide \/ FreeWindows
    BY <1>1, <1>2, WorkPhase, MasterPhase, BarrierPhase DEF WorkSide
  <1>3. ASSUME UNCHANGED workVars PROVE PhaseInv'
    BY <1>3 DEF workVars, PhaseInv, Waiting, Posting, Triggering, Ending
  <1>4. CASE RestSide \/ UNCHANGED vars
    BY <1>3, <1>4, RestSideFrame DEF vars
  <1> QED
    BY <1>2, <1>4, Sides

-----------------------------------------------------------------------------
(* The metadata.                                                           *)

MetaTypes ==
    /\ 0 \in Work /\ wpc \in [Work -> WorkPC] /\ step \in [Work -> Nat]
    /\ NDom \in Nat /\ Dom = 1 .. NDom /\ idom \in [Work -> 1 .. NDom + 1]
    /\ ldom \in [Work -> [Dom -> BOOLEAN]] /\ desc \in [Work -> Descriptions]
    /\ upd \in [Dom -> PatchMsg] /\ wcast \in [Work -> Message]
    /\ \A d \in Dom : FirstPE(d) \in Work /\ FirstPE(d) \in Owned[d]

LEMMA MetaTypesHold == TypeOK => MetaTypes
  <1>1. \A d \in Dom : FirstPE(d) \in Work /\ FirstPE(d) \in Owned[d]
    BY NestAssumption DEF FirstPE
  <1>2. TypeOK => /\ step \in [Work -> Nat] /\ wcast \in [Work -> Message]
                  /\ idom \in [Work -> 1 .. NDom + 1]
    BY DEF TypeOK, Steps
  <1>3. NDom \in Nat /\ Dom = 1 .. NDom
    BY SizesAssumption DEF Dom
  <1> QED
    BY <1>1, <1>2, <1>3, FirstIndex DEF TypeOK, MetaTypes

LEMMA InitMeta == Init => MetaInv
  <1> SUFFICES ASSUME Init PROVE MetaInv
    OBVIOUS
  <1>1. \A d \in Dom : FirstPE(d) \in Work
    BY NestAssumption DEF FirstPE
  <1> QED
    BY <1>1, FirstIndex DEF Init, MetaInv, OwnInv, UpdInv, MasterInv, CastInv, Posting, Unsent, Merged

LEMMA TimeStepMeta ==
    ASSUME MetaTypes, MetaInv, NEW w \in Work, TimeStep(w)
    PROVE  MetaInv'
  <1> USE DEF MetaTypes, Posting, Unsent, Merged, WorkPC
  <1>1. /\ wpc[w] = "step" /\ wpc'[w] \in {"update", "step"}
        /\ \A v \in Work \ {w} : wpc'[v] = wpc[v] /\ step'[v] = step[v]
        /\ UNCHANGED <<idom, desc, upd, wcast>>
    BY DEF TimeStep, GotoW, msgVars
  <1>2. OwnInv'
    BY <1>1 DEF MetaInv, OwnInv, FirstPE
  <1>3. UpdInv'
    BY <1>1 DEF MetaInv, UpdInv, FirstPE
  <1>4. MasterInv'
    BY <1>1 DEF MetaInv, MasterInv, RightAll
  <1>5. CastInv'
    BY <1>1 DEF MetaInv, CastInv
  <1> QED
    BY <1>2, <1>3, <1>4, <1>5 DEF MetaInv

(* The first PE of a domain integrates it, so it describes it rightly.     *)
LEMMA UpdatePatchMeta ==
    ASSUME MetaTypes, MetaInv, LoopTruth, NEW w \in Work, UpdatePatch(w)
    PROVE  MetaInv'
  <1> USE DEF MetaTypes, Posting, Unsent, Merged, WorkPC
  <1>1. /\ wpc[w] = "update" /\ wpc'[w] \in {"wait", "waitbar"}
        /\ \A v \in Work \ {w} : wpc'[v] = wpc[v] /\ desc'[v] = desc[v]
        /\ UNCHANGED <<idom, step, upd, wcast>>
    BY DEF UpdatePatch, GotoW, msgVars
  <1>2. ASSUME NEW d \in Dom, FirstPE(d) = w
        PROVE  Right(desc'[w][d], d, step[w])
    <2>1. w \in Owned[d] /\ Knows(w, d) /\ Keeps(w, d)
      BY <1>2, NestAssumption DEF Knows, Keeps, FirstPE
    <2>2. desc'[w][d] = [active |-> ldom[w][d], dyn |-> dyn[w][d]]
      BY <2>1 DEF UpdatePatch
    <2>3. ldom[w][d] = ActiveAfter(d, step[w])
      <3>1. ldom[w][d] \in BOOLEAN
        OBVIOUS
      <3>2. ldom[w][d] <=> ActiveAfter(d, step[w])
        BY <2>1 DEF LoopTruth
      <3> HIDE DEF MetaTypes
      <3> QED
        BY <3>1, <3>2 DEF ActiveAfter
    <2>4. ActiveAfter(d, step[w]) => dyn[w][d] = step[w]
      BY <2>1 DEF LoopTruth
    <2> HIDE DEF MetaTypes
    <2> QED
      BY <2>2, <2>3, <2>4 DEF Right
  <1>3. OwnInv'
    <2> SUFFICES ASSUME NEW d \in Dom,
                        wpc'[FirstPE(d)] \in {"wait", "waitbar"} \/ Posting(FirstPE(d))'
                 PROVE  Right(desc'[FirstPE(d)][d], d, step'[FirstPE(d)])
      BY DEF OwnInv, FirstPE
    <2>1. CASE FirstPE(d) = w
      BY <1>1, <1>2, <2>1
    <2>2. CASE FirstPE(d) # w
      BY <1>1, <2>2 DEF MetaInv, OwnInv, FirstPE
    <2> QED
      BY <2>1, <2>2
  <1>4. UpdInv'
    BY <1>1 DEF MetaInv, UpdInv, FirstPE
  <1>5. MasterInv'
    BY <1>1 DEF MetaInv, MasterInv, RightAll
  <1>6. CastInv'
    BY <1>1 DEF MetaInv, CastInv
  <1> QED
    BY <1>3, <1>4, <1>5, <1>6 DEF MetaInv

LEMMA SkipMasterMeta ==
    ASSUME MetaTypes, MetaInv, NEW w \in Work, SkipMaster(w)
    PROVE  MetaInv'
  <1> USE DEF MetaTypes, Posting, Unsent, Merged, WorkPC
  <1>1. /\ wpc[w] = "master" /\ idom[w] \in Dom /\ UNCHANGED <<wpc, step, desc, upd, wcast>>
        /\ FirstPE(idom[w]) = 0 \/ w \notin {0, FirstPE(idom[w])}
        /\ idom' = [idom EXCEPT ![w] = idom[w] + 1]
    BY DEF SkipMaster, NextPatch, msgVars
  <1>2. OwnInv'
    BY <1>1 DEF MetaInv, OwnInv, FirstPE
  <1>3. UpdInv'
    <2> SUFFICES ASSUME NEW d \in Dom
                 PROVE  /\ FirstPE(d) # 0 /\ Unsent(FirstPE(d), d)' =>
                             wpc[0] = "master" /\ idom'[0] <= d /\ upd[d] = NoMsg
                        /\ upd[d] # NoMsg => idom'[0] <= d
      BY <1>1 DEF MetaInv, UpdInv, FirstPE
    <2>1. FirstPE(d) # 0 /\ Unsent(FirstPE(d), d)' => Unsent(FirstPE(d), d)
      BY <1>1
    <2>2. FirstPE(d) # 0 /\ idom[0] <= d => idom'[0] <= d
      BY <1>1
    <2> QED
      BY <2>1, <2>2 DEF MetaInv, UpdInv
  <1>4. MasterInv'
    <2> SUFFICES ASSUME w = 0, NEW d \in Dom, d < idom'[0]
                 PROVE  Right(desc[0][d], d, step[0])
      BY <1>1 DEF MetaInv, MasterInv, RightAll
    <2>1. CASE d < idom[0]
      BY <1>1, <2>1 DEF MetaInv, MasterInv
    <2>2. CASE d = idom[0]
      BY <1>1, <2>2 DEF MetaInv, OwnInv
    <2> QED
      BY <1>1, <2>1, <2>2
  <1>5. CastInv'
    BY <1>1 DEF MetaInv, CastInv
  <1> QED
    BY <1>2, <1>3, <1>4, <1>5 DEF MetaInv

LEMMA SendUpdateMeta ==
    ASSUME MetaTypes, MetaInv, PhaseInv, NEW w \in Work, SendUpdate(w) \/ UpdateSent(w)
    PROVE  MetaInv'
  <1> USE DEF MetaTypes, Posting, Unsent, Merged, WorkPC
  <1>1. CASE SendUpdate(w)
    <2> DEFINE d == idom[w]
    <2>1. /\ wpc[w] = "master" /\ d \in Dom /\ w # 0 /\ w = FirstPE(d)
          /\ UNCHANGED <<idom, step, desc, wcast>>
          /\ wpc' = [wpc EXCEPT ![w] = "updsent"]
          /\ upd' = [upd EXCEPT ![d] = [cmd |-> "patch", desc |-> desc[w][d]]]
      BY <1>1 DEF SendUpdate, GotoW
    <2>2. wpc[0] = "master" /\ idom[0] <= d /\ step[w] = step[0]
      BY <2>1 DEF MetaInv, UpdInv, PhaseInv
    <2>3. upd'[d].desc = desc[w][d] /\ \A e \in Dom \ {d} : upd'[e] = upd[e]
      BY <2>1
    <2>4. Right(upd'[d].desc, d, step[0])
      BY <2>1, <2>2, <2>3 DEF MetaInv, OwnInv
    <2>5. OwnInv'
      BY <2>1 DEF MetaInv, OwnInv, FirstPE
    <2>6. UpdInv'
      <3> SUFFICES ASSUME NEW e \in Dom
                   PROVE  /\ FirstPE(e) # 0 /\ Unsent(FirstPE(e), e)' =>
                               wpc'[0] = "master" /\ idom[0] <= e /\ upd'[e] = NoMsg
                          /\ upd'[e] # NoMsg =>
                               /\ FirstPE(e) # 0 /\ wpc'[0] = "master" /\ idom[0] <= e
                               /\ Right(upd'[e].desc, e, step[0])
        BY <2>1 DEF UpdInv, FirstPE
      <3>1. CASE e = d
        BY <2>1, <2>2, <2>4, <3>1
      <3>2. CASE e # d
        <4>1. Unsent(FirstPE(e), e)' => Unsent(FirstPE(e), e)
          BY <2>1, <3>2
        <4> QED
          BY <2>1, <2>3, <3>2, <4>1 DEF MetaInv, UpdInv
      <3> QED
        BY <3>1, <3>2
    <2>7. MasterInv'
      BY <2>1 DEF MetaInv, MasterInv, RightAll
    <2>8. CastInv'
      BY <2>1 DEF MetaInv, CastInv
    <2> QED
      BY <2>5, <2>6, <2>7, <2>8 DEF MetaInv
  <1>2. CASE UpdateSent(w)
    <2>1. /\ wpc[w] = "updsent" /\ UNCHANGED <<step, desc, upd, wcast>>
          /\ wpc' = [wpc EXCEPT ![w] = "master"]
          /\ idom' = [idom EXCEPT ![w] = idom[w] + 1]
      BY <1>2 DEF UpdateSent, GotoW, NextPatch, msgVars
    <2>2. w # 0
      BY <2>1 DEF MetaInv, MasterInv
    <2>3. OwnInv'
      BY <2>1 DEF MetaInv, OwnInv, FirstPE
    <2>4. UpdInv'
      <3> SUFFICES ASSUME NEW e \in Dom
                   PROVE  /\ FirstPE(e) # 0 /\ Unsent(FirstPE(e), e)' =>
                               wpc'[0] = "master" /\ idom'[0] <= e /\ upd[e] = NoMsg
                          /\ upd[e] # NoMsg =>
                               /\ FirstPE(e) # 0 /\ wpc'[0] = "master" /\ idom'[0] <= e
                               /\ Right(upd[e].desc, e, step[0])
        BY <2>1 DEF UpdInv, FirstPE
      <3>1. Unsent(FirstPE(e), e)' => Unsent(FirstPE(e), e)
        BY <2>1
      <3>2. wpc'[0] = wpc[0] /\ idom'[0] = idom[0]
        BY <2>1, <2>2
      <3> QED
        BY <3>1, <3>2 DEF MetaInv, UpdInv
    <2>5. MasterInv'
      BY <2>1, <2>2 DEF MetaInv, MasterInv, RightAll
    <2>6. CastInv'
      BY <2>1, <2>2 DEF MetaInv, CastInv
    <2> QED
      BY <2>3, <2>4, <2>5, <2>6 DEF MetaInv
  <1> QED
    BY <1>1, <1>2

LEMMA RecvUpdateMeta ==
    ASSUME MetaTypes, MetaInv, RecvUpdate
    PROVE  MetaInv'
  <1> USE DEF MetaTypes, Posting, Unsent, Merged, WorkPC
  <1> DEFINE d == idom[0]
  <1>1. /\ wpc[0] = "master" /\ d \in Dom /\ FirstPE(d) # 0 /\ upd[d] # NoMsg
        /\ UNCHANGED <<wpc, step, wcast>>
        /\ idom' = [idom EXCEPT ![0] = d + 1]
        /\ desc' = [desc EXCEPT ![0][d] = upd[d].desc]
        /\ upd' = [upd EXCEPT ![d] = NoMsg]
    BY DEF RecvUpdate, NextPatch
  <1>2. /\ desc'[0][d] = upd[d].desc
        /\ \A e \in Dom \ {d} : desc'[0][e] = desc[0][e]
        /\ \A w \in Work \ {0} : desc'[w] = desc[w]
    BY <1>1 DEF Descriptions
  <1>3. OwnInv'
    <2> SUFFICES ASSUME NEW e \in Dom,
                        wpc[FirstPE(e)] \in {"wait", "waitbar"} \/ Posting(FirstPE(e))
                 PROVE  Right(desc'[FirstPE(e)][e], e, step[FirstPE(e)])
      BY <1>1 DEF OwnInv, FirstPE
    <2>1. desc'[FirstPE(e)][e] = desc[FirstPE(e)][e]
      BY <1>1, <1>2
    <2> QED
      BY <2>1 DEF MetaInv, OwnInv
  <1>4. UpdInv'
    <2> SUFFICES ASSUME NEW e \in Dom
                 PROVE  /\ FirstPE(e) # 0 /\ Unsent(FirstPE(e), e)' =>
                             idom'[0] <= e /\ upd'[e] = NoMsg
                        /\ upd'[e] # NoMsg =>
                             /\ FirstPE(e) # 0 /\ idom'[0] <= e
                             /\ Right(upd'[e].desc, e, step[0])
      BY <1>1 DEF UpdInv, FirstPE
    <2>1. FirstPE(e) # 0 => (Unsent(FirstPE(e), e)' <=> Unsent(FirstPE(e), e))
      BY <1>1
    <2>2. CASE e = d
      <3>1. ~Unsent(FirstPE(d), d)
        BY <1>1 DEF MetaInv, UpdInv
      <3> QED
        BY <1>1, <2>1, <2>2, <3>1
    <2>3. CASE e # d
      <3>1. upd'[e] = upd[e] /\ idom'[0] = d + 1
        BY <1>1, <2>3
      <3>2. d <= e => d + 1 <= e
        BY <2>3
      <3> QED
        BY <2>1, <3>1, <3>2 DEF MetaInv, UpdInv
    <2> QED
      BY <2>2, <2>3
  <1>5. MasterInv'
    <2> SUFFICES ASSUME NEW e \in Dom, e < idom'[0]
                 PROVE  Right(desc'[0][e], e, step[0])
      BY <1>1 DEF MasterInv, RightAll
    <2>1. CASE e = d
      BY <1>1, <1>2, <2>1 DEF MetaInv, UpdInv
    <2>2. CASE e # d
      <3>1. idom'[0] = d + 1
        BY <1>1
      <3> QED
        BY <1>1, <1>2, <2>2, <3>1 DEF MetaInv, MasterInv
    <2> QED
      BY <2>1, <2>2
  <1>6. CastInv'
    BY <1>1 DEF MetaInv, CastInv
  <1> QED
    BY <1>3, <1>4, <1>5, <1>6 DEF MetaInv

LEMMA BcastMeta ==
    ASSUME MetaTypes, MetaInv, PhaseInv, BcastMetadata
    PROVE  MetaInv'
  <1> USE DEF MetaTypes, Posting, Unsent, Merged, WorkPC
  <1>1. /\ wpc[0] = "master" /\ idom[0] = NDom + 1 /\ UNCHANGED <<step, desc, upd>>
        /\ wcast' = [w \in Work |-> IF w = 0 THEN wcast[0] ELSE Start(step[0], desc[0])]
        /\ wpc' = [wpc EXCEPT ![0] = "post"] /\ idom' = [idom EXCEPT ![0] = 1]
    BY DEF BcastMetadata
  <1>2. \A w \in Work \ {0} : wpc[w] \in {"master", "updsent"}
    BY <1>1 DEF MetaInv, CastInv, PhaseInv
  <1>3. \A d \in Dom : upd[d] = NoMsg /\ (FirstPE(d) # 0 => ~Unsent(FirstPE(d), d))
    <2>1. \A d \in Dom : ~(idom[0] <= d)
      BY <1>1
    <2> HIDE DEF MetaTypes, Unsent
    <2> QED
      BY <2>1 DEF MetaInv, UpdInv
  <1>4. OwnInv'
    BY <1>1 DEF MetaInv, OwnInv, FirstPE
  <1>5. UpdInv'
    <2>1. \A d \in Dom : FirstPE(d) # 0 => ~Unsent(FirstPE(d), d)'
      BY <1>1, <1>3
    <2> QED
      BY <1>1, <1>3, <2>1 DEF UpdInv, FirstPE
  <1>6. MasterInv'
    BY <1>1 DEF MetaInv, MasterInv, RightAll
  <1>7. CastInv'
    BY <1>1, <1>2 DEF MetaInv, CastInv
  <1> QED
    BY <1>4, <1>5, <1>6, <1>7 DEF MetaInv

LEMMA UnpackMeta ==
    ASSUME MetaTypes, MetaInv, PhaseInv, NEW w \in Work, UnpackMetadata(w)
    PROVE  MetaInv'
  <1> USE DEF MetaTypes, Posting, Unsent, Merged, WorkPC
  <1>1. /\ wpc[w] = "master" /\ idom[w] = NDom + 1 /\ w # 0 /\ wcast[w] # NoMsg
        /\ UNCHANGED <<step, upd>>
        /\ desc' = [desc EXCEPT ![w] = wcast[w].desc]
        /\ wcast' = [wcast EXCEPT ![w] = NoMsg]
        /\ wpc' = [wpc EXCEPT ![w] = "post"] /\ idom' = [idom EXCEPT ![w] = 1]
    BY DEF UnpackMetadata
  <1>2. wcast[w].desc = desc[0] /\ step[w] = step[0] /\ Merged(0)
    BY <1>1 DEF MetaInv, CastInv, PhaseInv, Start
  <1>3. RightAll(desc[0], step[0])
    BY <1>2 DEF MetaInv, MasterInv
  <1>4. OwnInv'
    <2> SUFFICES ASSUME NEW d \in Dom,
                        wpc'[FirstPE(d)] \in {"wait", "waitbar"} \/ Posting(FirstPE(d))'
                 PROVE  Right(desc'[FirstPE(d)][d], d, step[FirstPE(d)])
      BY <1>1 DEF OwnInv, FirstPE
    <2>1. CASE FirstPE(d) = w
      BY <1>1, <1>2, <1>3, <2>1 DEF RightAll
    <2>2. CASE FirstPE(d) # w
      BY <1>1, <2>2 DEF MetaInv, OwnInv
    <2> QED
      BY <2>1, <2>2
  <1>5. UpdInv'
    <2>1. \A d \in Dom : Unsent(FirstPE(d), d)' => Unsent(FirstPE(d), d)
      BY <1>1
    <2> QED
      BY <1>1, <2>1 DEF MetaInv, UpdInv, FirstPE
  <1>6. MasterInv'
    BY <1>1 DEF MetaInv, MasterInv, RightAll
  <1>7. CastInv'
    BY <1>1, <1>2 DEF MetaInv, CastInv
  <1> QED
    BY <1>4, <1>5, <1>6, <1>7 DEF MetaInv

(* The metadata is fixed while the PEs post.                               *)
LEMMA PostMeta ==
    ASSUME MetaTypes, MetaInv, NEW w \in Work,
           SkipPost(w) \/ LockWindow(w) \/ PostVars(w)
    PROVE  MetaInv'
  <1> USE DEF MetaTypes, Posting, Unsent, Merged, WorkPC
  <1>1. /\ wpc[w] \in {"post", "locked"} /\ wpc'[w] \in {"post", "locked"}
        /\ \A v \in Work \ {w} : wpc'[v] = wpc[v] /\ idom'[v] = idom[v]
        /\ UNCHANGED <<step, desc, upd, wcast>>
    BY DEF SkipPost, LockWindow, PostVars, GotoW, NextPatch, msgVars
  <1>2. OwnInv'
    BY <1>1 DEF MetaInv, OwnInv, FirstPE
  <1>3. UpdInv'
    <2>1. \A d \in Dom : Unsent(FirstPE(d), d)' => Unsent(FirstPE(d), d)
      BY <1>1
    <2> QED
      BY <1>1, <2>1 DEF MetaInv, UpdInv, FirstPE
  <1>4. MasterInv'
    BY <1>1 DEF MetaInv, MasterInv, RightAll
  <1>5. CastInv'
    BY <1>1 DEF MetaInv, CastInv
  <1> QED
    BY <1>2, <1>3, <1>4, <1>5 DEF MetaInv

LEMMA BarrierMeta ==
    ASSUME MetaTypes, MetaInv, WaitBarrier \/ PostBarrier
    PROVE  MetaInv'
  <1> USE DEF MetaTypes, Posting, Unsent, Merged
  <1>1. CASE WaitBarrier
    <2>1. /\ \A w \in Work : wpc[w] = "waitbar" /\ wpc'[w] = "master" /\ idom'[w] = 1
          /\ UNCHANGED <<step, desc, upd, wcast>>
      BY <1>1 DEF WaitBarrier, msgVars
    <2>2. OwnInv'
      BY <2>1 DEF MetaInv, OwnInv, FirstPE
    <2>3. UpdInv'
      BY <2>1 DEF MetaInv, UpdInv, FirstPE
    <2>4. MasterInv'
      BY <2>1 DEF MetaInv, MasterInv
    <2>5. CastInv'
      BY <2>1 DEF MetaInv, CastInv
    <2> QED
      BY <2>2, <2>3, <2>4, <2>5 DEF MetaInv
  <1>2. CASE PostBarrier
    <2>1. /\ \A w \in Work : /\ wpc[w] = "post"
                             /\ wpc'[w] \in {"trigger", "step"}
          /\ UNCHANGED <<idom, step, desc, upd, wcast>>
      BY <1>2 DEF PostBarrier, msgVars
    <2>2. OwnInv'
      BY <2>1 DEF MetaInv, OwnInv, FirstPE
    <2>3. UpdInv'
      BY <2>1 DEF MetaInv, UpdInv, FirstPE
    <2>4. MasterInv'
      BY <2>1 DEF MetaInv, MasterInv, RightAll
    <2>5. CastInv'
      BY <2>1 DEF MetaInv, CastInv
    <2> QED
      BY <2>2, <2>3, <2>4, <2>5 DEF MetaInv
  <1> QED
    BY <1>1, <1>2

(* The other actions move PEs outside of these stages.                     *)
Idle == {"waitbar", "trigsent", "step", "lastwait", "lastbar", "shutdown",
         "shutsent", "free", "stopped"}

LEMMA IdleMeta ==
    ASSUME MetaTypes, MetaInv, UNCHANGED <<idom, step, desc, upd, wcast>>,
           \A w \in Work :
              \/ wpc'[w] = wpc[w]
              \/ wpc[w] = "wait" /\ wpc'[w] = "waitbar"
              \/ wpc[w] = "trigger" /\ wpc'[w] = "trigsent"
              \/ wpc[w] \in Idle \ {"waitbar"} /\ wpc'[w] \in Idle \ {"waitbar"}
    PROVE  MetaInv'
  <1> USE DEF MetaTypes, Posting, Unsent, Merged, Idle
  <1>1. OwnInv'
    BY DEF MetaInv, OwnInv, FirstPE
  <1>2. UpdInv'
    <2>1. \A d \in Dom : Unsent(FirstPE(d), d)' => Unsent(FirstPE(d), d)
      OBVIOUS
    <2> QED
      BY <2>1 DEF MetaInv, UpdInv, FirstPE
  <1>3. MasterInv'
    BY DEF MetaInv, MasterInv, RightAll
  <1>4. CastInv'
    BY DEF MetaInv, CastInv
  <1> QED
    BY <1>1, <1>2, <1>3, <1>4 DEF MetaInv

LEMMA MetaStep == TypeOK /\ LoopTruth /\ PhaseInv /\ MetaInv /\ [Next]_vars => MetaInv'
  <1> SUFFICES ASSUME TypeOK, LoopTruth, PhaseInv, MetaInv, [Next]_vars PROVE MetaInv'
    OBVIOUS
  <1>1. MetaTypes
    BY MetaTypesHold
  <1>2. ASSUME NEW w \in Work, WorkStep(w) PROVE MetaInv'
    <2>1. CASE Destruct(w)
      BY <1>1, <2>1, IdleMeta DEF Destruct, GotoW, msgVars, MetaTypes, Idle
    <2> QED
      BY <1>1, <1>2, <2>1, TimeStepMeta, UpdatePatchMeta, SkipMasterMeta, SendUpdateMeta,
         UnpackMeta, PostMeta DEF WorkStep
  <1>3. ASSUME MasterStep PROVE MetaInv'
    <2>1. CASE RecvDone \/ SendTrigger \/ TriggerSent
      BY <1>1, <2>1, IdleMeta DEF RecvDone, SendTrigger, TriggerSent, GotoW, msgVars,
         MetaTypes, Idle
    <2>2. CASE RecvLastDone \/ SendShutdown \/ ShutdownSent
      BY <1>1, <2>2, IdleMeta DEF RecvLastDone, SendShutdown, ShutdownSent, GotoW, msgVars,
         MetaTypes, Idle
    <2> QED
      BY <1>1, <1>3, <2>1, <2>2, RecvUpdateMeta, BcastMeta DEF MasterStep
  <1>4. ASSUME LastBarrier \/ FreeWindows PROVE MetaInv'
    BY <1>1, <1>4, IdleMeta DEF LastBarrier, FreeWindows, msgVars, Idle
  <1>5. CASE WorkSide
    BY <1>1, <1>2, <1>3, <1>4, <1>5, BarrierMeta DEF WorkSide
  <1>6. CASE RestSide \/ UNCHANGED vars
    <2>1. UNCHANGED <<wpc, idom, step, desc, upd, wcast>>
      BY <1>6, RestSideFrame DEF vars, workVars, msgVars
    <2> QED
      BY <1>1, <2>1, IdleMeta
  <1> QED
    BY <1>4, <1>5, <1>6, Sides

LEMMA MetaAgrees == MetaInv /\ PhaseInv /\ 0 \in Work => MetadataAgreed
  <1> SUFFICES ASSUME MetaInv, PhaseInv, 0 \in Work, NEW w \in Work, Merged(w), NEW d \in Dom
               PROVE  /\ desc[w][d].active = ActiveAfter(d, step[w])
                      /\ desc[w][d] = desc[0][d]
    BY DEF MetadataAgreed, Merged
  <1>1. Merged(0) /\ desc[w] = desc[0] /\ step[w] = step[0]
    BY DEF MetaInv, CastInv, PhaseInv, Posting, Merged
  <1> QED
    BY <1>1 DEF MetaInv, MasterInv, RightAll, Right

-----------------------------------------------------------------------------
(* The windows and the request.                                            *)

RestTypes ==
    /\ 0 \in Rest /\ rpc \in [Rest -> RestPC] /\ rstep \in [Rest -> Nat]
    /\ rdesc \in [Rest -> Descriptions]
    /\ toRest \in Message /\ rcast \in [Rest -> Message]
    /\ win \in [Work -> [Dom -> Steps]]

LEMMA RestTypesHold == TypeOK => RestTypes
  <1>1. TypeOK => rstep \in [Rest -> Nat]
    BY DEF TypeOK, Steps
  <1> QED
    BY <1>1, FirstIndex DEF TypeOK, RestTypes

(* What PE 0 of the servers does alone is seen in ServerStep.              *)
LEMMA RestStepZero ==
    ASSUME RestTypes, NEW r \in Rest, RestStep(r)
    PROVE  /\ UNCHANGED <<toWork, toRest>> /\ rstep'[0] = rstep[0] /\ rdesc'[0] = rdesc[0]
           /\ Serving(0)' <=> Serving(0)
  <1> USE DEF RestTypes, Serving, RestPC, GotoR, msgVars
  <1>1. CASE UnpackTrigger(r)
    BY <1>1 DEF UnpackTrigger, Obey
  <1>2. CASE LockAll(r) \/ UnlockPassing(r) \/ BeginWrite(r)
    BY <1>2 DEF LockAll, UnlockPassing, BeginWrite
  <1>3. CASE SkipFile(r) \/ OpenFile(r) \/ (\E w \in Work : GetPart(r, w))
    BY <1>3 DEF SkipFile, OpenFile, GetPart
  <1>4. CASE CloseFile(r) \/ UnlockAll(r)
    BY <1>4 DEF CloseFile, UnlockAll
  <1> QED
    BY <1>1, <1>2, <1>3, <1>4 DEF RestStep

LEMMA SendDoneZero ==
    ASSUME RestTypes, SendDone \/ DoneSent
    PROVE  /\ toRest' = toRest /\ UNCHANGED <<rstep, rdesc, rcast>>
           /\ ~Serving(0) /\ ~Serving(0)' /\ rpc[0] \in {"done", "donesent"}
           /\ rpc'[0] \in {"donesent", "recv"} /\ \A r \in Rest \ {0} : rpc'[r] = rpc[r]
  BY DEF RestTypes, SendDone, DoneSent, GotoR, Serving, msgVars

(* Receiving a request: the servers take it over as it is.                 *)
LEMMA RecvTriggerZero ==
    ASSUME RestTypes, BatonInv, RecvTrigger
    PROVE  /\ rpc[0] = "recv" /\ toRest' = NoMsg /\ toRest # NoMsg
           /\ \A r \in Rest \ {0} : /\ rpc[r] = "recv" /\ rpc'[r] = "recv"
                                    /\ rcast'[r] = toRest
           /\ rcast'[0] = rcast[0] /\ UNCHANGED <<got, file>>
           /\ toRest.cmd = "start" => /\ rpc'[0] = "sync" /\ rstep'[0] = toRest.step
                                      /\ rdesc'[0] = toRest.desc
           /\ toRest.cmd # "start" => rpc'[0] = "free" /\ UNCHANGED <<rstep, rdesc>>
  <1>1. \A r \in Rest \ {0} : rpc[r] = "recv"
    BY DEF RecvTrigger, BatonInv, RestTogether, Serving, Left, RestTypes, RestPC
  <1> QED
    BY <1>1 DEF RecvTrigger, Obey, RestTypes

LEMMA InitAsk == Init => WinInv /\ AskInv /\ RestInv
  <1> SUFFICES ASSUME Init PROVE WinInv /\ AskInv /\ RestInv
    OBVIOUS
  <1>1. NoMsg.cmd = "none" /\ CkptSteps \subseteq Nat \ {0}
    BY SizesAssumption DEF NoMsg
  <1> QED
    BY <1>1, FirstIndex DEF Init, WinInv, AskInv, RestInv, Merged, Serving, Requested,
       PreTrigger, Waiting, Posting

(* Actions that fill no window and change nobody's claim on them.          *)
LEMMA WinKept ==
    ASSUME MetaTypes, RestTypes, WinInv, win' = win,
           \A w \in Work : Merged(w)' =>
               idom'[w] = 1 \/ (Merged(w) /\ idom'[w] = idom[w] /\ step'[w] = step[w]),
           wpc'[0] = "trigger" => wpc[0] = "trigger" /\ step'[0] = step[0],
           toRest'.cmd = "start" => toRest' = toRest,
           Serving(0)' => Serving(0) /\ rstep'[0] = rstep[0]
    PROVE  WinInv'
  <1> USE DEF MetaTypes, RestTypes
  <1>1. ASSUME NEW w \in Work, NEW d \in Dom, Merged(w)', d < idom'[w], ActiveAfter(d, step'[w])
        PROVE  win'[w][d] = step'[w]
    <2>1. idom'[w] # 1
      BY <1>1
    <2> QED
      BY <1>1, <2>1 DEF WinInv
  <1>2. wpc'[0] = "trigger" => Filled(step[0])'
    BY DEF WinInv, Filled
  <1>3. ASSUME toRest'.cmd = "start" PROVE Filled(toRest.step)'
    <2>1. toRest' = toRest /\ toRest.cmd = "start"
      BY <1>3
    <2>2. Filled(toRest.step)
      BY <2>1 DEF WinInv
    <2> HIDE DEF MetaTypes, RestTypes
    <2> QED
      BY <2>1, <2>2 DEF Filled
  <1>4. Serving(0)' => Filled(rstep[0])'
    BY DEF WinInv, Filled
  <1> QED
    BY <1>1, <1>2, <1>3, <1>4 DEF WinInv

(* Nobody waits for a window while a work PE posts into it.                *)
LEMMA PostersHaveBaton ==
    ASSUME BatonInv, NEW w \in Work, Merged(w)
    PROVE  toRest = NoMsg /\ ~Serving(0) /\ wpc[0] # "trigger"
  BY DEF BatonInv, Baton, WorkTogether, Merged, WorkHas, RestHas, Serving

LEMMA SkipPostWin ==
    ASSUME MetaTypes, RestTypes, BatonInv, PhaseInv, MetaInv, WinInv,
           NEW w \in Work, SkipPost(w)
    PROVE  WinInv'
  <1> USE DEF MetaTypes
  <1>1. /\ wpc[w] = "post" /\ idom[w] \in Dom /\ ~desc[w][idom[w]].active
        /\ idom' = [idom EXCEPT ![w] = idom[w] + 1]
        /\ UNCHANGED <<wpc, step, win, restVars, msgVars>>
    BY DEF SkipPost, NextPatch
  <1>2. ~ActiveAfter(idom[w], step[w])
    BY <1>1, MetaAgrees DEF MetadataAgreed
  <1>3. ASSUME NEW v \in Work, NEW d \in Dom, Merged(v), d < idom'[v], ActiveAfter(d, step[v])
        PROVE  win[v][d] = step[v]
    <2>1. CASE v = w
      <3>1. d # idom[w]
        BY <1>2, <1>3, <2>1
      <3>2. d < idom[w]
        BY <1>1, <1>3, <2>1, <3>1
      <3> QED
        BY <1>3, <2>1, <3>2 DEF WinInv
    <2>2. CASE v # w
      BY <1>1, <1>3, <2>2 DEF WinInv
    <2> QED
      BY <2>1, <2>2
  <1>4. toRest = NoMsg /\ ~Serving(0) /\ wpc[0] # "trigger" /\ NoMsg.cmd # "start"
    BY <1>1, PostersHaveBaton DEF Merged, NoMsg
  <1> QED
    BY <1>1, <1>3, <1>4 DEF WinInv, Merged, Serving, restVars, msgVars

LEMMA PostVarsWin ==
    ASSUME MetaTypes, RestTypes, BatonInv, WinInv, NEW w \in Work, idom[w] \in Dom, PostVars(w)
    PROVE  WinInv'
  <1> USE DEF MetaTypes, RestTypes
  <1>1. /\ wpc[w] = "locked" /\ wpc' = [wpc EXCEPT ![w] = "post"]
        /\ idom' = [idom EXCEPT ![w] = idom[w] + 1]
        /\ win' = [win EXCEPT ![w][idom[w]] = step[w]]
        /\ UNCHANGED <<step, restVars, msgVars>>
    BY DEF PostVars, NextPatch, GotoW
  <1>2. ASSUME NEW v \in Work, NEW d \in Dom, Merged(v)', d < idom'[v], ActiveAfter(d, step[v])
        PROVE  win'[v][d] = step[v]
    <2>1. CASE v = w /\ d = idom[w]
      BY <1>1, <2>1
    <2>2. CASE v = w /\ d # idom[w]
      <3>1. d < idom[w] /\ win'[v][d] = win[v][d]
        BY <1>1, <1>2, <2>2
      <3> QED
        BY <1>1, <1>2, <2>2, <3>1 DEF WinInv, Merged
    <2>3. CASE v # w
      BY <1>1, <1>2, <2>3 DEF WinInv, Merged
    <2> QED
      BY <2>1, <2>2, <2>3
  <1>3. toRest = NoMsg /\ ~Serving(0) /\ wpc[0] # "trigger" /\ NoMsg.cmd # "start"
    BY <1>1, PostersHaveBaton DEF Merged, NoMsg
  <1> QED
    BY <1>1, <1>2, <1>3 DEF WinInv, Serving, restVars, msgVars

LEMMA PostBarrierWin ==
    ASSUME MetaTypes, RestTypes, BatonInv, PhaseInv, WinInv, PostBarrier
    PROVE  WinInv'
  <1> USE DEF MetaTypes
  <1>1. /\ \A w \in Work : wpc[w] = "post" /\ idom[w] = NDom + 1 /\ ~Merged(w)'
        /\ UNCHANGED <<idom, step, win, restVars, msgVars>>
    BY DEF PostBarrier, Merged
  <1>2. \A w \in Work : step[w] = step[0]
    BY <1>1 DEF PhaseInv, Posting
  <1>3. ASSUME NEW w \in Work, NEW d \in Dom, ActiveAfter(d, step[0])
        PROVE  win[w][d] = step[0]
    <2>1. Merged(w) /\ d < idom[w] /\ step[w] = step[0]
      BY <1>1, <1>2 DEF Merged
    <2> QED
      BY <1>3, <2>1 DEF WinInv
  <1>4. Filled(step[0])
    BY <1>3 DEF Filled
  <1>5. toRest = NoMsg /\ ~Serving(0) /\ NoMsg.cmd # "start"
    BY <1>1, PostersHaveBaton DEF Merged, NoMsg
  <1> QED
    BY <1>1, <1>4, <1>5 DEF WinInv, Filled, Serving, restVars, msgVars

LEMMA SendTriggerWin ==
    ASSUME MetaTypes, RestTypes, WinInv, SendTrigger
    PROVE  WinInv'
  <1>1. /\ wpc[0] = "trigger" /\ wpc' = [wpc EXCEPT ![0] = "trigsent"]
        /\ toRest' = Start(step[0], desc[0]) /\ UNCHANGED <<idom, step, win, restVars>>
    BY DEF SendTrigger, GotoW
  <1>2. toRest'.cmd = "start" /\ toRest'.step = step[0]
    BY <1>1 DEF Start
  <1>3. Filled(step[0])
    BY <1>1 DEF WinInv
  <1> QED
    BY <1>1, <1>2, <1>3 DEF WinInv, Filled, Serving, Merged, MetaTypes, restVars

LEMMA WorkSideWin ==
    ASSUME TypeOK, LoopInv, BatonInv, PhaseInv, MetaInv, WinInv, WorkSide
    PROVE  WinInv'
  <1>1. MetaTypes /\ RestTypes
    BY MetaTypesHold, RestTypesHold
  <1>2. UNCHANGED <<rpc, rstep, rcast>>
    BY WorkSideFrame DEF restVars
  <1>3. ASSUME NEW w \in Work, WorkStep(w) PROVE WinInv'
    <2> USE <1>1, <1>2, WinKept DEF MetaTypes, Merged, Serving, GotoW, msgVars
    <2>1. CASE TimeStep(w)
      BY <2>1 DEF TimeStep
    <2>2. CASE UpdatePatch(w)
      BY <2>2 DEF UpdatePatch
    <2>3. CASE SkipMaster(w)
      BY <2>3 DEF SkipMaster, NextPatch
    <2>4. CASE SendUpdate(w) \/ UpdateSent(w)
      BY <2>4 DEF SendUpdate, UpdateSent, NextPatch
    <2>5. CASE UnpackMetadata(w)
      BY <2>5 DEF UnpackMetadata
    <2>6. CASE SkipPost(w)
      BY <2>6, SkipPostWin
    <2>7. CASE LockWindow(w)
      BY <2>7 DEF LockWindow
    <2>8. CASE PostVars(w)
      BY <2>8, PostVarsWin DEF PostVars, LoopInv
    <2>9. CASE Destruct(w)
      BY <2>9 DEF Destruct
    <2> QED
      BY <1>3, <2>1, <2>2, <2>3, <2>4, <2>5, <2>6, <2>7, <2>8, <2>9 DEF WorkStep
  <1>4. CASE MasterStep
    <2> USE <1>1, <1>2, WinKept DEF MetaTypes, Merged, Serving, GotoW, msgVars
    <2>1. CASE RecvDone \/ RecvUpdate \/ BcastMetadata
      BY <2>1 DEF RecvDone, RecvUpdate, BcastMetadata, NextPatch
    <2>2. CASE SendTrigger
      BY <2>2, SendTriggerWin
    <2>3. CASE TriggerSent \/ RecvLastDone \/ ShutdownSent
      BY <2>3 DEF TriggerSent, RecvLastDone, ShutdownSent
    <2>4. CASE SendShutdown
      BY <2>4 DEF SendShutdown, Shutdown
    <2> QED
      BY <1>4, <2>1, <2>2, <2>3, <2>4 DEF MasterStep
  <1>5. CASE WaitBarrier \/ LastBarrier
    BY <1>1, <1>2, <1>5, WinKept DEF WaitBarrier, LastBarrier, MetaTypes, Merged, Serving, msgVars
  <1>6. CASE PostBarrier
    BY <1>1, <1>6, PostBarrierWin
  <1> QED
    BY <1>3, <1>4, <1>5, <1>6 DEF WorkSide

LEMMA RestSideWin ==
    ASSUME TypeOK, BatonInv, WinInv, RestSide
    PROVE  WinInv'
  <1>1. MetaTypes /\ RestTypes
    BY MetaTypesHold, RestTypesHold
  <1>2. UNCHANGED <<wpc, idom, step, win>>
    BY RestSideFrame DEF workVars
  <1>3. ASSUME toRest'.cmd = "start" => toRest' = toRest,
               Serving(0)' => Serving(0) /\ rstep'[0] = rstep[0]
        PROVE  WinInv'
    BY <1>1, <1>2, <1>3, WinKept DEF Merged
  <1>4. CASE \E r \in Rest : RestStep(r)
    BY <1>1, <1>3, <1>4, RestStepZero
  <1>5. CASE SendDone \/ DoneSent
    BY <1>1, <1>3, <1>5, SendDoneZero
  <1>6. CASE RecvTrigger
    <2>1. NoMsg.cmd # "start"
      BY DEF NoMsg
    <2>2. CASE toRest.cmd = "start"
      BY <1>1, <1>2, <1>6, <2>1, <2>2, RecvTriggerZero DEF WinInv, Filled, Merged
    <2>3. CASE toRest.cmd # "start"
      BY <1>1, <1>3, <1>6, <2>1, <2>3, RecvTriggerZero DEF Serving
    <2> QED
      BY <2>2, <2>3
  <1>7. CASE RestBarrier
    BY <1>1, <1>3, <1>7 DEF RestBarrier, Serving, msgVars, RestTypes
  <1> QED
    BY <1>4, <1>5, <1>6, <1>7 DEF RestSide, ServerStep

LEMMA WinStep ==
    ASSUME TypeOK, LoopInv, BatonInv, PhaseInv, MetaInv, WinInv, [Next]_vars
    PROVE  WinInv'
  <1>1. MetaTypes /\ RestTypes
    BY MetaTypesHold, RestTypesHold
  <1>2. CASE FreeWindows \/ UNCHANGED vars
    <2>1. UNCHANGED <<idom, step, win, toRest, rstep>> /\ (Serving(0)' => Serving(0))
      BY <1>1, <1>2 DEF FreeWindows, vars, workVars, restVars, msgVars, Serving, RestTypes
    <2>2. \A w \in Work : wpc'[w] = wpc[w] \/ wpc'[w] = "stopped"
      BY <1>2 DEF FreeWindows, vars, workVars
    <2> QED
      BY <1>1, <2>1, <2>2, WinKept DEF Merged, MetaTypes
  <1> QED
    BY <1>2, Sides, WorkSideWin, RestSideWin

LEMMA AskKept ==
    ASSUME AskInv, toRest' = toRest, rstep'[0] = rstep[0], step'[0] = step[0],
           PreTrigger' <=> PreTrigger
    PROVE  AskInv'
  <1>1. Requested' = Requested
    BY DEF Requested
  <1>2. toRest.cmd = "start" => RightAll(toRest.desc, toRest.step)'
    BY DEF AskInv, RightAll
  <1> QED
    BY <1>1, <1>2 DEF AskInv

LEMMA TimeStepAsk ==
    ASSUME PhaseTypes, RestTypes, AskInv, NEW w \in Work, TimeStep(w)
    PROVE  AskInv'
  <1> USE DEF PhaseTypes, PreTrigger, Waiting, Posting
  <1>1. /\ wpc[w] = "step" /\ step' = [step EXCEPT ![w] = step[w] + 1]
        /\ wpc' = [wpc EXCEPT ![w] = IF step[w] + 1 \in CkptSteps THEN "update" ELSE "step"]
        /\ UNCHANGED <<rstep, toRest>>
    BY DEF TimeStep, GotoW, restVars, msgVars
  <1>2. CASE w # 0
    BY <1>1, <1>2, AskKept
  <1>3. CASE w = 0
    <2>1. ~PreTrigger /\ step'[0] = step[0] + 1 /\ step[0] \in Nat
          /\ (PreTrigger' <=> step[0] + 1 \in CkptSteps)
      BY <1>1, <1>3 DEF WorkPC
    <2>2. Requested' = Requested /\ Requested \in Nat /\ Requested <= step[0]
      <3>1. toRest.cmd = "start" => toRest.step \in Nat
        BY DEF AskInv
      <3> QED
        BY <1>1, <3>1 DEF Requested, AskInv, RestTypes
    <2>3. ASSUME NEW n \in CkptSteps, n <= step'[0]
          PROVE  n <= Requested \/ (n = step'[0] /\ PreTrigger')
      <3>1. CASE n <= step[0]
        BY <2>1, <3>1 DEF AskInv
      <3>2. CASE ~(n <= step[0])
        BY <2>1, <2>3, <3>2
      <3> QED
        BY <3>1, <3>2
    <2>4. toRest.cmd = "start" => RightAll(toRest.desc, toRest.step)'
      BY <1>1 DEF AskInv, RightAll
    <2> HIDE DEF PreTrigger
    <2>5. rstep'[0] = rstep[0] /\ toRest' = toRest
      BY <1>1
    <2> QED
      BY <2>1, <2>2, <2>3, <2>4, <2>5 DEF AskInv
  <1> QED
    BY <1>2, <1>3

(* PE 0 asks only after the answer to what it asked before.                *)
LEMMA SendTriggerAsk ==
    ASSUME PhaseTypes, MetaTypes, RestTypes, BatonInv, PhaseInv, MetaInv, AskInv, SendTrigger
    PROVE  AskInv'
  <1>1. /\ wpc[0] = "trigger" /\ wpc' = [wpc EXCEPT ![0] = "trigsent"]
        /\ toRest' = Start(step[0], desc[0]) /\ UNCHANGED <<step, rstep>>
    BY DEF SendTrigger, GotoW, restVars
  <1>2. toRest'.cmd = "start" /\ toRest'.step = step[0] /\ toRest'.desc = desc[0]
    BY <1>1 DEF Start
  <1>3. Requested = rstep[0] /\ Requested' = step[0] /\ PreTrigger /\ ~PreTrigger'
    <2>1. toRest = NoMsg
      BY <1>1 DEF BatonInv, Baton, WorkHas
    <2> QED
      BY <1>1, <1>2, <2>1 DEF Requested, NoMsg, PreTrigger, Waiting, Posting, PhaseTypes
  <1>4. step[0] \in CkptSteps /\ RightAll(desc[0], step[0])
    BY <1>1 DEF PhaseTypes, PhaseInv, Triggering, MetaInv, MasterInv
  <1>5. rstep[0] < step[0] /\ rstep[0] \in {0} \cup CkptSteps
    BY <1>3 DEF AskInv
  <1>6. ASSUME NEW n \in CkptSteps, rstep[0] < n PROVE step[0] <= n
    BY <1>3, <1>4, <1>6 DEF AskInv, PhaseTypes, RestTypes
  <1>7. RightAll(toRest.desc, toRest.step)'
    BY <1>1, <1>2, <1>4 DEF RightAll
  <1> QED
    BY <1>1, <1>2, <1>3, <1>4, <1>5, <1>6, <1>7 DEF AskInv, PhaseTypes

LEMMA SendShutdownAsk ==
    ASSUME PhaseTypes, BatonInv, AskInv, SendShutdown
    PROVE  AskInv'
  <1>1. /\ wpc[0] = "shutdown" /\ wpc' = [wpc EXCEPT ![0] = "shutsent"]
        /\ toRest' = Shutdown /\ UNCHANGED <<step, rstep>>
    BY DEF SendShutdown, GotoW, restVars
  <1>2. toRest = NoMsg /\ NoMsg.cmd = "none" /\ Shutdown.cmd = "shutdown"
    BY <1>1 DEF BatonInv, Baton, WorkHas, NoMsg, Shutdown
  <1>3. Requested' = Requested /\ ~PreTrigger /\ ~PreTrigger'
    BY <1>1, <1>2 DEF Requested, PreTrigger, Waiting, Posting, PhaseTypes
  <1> QED
    BY <1>1, <1>2, <1>3 DEF AskInv

LEMMA WorkSideAsk ==
    ASSUME TypeOK, BatonInv, PhaseInv, MetaInv, AskInv, WorkSide
    PROVE  AskInv'
  <1>1. PhaseTypes /\ MetaTypes /\ RestTypes
    BY PhaseTypesHold, MetaTypesHold, RestTypesHold
  <1>2. rstep' = rstep
    BY WorkSideFrame DEF restVars
  <1> USE DEF PreTrigger, Waiting, Posting, PhaseTypes, WorkPC, GotoW, msgVars
  <1>3. ASSUME NEW w \in Work, WorkStep(w) PROVE AskInv'
    <2>1. CASE TimeStep(w)
      BY <1>1, <2>1, TimeStepAsk
    <2>2. CASE UpdatePatch(w) \/ SkipMaster(w) \/ SendUpdate(w) \/ UpdateSent(w)
      BY <1>1, <1>2, <2>2, AskKept DEF UpdatePatch, SkipMaster, SendUpdate, UpdateSent
    <2>3. CASE UnpackMetadata(w) \/ SkipPost(w) \/ LockWindow(w) \/ PostVars(w)
      BY <1>1, <1>2, <2>3, AskKept DEF UnpackMetadata, SkipPost, LockWindow, PostVars
    <2>4. CASE Destruct(w)
      BY <1>1, <1>2, <2>4, AskKept DEF Destruct
    <2> QED
      BY <1>3, <2>1, <2>2, <2>3, <2>4 DEF WorkStep
  <1>4. CASE MasterStep
    <2>1. CASE RecvDone \/ RecvUpdate \/ BcastMetadata
      BY <1>1, <1>2, <2>1, AskKept DEF RecvDone, RecvUpdate, BcastMetadata
    <2>2. CASE TriggerSent \/ RecvLastDone \/ ShutdownSent
      BY <1>1, <1>2, <2>2, AskKept DEF TriggerSent, RecvLastDone, ShutdownSent
    <2> QED
      BY <1>1, <1>4, <2>1, <2>2, SendTriggerAsk, SendShutdownAsk DEF MasterStep
  <1>5. CASE WaitBarrier \/ PostBarrier \/ LastBarrier
    BY <1>1, <1>2, <1>5, AskKept DEF WaitBarrier, PostBarrier, LastBarrier
  <1> QED
    BY <1>3, <1>4, <1>5 DEF WorkSide

LEMMA RestSideAsk ==
    ASSUME TypeOK, BatonInv, AskInv, RestSide
    PROVE  AskInv'
  <1>1. RestTypes /\ UNCHANGED <<wpc, step>>
    BY RestTypesHold, RestSideFrame DEF workVars
  <1>2. PreTrigger' <=> PreTrigger
    BY <1>1 DEF PreTrigger, Waiting, Posting
  <1>3. CASE \E r \in Rest : RestStep(r)
    BY <1>1, <1>2, <1>3, RestStepZero, AskKept
  <1>4. CASE SendDone \/ DoneSent
    BY <1>1, <1>2, <1>4, SendDoneZero, AskKept
  <1>5. CASE RecvTrigger
    <2>1. toRest' = NoMsg /\ NoMsg.cmd = "none"
      BY <1>5 DEF RecvTrigger, NoMsg
    <2>2. Requested' = Requested /\ rstep'[0] \in {0} \cup CkptSteps
      BY <1>1, <1>5, <2>1, RecvTriggerZero DEF Requested, AskInv
    <2> QED
      BY <1>1, <1>2, <2>1, <2>2 DEF AskInv
  <1>6. CASE RestBarrier
    BY <1>1, <1>2, <1>6, AskKept DEF RestBarrier, msgVars
  <1> QED
    BY <1>3, <1>4, <1>5, <1>6 DEF RestSide, ServerStep

LEMMA AskStep ==
    ASSUME TypeOK, BatonInv, PhaseInv, MetaInv, AskInv, [Next]_vars
    PROVE  AskInv'
  <1>1. CASE FreeWindows \/ UNCHANGED vars
    <2>1. UNCHANGED <<step, toRest, rstep>> /\ (PreTrigger' <=> PreTrigger)
      BY <1>1, PhaseTypesHold DEF FreeWindows, vars, workVars, restVars, msgVars, PreTrigger,
         Waiting, Posting, PhaseTypes
    <2> QED
      BY <2>1, AskKept
  <1> QED
    BY <1>1, Sides, WorkSideAsk, RestSideAsk

-----------------------------------------------------------------------------
(* The servers.                                                            *)

LEMMA RestKept ==
    ASSUME RestTypes, RestInv, UNCHANGED <<rstep, rdesc, rcast>>,
           \A r \in Rest : /\ Serving(r)' => Serving(r)
                           /\ rpc[r] = "recv" => rpc'[r] = "recv"
    PROVE  RestInv'
  BY DEF RestInv, RestTypes, RightAll

LEMMA RecvTriggerRest ==
    ASSUME RestTypes, BatonInv, AskInv, RestInv, RecvTrigger
    PROVE  RestInv'
  <1>1. CASE toRest.cmd = "start"
    <2>1. /\ toRest.step \in CkptSteps /\ RightAll(toRest.desc, toRest.step)
          /\ rstep'[0] = toRest.step /\ rdesc'[0] = toRest.desc
      BY <1>1, RecvTriggerZero DEF AskInv
    <2>2. RightAll(rdesc[0], rstep[0])'
      BY <2>1 DEF RightAll
    <2>3. \A r \in Rest \ {0} : rpc'[r] = "recv" /\ rcast'[r] = toRest
      BY RecvTriggerZero
    <2> QED
      BY <2>1, <2>2, <2>3, RecvTriggerZero DEF RestInv, Serving
  <1>2. CASE toRest.cmd # "start"
    BY <1>2, RecvTriggerZero DEF RestInv, Serving
  <1> QED
    BY <1>1, <1>2

LEMMA UnpackTriggerRest ==
    ASSUME RestTypes, RestInv, NEW r \in Rest, UnpackTrigger(r)
    PROVE  RestInv'
  <1> USE DEF RestTypes, Serving, RestPC
  <1>1. /\ r # 0 /\ rpc[r] = "recv" /\ rcast' = [rcast EXCEPT ![r] = NoMsg]
        /\ NoMsg.cmd # "start"
        /\ \/ /\ rcast[r].cmd = "start" /\ rpc' = [rpc EXCEPT ![r] = "sync"]
              /\ rstep' = [rstep EXCEPT ![r] = rcast[r].step]
              /\ rdesc' = [rdesc EXCEPT ![r] = rcast[r].desc]
           \/ rpc' = [rpc EXCEPT ![r] = "free"] /\ UNCHANGED <<rstep, rdesc>>
    BY DEF UnpackTrigger, Obey, NoMsg
  <1>2. rstep'[0] = rstep[0] /\ rdesc'[0] = rdesc[0] /\ rpc'[0] = rpc[0] /\ rcast'[0] = rcast[0]
    BY <1>1
  <1>3. \A q \in Rest \ {0, r} :
            rstep'[q] = rstep[q] /\ rdesc'[q] = rdesc[q] /\ rpc'[q] = rpc[q] /\ rcast'[q] = rcast[q]
    BY <1>1
  <1>4. /\ rcast'[r] = NoMsg
        /\ Serving(r)' => rstep'[r] = rstep[0] /\ rdesc'[r] = rdesc[0]
    BY <1>1 DEF RestInv
  <1> QED
    BY <1>1, <1>2, <1>3, <1>4 DEF RestInv, RightAll

LEMMA RestInvStep ==
    ASSUME TypeOK, BatonInv, AskInv, RestInv, [Next]_vars
    PROVE  RestInv'
  <1>1. RestTypes
    BY RestTypesHold
  <1> USE <1>1 DEF RestTypes, Serving, RestPC, GotoR, msgVars
  <1>2. ASSUME NEW r \in Rest, RestStep(r) PROVE RestInv'
    <2>1. CASE LockAll(r) \/ UnlockPassing(r) \/ BeginWrite(r)
      BY <2>1, RestKept DEF LockAll, UnlockPassing, BeginWrite
    <2>2. CASE SkipFile(r) \/ OpenFile(r) \/ (\E w \in Work : GetPart(r, w))
      BY <2>2, RestKept DEF SkipFile, OpenFile, GetPart
    <2>3. CASE CloseFile(r) \/ UnlockAll(r)
      BY <2>3, RestKept DEF CloseFile, UnlockAll
    <2> QED
      BY <1>2, <2>1, <2>2, <2>3, UnpackTriggerRest DEF RestStep
  <1>3. CASE RestSide
    <2>1. CASE SendDone \/ DoneSent
      BY <2>1, RestKept, SendDoneZero
    <2>2. CASE RestBarrier
      BY <2>2, RestKept DEF RestBarrier
    <2> QED
      BY <1>2, <1>3, <2>1, <2>2, RecvTriggerRest DEF RestSide, ServerStep
  <1>4. CASE FreeWindows
    BY <1>4, RestKept DEF FreeWindows
  <1>5. CASE WorkSide \/ UNCHANGED vars
    BY <1>5, RestKept, WorkSideFrame DEF restVars, vars
  <1> QED
    BY <1>3, <1>4, <1>5, Sides

-----------------------------------------------------------------------------
(* The files.                                                              *)

FileTypes ==
    /\ NDom \in Nat /\ Dom = 1 .. NDom /\ CkptSteps \subseteq Nat \ {0}
    /\ \A d \in Dom : Server(d) \in Rest /\ Owned[d] \subseteq Work
    /\ 0 \in Rest /\ rpc \in [Rest -> RestPC] /\ ridom \in [Rest -> 1 .. NDom + 1]
    /\ rstep \in [Rest -> Nat] /\ rdesc \in [Rest -> Descriptions]
    /\ got \in [Rest -> SUBSET Work] /\ file \in [CkptSteps -> [Dom -> File]]
    /\ win \in [Work -> [Dom -> Steps]]

LEMMA FileTypesHold == TypeOK => FileTypes
  <1>1. NDom \in Nat /\ Dom = 1 .. NDom /\ CkptSteps \subseteq Nat \ {0}
    BY SizesAssumption DEF Dom
  <1>2. ASSUME NEW d \in Dom PROVE Server(d) \in Rest /\ Owned[d] \subseteq Work
    <2>1. d - 1 \in Nat /\ NRest \in Nat \ {0}
      BY <1>1, SizesAssumption
    <2> QED
      BY <2>1, NestAssumption DEF Server, Rest
  <1>3. TypeOK => RestTypes /\ ridom \in [Rest -> 1 .. NDom + 1]
    BY RestTypesHold DEF TypeOK
  <1> QED
    BY <1>1, <1>2, <1>3 DEF TypeOK, RestTypes, FileTypes

LEMMA InitFile == Init => FileInv
  <1> SUFFICES ASSUME Init PROVE FileInv
    OBVIOUS
  <1>1. \A n \in CkptSteps, d \in Dom : file[n][d].state = "absent"
    BY DEF Init, NoFile
  <1>2. rstep[0] = 0 /\ ~Serving(0) /\ CkptSteps \subseteq Nat \ {0}
        /\ \A r \in Rest : rpc[r] # "get"
    BY FirstIndex, SizesAssumption DEF Init, Serving
  <1> QED
    BY <1>1, <1>2 DEF FileInv, SnapshotConsistent

(* Steps that leave the files, and how far their servers are, alone.       *)
LEMMA FileKept ==
    ASSUME FileTypes, FileInv, file' = file, rstep'[0] = rstep[0],
           Serving(0)' <=> Serving(0),
           \A d \in Dom : /\ Fetching(d)' <=> Fetching(d)
                          /\ (Written(d)' <=> Written(d)) \/ ~ActiveAfter(d, rstep[0]),
           \A r \in Rest : rpc'[r] = "get" =>
               rpc[r] = "get" /\ rstep'[r] = rstep[r] /\ ridom'[r] = ridom[r] /\ got'[r] = got[r]
    PROVE  FileInv'
  <1>1. SnapshotConsistent'
    BY DEF FileInv, SnapshotConsistent, Snapshot
  <1>2. \A n : Complete(n)' <=> Complete(n)
    BY DEF Complete
  <1>3. \A d \in Dom : Progress(d)' = Progress(d)
    BY DEF Progress
  <1>4. \A r \in Rest : rpc'[r] = "get" => Fetched(r)'
    BY DEF FileInv, Fetched, RightAll
  <1> QED
    BY <1>1, <1>2, <1>3, <1>4 DEF FileInv

(* The servers of a request know its step and the domains active then.     *)
LEMMA ServersAgree ==
    ASSUME RestTypes, BatonInv, RestInv, WinInv, NEW r \in Rest, Serving(r)
    PROVE  /\ Serving(0) /\ rstep[r] = rstep[0] /\ rdesc[r] = rdesc[0]
           /\ rstep[r] \in CkptSteps /\ RightAll(rdesc[r], rstep[r]) /\ Filled(rstep[r])
  <1>1. Serving(0) /\ rstep[r] = rstep[0] /\ rdesc[r] = rdesc[0]
    BY DEF BatonInv, RestTogether, RestInv
  <1> QED
    BY <1>1 DEF RestInv, WinInv

LEMMA SyncFile ==
    ASSUME FileTypes, FileInv, NEW r \in Rest,
           LockAll(r) \/ UnlockPassing(r) \/ BeginWrite(r)
    PROVE  FileInv'
  <1> USE DEF FileTypes, RestPC
  <1>1. /\ rpc[r] \in {"sync", "passing"}
        /\ rpc'[r] \in {"sync", "passing"} \/ (rpc'[r] = "write" /\ ridom'[r] = 1)
        /\ \A q \in Rest \ {r} : rpc'[q] = rpc[q] /\ ridom'[q] = ridom[q]
        /\ UNCHANGED <<file, rstep, got>>
    BY DEF LockAll, UnlockPassing, BeginWrite, GotoR, NextFile
  <1>2. \A d \in Dom : /\ Fetching(d)' <=> Fetching(d)
                       /\ Written(d)' <=> Written(d)
    BY <1>1 DEF Fetching, Written
  <1>3. Serving(0)' <=> Serving(0)
    BY <1>1 DEF Serving
  <1>4. \A q \in Rest : rpc'[q] # "get" \/ (rpc'[q] = rpc[q] /\ ridom'[q] = ridom[q])
    BY <1>1
  <1> QED
    BY <1>1, <1>2, <1>3, <1>4, FileKept

LEMMA SkipFileFile ==
    ASSUME FileTypes, RestTypes, BatonInv, RestInv, WinInv, FileInv, NEW r \in Rest, SkipFile(r)
    PROVE  FileInv'
  <1> USE DEF FileTypes, RestPC
  <1> DEFINE e == ridom[r]
  <1>1. /\ rpc[r] = "write" /\ e \in Dom /\ (~rdesc[r][e].active \/ r # Server(e))
        /\ ridom' = [ridom EXCEPT ![r] = e + 1]
        /\ UNCHANGED <<rpc, file, rstep, got>>
    BY DEF SkipFile, NextFile
  <1>2. r = Server(e) => ~ActiveAfter(e, rstep[0])
    BY <1>1, ServersAgree DEF Serving, RightAll, Right
  <1>3. \A d \in Dom : Fetching(d)' <=> Fetching(d)
    BY <1>1 DEF Fetching
  <1>4. ASSUME NEW d \in Dom PROVE (Written(d)' <=> Written(d)) \/ ~ActiveAfter(d, rstep[0])
    <2>1. CASE r # Server(d)
      BY <1>1, <2>1 DEF Written
    <2>2. CASE r = Server(d) /\ d # e
      <3>1. (d < e + 1) <=> (d < e)
        BY <1>1, <2>2
      <3> QED
        BY <1>1, <2>2, <3>1 DEF Written
    <2>3. CASE r = Server(d) /\ d = e
      BY <1>2, <2>3
    <2> QED
      BY <2>1, <2>2, <2>3
  <1>5. \A q \in Rest : rpc'[q] = "get" => rpc[q] = "get" /\ ridom'[q] = ridom[q]
    BY <1>1
  <1>6. Serving(0)' <=> Serving(0)
    BY <1>1 DEF Serving
  <1> QED
    BY <1>1, <1>3, <1>4, <1>5, <1>6, FileKept

(* A server changes one file, of the checkpoint being served.              *)
LEMMA FileChanged ==
    ASSUME FileTypes, FileInv, Serving(0), rstep[0] \in CkptSteps, NEW d \in Dom,
           Serving(0)', rstep' = rstep,
           \A n \in CkptSteps, e \in Dom :
               n # rstep[0] \/ e # d => file'[n][e] = file[n][e],
           \A e \in Dom \ {d} : (Fetching(e)' <=> Fetching(e)) /\ (Written(e)' <=> Written(e)),
           file'[rstep[0]][d].state = Progress(d)',
           file'[rstep[0]][d].state = "closed" => Snapshot(rstep[0], file'[rstep[0]][d], d),
           \A r \in Rest : rpc'[r] = "get" => Fetched(r)'
    PROVE  FileInv'
  <1>1. SnapshotConsistent'
    <2> SUFFICES ASSUME NEW n \in CkptSteps, NEW e \in Dom, file'[n][e].state = "closed"
                 PROVE  Snapshot(n, file'[n][e], e)
      BY DEF SnapshotConsistent, Snapshot
    <2>1. CASE n = rstep[0] /\ e = d
      BY <2>1
    <2>2. CASE ~(n = rstep[0] /\ e = d)
      BY <2>2 DEF FileInv, SnapshotConsistent
    <2> QED
      BY <2>1, <2>2
  <1>2. ASSUME NEW n \in CkptSteps, n < rstep'[0] \/ (n = rstep'[0] /\ ~Serving(0)')
        PROVE  Complete(n)'
    <2>1. n < rstep[0] /\ n # rstep[0]
      BY <1>2 DEF FileTypes
    <2> QED
      BY <2>1 DEF FileInv, Complete
  <1>3. ASSUME NEW n \in CkptSteps, NEW e \in Dom, rstep'[0] < n
        PROVE  file'[n][e].state = "absent"
    <2>1. rstep[0] < n /\ n # rstep[0]
      BY <1>3 DEF FileTypes
    <2> QED
      BY <2>1 DEF FileInv
  <1>4. \A e \in Dom : file'[rstep'[0]][e].state = Progress(e)'
    <2> TAKE e \in Dom
    <2>1. CASE e # d
      BY <2>1 DEF FileInv, Progress
    <2> QED
      BY <2>1
  <1> QED
    BY <1>1, <1>2, <1>3, <1>4 DEF FileInv

LEMMA OpenFileFile ==
    ASSUME FileTypes, RestTypes, LoopInv, BatonInv, RestInv, WinInv, FileInv,
           NEW r \in Rest, OpenFile(r)
    PROVE  FileInv'
  <1> DEFINE d == ridom[r]
             n == rstep[r]
             new == [state |-> "open", attr |-> rdesc[r], part |-> [w \in Work |-> 0]]
  <1>1. /\ rpc[r] = "write" /\ rpc' = [rpc EXCEPT ![r] = "get"]
        /\ d \in Dom /\ r = Server(d) /\ rdesc[r][d].active
        /\ file' = [file EXCEPT ![n][d] = new] /\ got' = [got EXCEPT ![r] = {}]
        /\ UNCHANGED <<ridom, rstep>>
    BY DEF OpenFile, GotoR, FileTypes
  <1>2. /\ Serving(0) /\ n = rstep[0] /\ n \in CkptSteps /\ RightAll(rdesc[r], n)
        /\ ActiveAfter(d, n)
    BY <1>1, ServersAgree DEF Serving, RightAll, Right
  <1>3. \A m \in CkptSteps, e \in Dom : file'[m][e] = IF m = n /\ e = d THEN new ELSE file[m][e]
    BY <1>1, <1>2 DEF FileTypes
  <1>4. \A q \in Rest \ {r} : rpc'[q] = rpc[q] /\ got'[q] = got[q]
    BY <1>1 DEF FileTypes
  <1>5. rpc'[r] = "get" /\ got'[r] = {}
    BY <1>1 DEF FileTypes
  <1> HIDE DEF new
  <1>6. \A e \in Dom \ {d} : (Fetching(e)' <=> Fetching(e)) /\ (Written(e)' <=> Written(e))
    BY <1>1, <1>4, <1>5 DEF Fetching, Written, FileTypes
  <1>7. new.state = "open" /\ new.attr = rdesc[r]
    BY DEF new
  <1>8. Progress(d)' = "open"
    BY <1>1, <1>5 DEF Progress, Fetching
  <1>9. Serving(0)'
    BY <1>2, <1>4, <1>5 DEF Serving, FileTypes
  <1>10. ASSUME NEW q \in Rest, rpc'[q] = "get" PROVE Fetched(q)'
    <2>1. CASE q = r
      BY <1>1, <1>2, <1>3, <1>5, <1>7, <2>1 DEF Fetched, RightAll
    <2>2. CASE q # r
      <3>1. Fetched(q) /\ rpc[q] = "get" /\ rstep[q] = n
        BY <1>2, <1>4, <1>10, <2>2, ServersAgree DEF FileInv, Serving
      <3>2. ridom[q] \in Dom /\ ridom[q] # d
        BY <1>1, <2>2, <3>1 DEF LoopInv
      <3>3. file'[n][ridom[q]] = file[n][ridom[q]] /\ got'[q] = got[q]
        BY <1>2, <1>3, <1>4, <2>2, <3>2
      <3> QED
        BY <1>1, <3>1, <3>3 DEF Fetched, RightAll
    <2> QED
      BY <2>1, <2>2
  <1> QED
    BY <1>1, <1>2, <1>3, <1>6, <1>7, <1>8, <1>9, <1>10, FileChanged

(* The files of the other servers stay as they are.                        *)
LEMMA OthersFetched ==
    ASSUME FileTypes, RestTypes, LoopInv, BatonInv, RestInv, WinInv, FileInv,
           NEW r \in Rest, Serving(r), ridom[r] \in Dom, r = Server(ridom[r]), rstep' = rstep,
           \A n \in CkptSteps, e \in Dom :
               n # rstep[r] \/ e # ridom[r] => file'[n][e] = file[n][e],
           NEW q \in Rest \ {r}, rpc[q] = "get", ridom'[q] = ridom[q], got'[q] = got[q]
    PROVE  Fetched(q)'
  <1>1. Fetched(q)
    BY DEF FileInv
  <1>2. rstep[q] = rstep[r] /\ rstep[q] \in CkptSteps
    <2>1. Serving(q)
      BY DEF Serving
    <2> QED
      BY <2>1, ServersAgree
  <1>3. ridom[q] \in Dom /\ ridom[q] # ridom[r]
    BY DEF LoopInv
  <1>4. file'[rstep[q]][ridom[q]] = file[rstep[q]][ridom[q]]
    BY <1>2, <1>3
  <1> QED
    BY <1>1, <1>4 DEF Fetched, RightAll

LEMMA GetPartFile ==
    ASSUME FileTypes, RestTypes, LoopInv, BatonInv, RestInv, WinInv, FileInv,
           NEW r \in Rest, NEW w \in Work, GetPart(r, w)
    PROVE  FileInv'
  <1>0. ridom[r] \in Dom /\ r = Server(ridom[r]) /\ Serving(r)
    BY DEF GetPart, LoopInv, Serving
  <1>d. PICK d \in Dom : d = ridom[r]
    BY <1>0
  <1>n. PICK n \in CkptSteps : n = rstep[r]
    BY <1>0, ServersAgree
  <1> DEFINE f == file[n][d]
             g == file'[n][d]
  <1>1. /\ rpc[r] = "get" /\ w \in Owned[d] \ got[r] /\ d = ridom[r] /\ n = rstep[r]
        /\ file' = [file EXCEPT ![n][d].part[w] = win[w][d]]
        /\ got' = [got EXCEPT ![r] = @ \cup {w}]
        /\ UNCHANGED <<rpc, ridom, rstep>>
    BY <1>d, <1>n DEF GetPart
  <1>2. d \in Dom /\ r = Server(d) /\ Serving(r)
    BY <1>0, <1>1
  <1>3. /\ Serving(0) /\ n = rstep[0] /\ Filled(n) /\ Fetched(r)
    BY <1>1, <1>2, ServersAgree DEF FileInv
  <1>4. Fetching(d) /\ f.state = "open"
    BY <1>1, <1>2, <1>3 DEF FileInv, Progress, Fetching
  <1>5. f \in [state : {"open", "closed"}, attr : Descriptions, part : [Work -> Steps]]
    BY <1>2, <1>3, <1>4 DEF FileTypes, File, NoFile
  <1>6. /\ \A m \in CkptSteps, e \in Dom : m # n \/ e # d => file'[m][e] = file[m][e]
        /\ g = [f EXCEPT !.part[w] = win[w][d]]
    BY <1>1, <1>2, <1>3 DEF FileTypes
  <1>7. /\ g.state = "open" /\ g.attr = f.attr /\ g.part[w] = win[w][d]
        /\ \A v \in Work \ {w} : g.part[v] = f.part[v]
    BY <1>4, <1>5, <1>6
  <1>8. win[w][d] = n
    BY <1>1, <1>2, <1>3 DEF Filled, Fetched
  <1>9. Fetched(r)'
    <2>1. ActiveAfter(d, n) /\ RightAll(f.attr, n)
      BY <1>1, <1>3 DEF Fetched
    <2>2. got'[r] = got[r] \cup {w} /\ got[r] \subseteq Work
      BY <1>1 DEF FileTypes
    <2>3. \A v \in got[r] : f.part[v] = n
      BY <1>1, <1>3 DEF Fetched
    <2>4. ASSUME NEW v \in got'[r] PROVE g.part[v] = n
      <3>1. CASE v = w
        BY <3>1, <1>7, <1>8
      <3>2. CASE v # w
        BY <3>2, <1>7, <2>2, <2>3
      <3> QED
        BY <3>1, <3>2
    <2> QED
      BY <1>1, <1>7, <2>1, <2>4 DEF Fetched, RightAll
  <1>10. \A q \in Rest \ {r} : got'[q] = got[q]
    BY <1>1 DEF FileTypes
  <1>11. ASSUME NEW q \in Rest, rpc'[q] = "get" PROVE Fetched(q)'
    <2>1. CASE q = r
      BY <1>9, <2>1
    <2>2. CASE q # r
      <3>1. rpc[q] = "get" /\ ridom'[q] = ridom[q] /\ got'[q] = got[q] /\ rstep' = rstep
        BY <1>1, <1>10, <1>11, <2>2
      <3>2. \A m \in CkptSteps, e \in Dom :
                m # rstep[r] \/ e # ridom[r] => file'[m][e] = file[m][e]
        BY <1>1, <1>6
      <3> QED
        BY <1>0, <2>2, <3>1, <3>2, OthersFetched
    <2> QED
      BY <2>1, <2>2
  <1>12. /\ Serving(0)' /\ Progress(d)' = "open"
         /\ \A e \in Dom : (Fetching(e)' <=> Fetching(e)) /\ (Written(e)' <=> Written(e))
    BY <1>1, <1>3, <1>4 DEF Serving, Fetching, Written, Progress
  <1>13. /\ rstep[0] \in CkptSteps
         /\ \A m \in CkptSteps, e \in Dom : m # rstep[0] \/ e # d => file'[m][e] = file[m][e]
         /\ file'[rstep[0]][d].state = "open"
    BY <1>3, <1>6, <1>7
  <1>14. rstep' = rstep
    BY <1>1
  <1> HIDE DEF f, g
  <1> QED
    BY <1>2, <1>3, <1>11, <1>12, <1>13, <1>14, FileChanged

LEMMA CloseFileFile ==
    ASSUME FileTypes, RestTypes, LoopInv, BatonInv, RestInv, WinInv, FileInv,
           NEW r \in Rest, CloseFile(r)
    PROVE  FileInv'
  <1>0. ridom[r] \in Dom /\ r = Server(ridom[r]) /\ Serving(r)
    BY DEF CloseFile, GotoR, LoopInv, Serving
  <1>d. PICK d \in Dom : d = ridom[r]
    BY <1>0
  <1>n. PICK n \in CkptSteps : n = rstep[r]
    BY <1>0, ServersAgree
  <1> DEFINE f == file[n][d]
             g == file'[n][d]
  <1>1. /\ rpc[r] = "get" /\ rpc' = [rpc EXCEPT ![r] = "write"] /\ got[r] = Owned[d]
        /\ d = ridom[r] /\ n = rstep[r]
        /\ file' = [file EXCEPT ![n][d].state = "closed"]
        /\ ridom' = [ridom EXCEPT ![r] = d + 1]
        /\ UNCHANGED <<rstep, got>>
    BY <1>d, <1>n DEF CloseFile, GotoR, NextFile
  <1>2. d \in Dom /\ r = Server(d) /\ Serving(r)
    BY <1>0, <1>1
  <1>3. /\ Serving(0) /\ n = rstep[0] /\ Fetched(r)
    BY <1>1, <1>2, ServersAgree DEF FileInv
  <1>4. f.state = "open"
    BY <1>1, <1>2, <1>3 DEF FileInv, Progress, Fetching
  <1>5. f \in [state : {"open", "closed"}, attr : Descriptions, part : [Work -> Steps]]
    BY <1>2, <1>3, <1>4 DEF FileTypes, File, NoFile
  <1>6. /\ \A m \in CkptSteps, e \in Dom : m # n \/ e # d => file'[m][e] = file[m][e]
        /\ g = [f EXCEPT !.state = "closed"]
    BY <1>1, <1>2, <1>3 DEF FileTypes
  <1>7. g.state = "closed" /\ g.attr = f.attr /\ g.part = f.part
    BY <1>5, <1>6
  <1>8. Snapshot(n, g, d)
    BY <1>1, <1>3, <1>7 DEF Fetched, Snapshot, RightAll, Right
  <1>9. /\ \A q \in Rest \ {r} : rpc'[q] = rpc[q] /\ ridom'[q] = ridom[q] /\ got'[q] = got[q]
        /\ rpc'[r] = "write" /\ ridom'[r] = d + 1
    BY <1>1 DEF FileTypes
  <1>10. ASSUME NEW q \in Rest, rpc'[q] = "get" PROVE Fetched(q)'
    <2>1. /\ q \in Rest \ {r} /\ rpc[q] = "get" /\ ridom'[q] = ridom[q] /\ got'[q] = got[q]
          /\ rstep' = rstep
      BY <1>1, <1>9, <1>10
    <2>2. \A m \in CkptSteps, e \in Dom :
              m # rstep[r] \/ e # ridom[r] => file'[m][e] = file[m][e]
      BY <1>1, <1>6
    <2> QED
      BY <1>0, <2>1, <2>2, OthersFetched
  <1>11. \A e \in Dom \ {d} : (Fetching(e)' <=> Fetching(e)) /\ (Written(e)' <=> Written(e))
    <2> TAKE e \in Dom \ {d}
    <2>1. CASE Server(e) = r
      <3>1. (e < d + 1) <=> (e < d)
        BY <1>2 DEF FileTypes
      <3> QED
        BY <1>1, <1>9, <2>1, <3>1 DEF Fetching, Written
    <2>2. CASE Server(e) # r
      BY <1>9, <2>2 DEF Fetching, Written, FileTypes
    <2> QED
      BY <2>1, <2>2
  <1>12. Serving(0)'
    BY <1>3, <1>9 DEF Serving, FileTypes
  <1>13. Progress(d)' = "closed"
    <2>1. d < d + 1
      BY <1>2 DEF FileTypes
    <2>2. Written(d)' /\ ~Fetching(d)'
      BY <1>2, <1>9, <2>1 DEF Fetching, Written
    <2>3. ActiveAfter(d, rstep'[0])
      BY <1>1, <1>3 DEF Fetched
    <2> QED
      BY <2>2, <2>3 DEF Progress
  <1>14. /\ rstep[0] \in CkptSteps
         /\ \A m \in CkptSteps, e \in Dom : m # rstep[0] \/ e # d => file'[m][e] = file[m][e]
         /\ file'[rstep[0]][d].state = Progress(d)'
         /\ Snapshot(rstep[0], file'[rstep[0]][d], d)
    BY <1>3, <1>6, <1>7, <1>8, <1>13
  <1>15. rstep' = rstep
    BY <1>1
  <1> HIDE DEF f, g
  <1> QED
    BY <1>2, <1>3, <1>10, <1>11, <1>12, <1>14, <1>15, FileChanged

LEMMA UnlockAllFile ==
    ASSUME FileTypes, FileInv, NEW r \in Rest, UnlockAll(r)
    PROVE  FileInv'
  <1>1. /\ rpc[r] = "write" /\ ridom[r] = NDom + 1 /\ rpc'[r] = "bar"
        /\ \A q \in Rest \ {r} : rpc'[q] = rpc[q]
        /\ UNCHANGED <<ridom, rstep, file, got>>
    BY DEF UnlockAll, GotoR, FileTypes
  <1>2. \A d \in Dom : d < NDom + 1
    BY DEF FileTypes
  <1>3. \A d \in Dom : /\ Fetching(d)' <=> Fetching(d)
                       /\ Written(d)' <=> Written(d)
    BY <1>1, <1>2 DEF Fetching, Written, FileTypes
  <1>4. /\ Serving(0)' <=> Serving(0)
        /\ \A q \in Rest : rpc'[q] = "get" => rpc[q] = "get"
    BY <1>1 DEF Serving, FileTypes
  <1> QED
    BY <1>1, <1>3, <1>4, FileKept

LEMMA UnpackTriggerFile ==
    ASSUME FileTypes, FileInv, NEW r \in Rest, UnpackTrigger(r)
    PROVE  FileInv'
  <1>1. /\ r # 0 /\ rpc[r] = "recv" /\ rpc'[r] \in {"sync", "free"}
        /\ \A q \in Rest \ {r} : rpc'[q] = rpc[q] /\ ridom'[q] = ridom[q] /\ rstep'[q] = rstep[q]
        /\ UNCHANGED <<file, got>>
    BY DEF UnpackTrigger, Obey, FileTypes
  <1>2. \A d \in Dom : /\ Fetching(d)' <=> Fetching(d)
                       /\ Written(d)' <=> Written(d)
    BY <1>1 DEF Fetching, Written, FileTypes
  <1>3. rstep'[0] = rstep[0] /\ (Serving(0)' <=> Serving(0))
    BY <1>1 DEF Serving, FileTypes
  <1>4. \A q \in Rest : rpc'[q] = "get" => q # r
    BY <1>1
  <1> QED
    BY <1>1, <1>2, <1>3, <1>4, FileKept

(* k is the first checkpoint after step m.                                 *)
LEMMA NextOne ==
    ASSUME CkptSteps \subseteq Nat, NEW m \in Nat, NEW k \in CkptSteps, m < k,
           \A n \in CkptSteps : m < n => k <= n
    PROVE  /\ \A n \in CkptSteps : n < k => n <= m
           /\ \A n \in CkptSteps : k <= n => m < n
           /\ \A n \in CkptSteps : k < n => k <= n
           /\ k <= k
  <1>1. \A n \in CkptSteps : n \in Nat
    OBVIOUS
  <1> QED
    BY <1>1

LEMMA RecvTriggerFile ==
    ASSUME FileTypes, RestTypes, BatonInv, AskInv, FileInv, RecvTrigger
    PROVE  FileInv'
  <1>1. /\ rpc[0] = "recv" /\ ~Serving(0) /\ \A r \in Rest : rpc[r] = "recv"
        /\ \A r \in Rest : rpc'[r] \in {"recv", "sync", "free"}
        /\ UNCHANGED <<got, file>>
    BY RecvTriggerZero DEF Serving
  <1>2. \A d \in Dom : ~Fetching(d)' /\ ~Written(d)' /\ ~Fetching(d) /\ ~Written(d)
    BY <1>1 DEF Fetching, Written, FileTypes
  <1>3. CASE toRest.cmd # "start"
    BY <1>1, <1>2, <1>3, FileKept, RecvTriggerZero DEF Serving
  <1>4. CASE toRest.cmd = "start"
    <2>1. /\ rstep'[0] = toRest.step /\ toRest.step \in CkptSteps /\ rstep[0] < rstep'[0]
          /\ \A n \in CkptSteps : rstep[0] < n => rstep'[0] <= n
          /\ Serving(0)'
      BY <1>4, RecvTriggerZero DEF AskInv, Serving
    <2>2. SnapshotConsistent'
      BY <1>1 DEF FileInv, SnapshotConsistent, Snapshot
    <2>3. rstep[0] \in Nat /\ rstep'[0] \in CkptSteps /\ CkptSteps \subseteq Nat
      BY <2>1 DEF FileTypes
    <2>4. /\ \A n \in CkptSteps : n < rstep'[0] => n <= rstep[0]
          /\ \A n \in CkptSteps : rstep'[0] <= n => rstep[0] < n
          /\ \A n \in CkptSteps : rstep'[0] < n => rstep'[0] <= n
          /\ rstep'[0] <= rstep'[0]
      <3>1. PICK k \in CkptSteps : k = rstep'[0]
        BY <2>3
      <3>2. PICK m \in Nat : m = rstep[0]
        BY <2>3
      <3>3. m < k /\ \A n \in CkptSteps : m < n => k <= n
        BY <2>1, <3>1, <3>2
      <3>4. /\ \A n \in CkptSteps : n < k => n <= m
            /\ \A n \in CkptSteps : k <= n => m < n
            /\ \A n \in CkptSteps : k < n => k <= n
            /\ k <= k
        BY <2>3, <3>3, NextOne
      <3> QED
        BY <3>1, <3>2, <3>4
    <2>5. \A n \in CkptSteps : n <= rstep[0] => Complete(n)
      BY <1>1, <2>3 DEF FileInv
    <2>6. \A n \in CkptSteps : Complete(n) => Complete(n)'
      BY <1>1 DEF Complete
    <2>7. \A n \in CkptSteps : n < rstep'[0] \/ (n = rstep'[0] /\ ~Serving(0)') => Complete(n)'
      BY <2>1, <2>4, <2>5, <2>6
    <2>8. \A n \in CkptSteps, d \in Dom : rstep'[0] <= n => file'[n][d].state = "absent"
      BY <1>1, <2>4 DEF FileInv
    <2>9. \A n \in CkptSteps, d \in Dom : rstep'[0] < n => file'[n][d].state = "absent"
      BY <2>4, <2>8
    <2>10. \A d \in Dom : Progress(d)' = "absent"
      BY <1>2 DEF Progress
    <2>11. \A d \in Dom : file'[rstep'[0]][d].state = Progress(d)'
      BY <2>3, <2>4, <2>8, <2>10
    <2>12. \A r \in Rest : rpc'[r] # "get"
      BY <1>1
    <2> QED
      BY <2>2, <2>7, <2>9, <2>11, <2>12 DEF FileInv
  <1> QED
    BY <1>3, <1>4

(* When all servers are at the barrier every domain is written.            *)
LEMMA RestBarrierFile ==
    ASSUME FileTypes, FileInv, RestBarrier
    PROVE  FileInv'
  <1>1. /\ \A r \in Rest : rpc[r] = "bar" /\ rpc'[r] \in {"done", "recv"}
        /\ UNCHANGED <<file, rstep, got>>
    BY DEF RestBarrier
  <1>2. \A d \in Dom : Written(d) /\ ~Fetching(d)
    BY <1>1 DEF Written, Fetching, FileTypes
  <1>3. Serving(0) /\ ~Serving(0)'
    BY <1>1 DEF Serving, FileTypes
  <1>4. Complete(rstep[0])
    BY <1>2, <1>3 DEF FileInv, Progress, Complete
  <1>5. \A n \in CkptSteps : n < rstep[0] \/ n = rstep[0] => Complete(n)'
    BY <1>1, <1>4 DEF FileInv, Complete
  <1>6. SnapshotConsistent'
    BY <1>1 DEF FileInv, SnapshotConsistent, Snapshot
  <1> QED
    BY <1>1, <1>3, <1>5, <1>6 DEF FileInv

LEMMA FileStep ==
    ASSUME TypeOK, LoopInv, BatonInv, WinInv, AskInv, RestInv, FileInv, [Next]_vars
    PROVE  FileInv'
  <1>1. FileTypes /\ RestTypes
    BY FileTypesHold, RestTypesHold
  <1>2. ASSUME NEW r \in Rest, RestStep(r) PROVE FileInv'
    BY <1>1, <1>2, UnpackTriggerFile, SyncFile, SkipFileFile, OpenFileFile, GetPartFile,
       CloseFileFile, UnlockAllFile DEF RestStep
  <1>3. CASE SendDone \/ DoneSent
    <2>1. \A r \in Rest : rpc[r] = rpc'[r] \/ rpc[r] \in {"done", "donesent"}
      BY <1>1, <1>3, SendDoneZero DEF RestTypes
    <2>2. \A r \in Rest : rpc[r] = rpc'[r] \/ rpc'[r] \in {"donesent", "recv"}
      BY <1>1, <1>3, SendDoneZero DEF RestTypes
    <2>3. UNCHANGED <<file, ridom, rstep, got>> /\ (Serving(0)' <=> Serving(0))
      BY <1>1, <1>3, SendDoneZero DEF SendDone, DoneSent
    <2>4. \A d \in Dom : /\ Fetching(d)' <=> Fetching(d)
                         /\ Written(d)' <=> Written(d)
      BY <1>1, <2>1, <2>2, <2>3 DEF Fetching, Written, FileTypes
    <2>5. \A r \in Rest : rpc'[r] = "get" => rpc[r] = "get"
      BY <2>2
    <2> QED
      BY <1>1, <2>3, <2>4, <2>5, FileKept
  <1>4. CASE FreeWindows
    <2>1. UNCHANGED <<file, ridom, rstep, got>>
          /\ \A r \in Rest : rpc[r] = "free" /\ rpc'[r] = "stopped"
      BY <1>4 DEF FreeWindows
    <2>2. /\ Serving(0)' <=> Serving(0)
          /\ \A d \in Dom : /\ Fetching(d)' <=> Fetching(d)
                            /\ Written(d)' <=> Written(d)
      BY <1>1, <2>1 DEF Fetching, Written, Serving, FileTypes
    <2> QED
      BY <1>1, <2>1, <2>2, FileKept
  <1>5. CASE WorkSide \/ UNCHANGED vars
    <2>1. UNCHANGED <<file, rpc, ridom, rstep, got>>
      BY <1>5, WorkSideFrame DEF restVars, vars
    <2>2. /\ Serving(0)' <=> Serving(0)
          /\ \A d \in Dom : /\ Fetching(d)' <=> Fetching(d)
                            /\ Written(d)' <=> Written(d)
      BY <2>1 DEF Fetching, Written, Serving
    <2> QED
      BY <1>1, <2>1, <2>2, FileKept
  <1>6. CASE RestSide
    BY <1>1, <1>2, <1>3, <1>6, RecvTriggerFile, RestBarrierFile DEF RestSide, ServerStep
  <1> QED
    BY <1>4, <1>5, <1>6, Sides

-----------------------------------------------------------------------------
(* The invariant and what follows from it.                                 *)

Inv ==
    /\ TypeInv /\ BatonInv
    /\ LoopTruth /\ PhaseInv /\ MetaInv
    /\ WinInv /\ AskInv /\ RestInv /\ FileInv

LEMMA InitInv == Init => Inv
  BY InitType, InitBaton, InitLoop, InitPhase, InitMeta, InitAsk, InitFile DEF Inv

LEMMA InvStep == Inv /\ [Next]_vars => Inv'
  <1> SUFFICES ASSUME Inv, [Next]_vars PROVE Inv'
    OBVIOUS
  <1>1. /\ TypeOK /\ LoopInv /\ BatonInv /\ LoopTruth /\ PhaseInv /\ MetaInv
        /\ WinInv /\ AskInv /\ RestInv /\ FileInv
    BY DEF Inv, TypeInv
  <1>2. TypeInv' /\ BatonInv'
    BY <1>1, TypeStep, BatonStep DEF TypeInv
  <1>3. LoopTruth' /\ PhaseInv' /\ MetaInv'
    BY <1>1, LoopStep, PhaseStep, MetaStep
  <1>4. WinInv' /\ AskInv'
    BY <1>1, WinStep, AskStep
  <1>5. RestInv' /\ FileInv'
    BY <1>1, RestInvStep, FileStep
  <1> QED
    BY <1>2, <1>3, <1>4, <1>5 DEF Inv

(* The whole argument: the work PEs stay in the same stage of the same     *)
(* checkpoint, describe the domains rightly, fill every window, and the    *)
(* restart PEs write what they were asked for.                             *)
THEOREM InvHolds == Spec => []Inv
  BY InitInv, InvStep, PTL DEF Spec

(* Posting PEs describe the domains alike and rightly, for every number of *)
(* PEs and every layout of nests that the assumptions allow.               *)
THEOREM MetadataAgrees == Spec => []MetadataAgreed
  <1>1. Inv => MetadataAgreed
    BY MetaAgrees, FirstIndex DEF Inv
  <1> QED
    BY <1>1, InvHolds, PTL

(* A closed file is the snapshot of the step it is named after, from every *)
(* owner, however far the work PEs have computed meanwhile.                *)
THEOREM FilesAreSnapshots == Spec => []SnapshotConsistent
  <1>1. Inv => SnapshotConsistent
    BY DEF Inv, FileInv
  <1> QED
    BY <1>1, InvHolds, PTL

(* A checkpoint reported done has the files of exactly the domains active  *)
(* at its step, all closed.                                                *)
THEOREM CheckpointsComplete == Spec => []CheckpointComplete
  <1>1. Inv => CheckpointComplete
    <2> SUFFICES ASSUME Inv, NEW n \in CkptSteps, Reported(n) PROVE Complete(n)
      BY DEF CheckpointComplete
    <2>1. n < rstep[0] \/ (n = rstep[0] /\ ~Serving(0))
      BY DEF Reported, Serving
    <2> QED
      BY <2>1 DEF Inv, FileInv
  <1> QED
    BY <1>1, InvHolds, PTL

LEMMA WorkSends ==
    ASSUME Inv, WorkSide
    PROVE  /\ toRest # toRest' => NoMsg \in {toRest, toRest'}
           /\ \A d \in Dom  : upd[d] # upd'[d] => NoMsg \in {upd[d], upd'[d]}
           /\ \A w \in Work : wcast[w] # wcast'[w] => NoMsg \in {wcast[w], wcast'[w]}
  <1>1. MetaTypes /\ UpdInv /\ CastInv /\ Baton
    BY MetaTypesHold DEF Inv, TypeInv, MetaInv, BatonInv
  <1>2. ASSUME NEW w \in Work, SendUpdate(w) PROVE upd[idom[w]] = NoMsg
    <2>1. idom[w] \in Dom /\ wpc[w] = "master" /\ w # 0 /\ w = FirstPE(idom[w])
      BY <1>1, <1>2 DEF SendUpdate, GotoW, MetaTypes
    <2>2. idom[w] <= idom[w]
      BY <2>1, <1>1 DEF MetaTypes
    <2> QED
      BY <1>1, <2>1, <2>2 DEF UpdInv, Unsent
  <1>3. ASSUME NEW w \in Work, WorkStep(w)
        PROVE  /\ toRest' = toRest
               /\ \A d \in Dom : upd[d] # upd'[d] => upd[d] = NoMsg
               /\ \A v \in Work : wcast[v] # wcast'[v] => wcast'[v] = NoMsg
    <2>1. CASE SendUpdate(w)
      BY <1>1, <1>2, <2>1 DEF SendUpdate, MetaTypes
    <2>2. CASE UnpackMetadata(w)
      BY <1>1, <2>2 DEF UnpackMetadata, MetaTypes
    <2>3. CASE \/ TimeStep(w) \/ UpdatePatch(w) \/ SkipMaster(w) \/ UpdateSent(w)
               \/ SkipPost(w) \/ LockWindow(w) \/ PostVars(w) \/ Destruct(w)
      BY <2>3 DEF TimeStep, UpdatePatch, SkipMaster, UpdateSent, SkipPost, LockWindow,
         PostVars, Destruct, msgVars
    <2> QED
      BY <1>3, <2>1, <2>2, <2>3 DEF WorkStep
  <1>4. CASE SendTrigger \/ SendShutdown
    BY <1>1, <1>4 DEF SendTrigger, SendShutdown, GotoW, Baton, WorkHas
  <1>5. CASE RecvUpdate
    BY <1>1, <1>5 DEF RecvUpdate, MetaTypes
  <1>6. CASE BcastMetadata
    BY <1>1, <1>6 DEF BcastMetadata, MetaTypes, CastInv, Merged
  <1>7. CASE RecvDone \/ TriggerSent \/ RecvLastDone \/ ShutdownSent
    BY <1>7 DEF RecvDone, TriggerSent, RecvLastDone, ShutdownSent, msgVars
  <1>8. CASE WaitBarrier \/ PostBarrier \/ LastBarrier
    BY <1>8 DEF WaitBarrier, PostBarrier, LastBarrier, msgVars
  <1> QED
    BY <1>3, <1>4, <1>5, <1>6, <1>7, <1>8 DEF WorkSide, MasterStep

LEMMA RestSends ==
    ASSUME Inv, RestSide
    PROVE  /\ toRest # toRest' => NoMsg \in {toRest, toRest'}
           /\ \A r \in Rest : rcast[r] # rcast'[r] => NoMsg \in {rcast[r], rcast'[r]}
  <1>1. RestTypes /\ BatonInv
    BY RestTypesHold DEF Inv, TypeInv
  <1>2. CASE RecvTrigger
    <2>1. ~Serving(0) /\ ~Left(0)
      BY <1>1, <1>2, RecvTriggerZero DEF Serving, Left
    <2>2. \A r \in Rest \ {0} : rcast[r] # Shutdown /\ rcast[r].cmd # "start"
      BY <1>1, <2>1 DEF BatonInv, RestTogether
    <2>3. \A r \in Rest \ {0} : rcast[r] = NoMsg
      BY <1>1, <2>2, MessageCases DEF RestTypes
    <2> QED
      BY <1>1, <1>2, <2>3, RecvTriggerZero
  <1>3. ASSUME NEW r \in Rest, RestStep(r)
        PROVE  toRest' = toRest /\ \A q \in Rest : rcast[q] # rcast'[q] => rcast'[q] = NoMsg
    <2>1. CASE UnpackTrigger(r)
      BY <1>1, <2>1 DEF UnpackTrigger, RestTypes
    <2> QED
      BY <1>3, <2>1 DEF RestStep, LockAll, UnlockPassing, BeginWrite, SkipFile, OpenFile,
         GetPart, CloseFile, UnlockAll, msgVars
  <1>4. CASE SendDone \/ DoneSent \/ RestBarrier
    BY <1>4 DEF SendDone, DoneSent, RestBarrier, msgVars
  <1> QED
    BY <1>2, <1>3, <1>4 DEF RestSide, ServerStep

(* No message or broadcast is sent over one that was not received.         *)
THEOREM MessagesKept == Spec => NothingLost
  <1>1. ASSUME Inv, Inv', [Next]_vars
        PROVE  /\ toWork # toWork' => "none" \in {toWork, toWork'}
               /\ toRest # toRest' => NoMsg \in {toRest, toRest'}
               /\ \A d \in Dom  : upd[d] # upd'[d] => NoMsg \in {upd[d], upd'[d]}
               /\ \A w \in Work : wcast[w] # wcast'[w] => NoMsg \in {wcast[w], wcast'[w]}
               /\ \A r \in Rest : rcast[r] # rcast'[r] => NoMsg \in {rcast[r], rcast'[r]}
    <2>1. toWork \in {"none", "done"} /\ toWork' \in {"none", "done"}
      BY <1>1 DEF Inv, TypeInv, TypeOK
    <2>2. CASE WorkSide
      BY <1>1, <2>1, <2>2, WorkSends, WorkSideFrame
    <2>3. CASE RestSide
      BY <1>1, <2>1, <2>3, RestSends, RestSideFrame
    <2>4. CASE FreeWindows \/ UNCHANGED vars
      BY <2>1, <2>4, FreeFrame DEF vars, msgVars
    <2> QED
      BY <1>1, <2>2, <2>3, <2>4, Sides
  <1>2. Inv /\ Inv' /\ [Next]_vars =>
          [/\ toWork # toWork' => "none" \in {toWork, toWork'}
           /\ toRest # toRest' => NoMsg \in {toRest, toRest'}
           /\ \A d \in Dom  : upd[d] # upd'[d] => NoMsg \in {upd[d], upd'[d]}
           /\ \A w \in Work : wcast[w] # wcast'[w] => NoMsg \in {wcast[w], wcast'[w]}
           /\ \A r \in Rest : rcast[r] # rcast'[r] => NoMsg \in {rcast[r], rcast'[r]}
          ]_msgVars
    BY <1>1
  <1> QED
    BY <1>2, InvHolds, PTL DEF Spec, NothingLost

(* When all PEs have left nothing is under way or locked, and every        *)
(* checkpoint of the run is complete on disk.                              *)
THEOREM LeftClean == Spec => []ShutdownClean
  <1>1. ASSUME Inv, Stopped
        PROVE  /\ toWork = "none" /\ toRest = NoMsg
               /\ \A d \in Dom : upd[d] = NoMsg
               /\ \A w \in Work : wcast[w] = NoMsg /\ xlock[w] = {}
               /\ \A r \in Rest : rcast[r] = NoMsg /\ slock[r] = {}
               /\ \A n \in CkptSteps : Complete(n)
    <2>1. /\ 0 \in Work /\ 0 \in Rest
          /\ \A w \in Work : wpc[w] = "stopped"
          /\ \A r \in Rest : rpc[r] = "stopped"
      BY <1>1, FirstIndex DEF Stopped
    <2>2. toRest = NoMsg /\ toWork = "none"
      BY <1>1, <2>1 DEF Inv, BatonInv, Baton, RestHas
    <2>3. \A d \in Dom : upd[d] = NoMsg
      BY <1>1, <2>1 DEF Inv, MetaInv, UpdInv
    <2>4. \A w \in Work : wcast[w] = NoMsg
      BY <1>1, <2>1 DEF Inv, MetaInv, CastInv
    <2>5. \A r \in Rest : rcast[r] = NoMsg
      BY <1>1, <2>1 DEF Inv, RestInv
    <2>6. (\A w \in Work : xlock[w] = {}) /\ (\A r \in Rest : slock[r] = {})
      BY <1>1, <2>1 DEF Inv, BatonInv, LocksHeld, Serving
    <2>7. ASSUME NEW n \in CkptSteps PROVE Complete(n)
      <3>1. step[0] = NSteps /\ ~PreTrigger /\ ~Serving(0)
        BY <1>1, <2>1 DEF Inv, PhaseInv, Ending, PreTrigger, Waiting, Posting, Serving
      <3>2. Requested = rstep[0]
        BY <2>2 DEF Requested, NoMsg
      <3>3. n \in 1 .. NSteps /\ NSteps \in Nat
        BY SizesAssumption
      <3>4. n <= step[0]
        BY <3>1, <3>3
      <3>5. n <= rstep[0]
        BY <1>1, <3>1, <3>2, <3>4 DEF Inv, AskInv
      <3>6. rstep[0] \in Nat
        BY <1>1, RestTypesHold DEF Inv, TypeInv, RestTypes
      <3>7. n < rstep[0] \/ n = rstep[0]
        BY <3>3, <3>5, <3>6
      <3> QED
        BY <1>1, <3>1, <3>7 DEF Inv, FileInv
    <2> QED
      BY <2>2, <2>3, <2>4, <2>5, <2>6, <2>7
  <1>2. Inv => ShutdownClean
    BY <1>1 DEF ShutdownClean
  <1> QED
    BY <1>2, InvHolds, PTL

(***************************************************************************)
(* The protocol implements RestartService.  Sending START is Request,      *)
(* closing a file is Write, the barrier after the files is Finish; every   *)
(* other step of the PEs leaves the service as it is.  Above all the       *)
(* servers' receipt of the request does, where the step of the last        *)
(* finished checkpoint turns from a variable into the predecessor of the   *)
(* new one (PrevInv).                                                      *)
(***************************************************************************)

(* p is the last checkpoint before step n, or 0.                           *)
Prev(p, n) == /\ p \in {0} \cup CkptSteps
              /\ p < n
              /\ \A k \in CkptSteps : k < n => k <= p

Before(n) == CHOOSE m \in {0} \cup CkptSteps :
                /\ m < n
                /\ \A k \in CkptSteps : k < n => k <= m

(* The checkpoint being served has one before it.                          *)
PrevInv == Serving(0) => \E p : Prev(p, rstep[0])

SInv == Inv /\ PrevInv

LEMMA DoneCases == DoneUpTo = IF Serving(0) THEN Before(rstep[0]) ELSE rstep[0]
  BY DEF DoneUpTo, Before

LEMMA BeforeIsPrev ==
    ASSUME NEW n \in Nat, NEW p, Prev(p, n)
    PROVE  Before(n) = p
  <1>1. CkptSteps \subseteq Nat /\ p \in Nat
    BY SizesAssumption DEF Prev
  <1>2. PICK b : b = Before(n)
    OBVIOUS
  <1>3. Prev(b, n)
    <2>1. \E m \in {0} \cup CkptSteps : m < n /\ \A k \in CkptSteps : k < n => k <= m
      BY DEF Prev
    <2>2. /\ Before(n) \in {0} \cup CkptSteps
          /\ Before(n) < n /\ \A k \in CkptSteps : k < n => k <= Before(n)
      BY <2>1, Zenon DEF Before
    <2> QED
      BY <1>2, <2>2 DEF Prev
  <1>4. b \in Nat
    BY <1>1, <1>3 DEF Prev
  <1>5. b <= p
    BY <1>1, <1>3 DEF Prev
  <1>6. p <= b
    BY <1>3, <1>4 DEF Prev
  <1> QED
    BY <1>1, <1>2, <1>4, <1>5, <1>6

LEMMA DoneServing ==
    ASSUME SInv, Serving(0)
    PROVE  Prev(DoneUpTo, rstep[0]) /\ DoneUpTo # rstep[0]
  <1>1. rstep[0] \in Nat /\ CkptSteps \subseteq Nat
    BY RestTypesHold, SizesAssumption DEF SInv, Inv, TypeInv, RestTypes
  <1>2. PICK p : Prev(p, rstep[0])
    BY DEF SInv, PrevInv
  <1>3. DoneUpTo = p
    BY <1>1, <1>2, DoneCases, BeforeIsPrev
  <1>4. p \in Nat /\ p < rstep[0]
    BY <1>1, <1>2 DEF Prev
  <1>5. p # rstep[0]
    BY <1>1, <1>4
  <1> QED
    BY <1>2, <1>3, <1>5

-----------------------------------------------------------------------------
(* What a step does to the request and its predecessor.                    *)

LEMMA InvTypes == Inv => /\ RestTypes /\ FileTypes /\ MetaTypes
                         /\ BatonInv /\ LoopInv /\ WinInv /\ AskInv /\ RestInv /\ FileInv
  BY RestTypesHold, FileTypesHold, MetaTypesHold DEF Inv, TypeInv

(* Receiving a request: the last one served is the last one done.          *)
LEMMA TriggerPrev ==
    ASSUME Inv, RecvTrigger, toRest.cmd = "start"
    PROVE  Prev(rstep[0], rstep'[0])
  <1>1. PICK k \in CkptSteps : k = rstep'[0]
    BY InvTypes, RecvTriggerZero DEF AskInv
  <1>2. PICK m \in Nat : m = rstep[0]
    BY InvTypes DEF RestTypes
  <1>3. m < k /\ (\A n \in CkptSteps : m < n => k <= n) /\ m \in {0} \cup CkptSteps
    BY <1>1, <1>2, InvTypes, RecvTriggerZero DEF AskInv
  <1>4. \A n \in CkptSteps : n < k => n <= m
    BY <1>3, InvTypes, NextOne DEF FileTypes
  <1> QED
    BY <1>1, <1>2, <1>3, <1>4 DEF Prev

(* Of the steps at which PE 0 of the servers serves, only the receipt of a *)
(* request changes what it serves.                                         *)
LEMMA ServeFrame ==
    ASSUME Inv, [Next]_vars
    PROVE  \/ RecvTrigger
           \/ RestBarrier
           \/ rstep'[0] = rstep[0] /\ (Serving(0)' <=> Serving(0))
  <1>1. CASE WorkSide
    BY <1>1, WorkSideFrame DEF restVars, Serving
  <1>2. CASE RestSide
    BY <1>2, InvTypes, RestStepZero, SendDoneZero DEF RestSide, ServerStep
  <1>3. CASE FreeWindows \/ UNCHANGED vars
    BY <1>3, FirstIndex DEF FreeWindows, vars, restVars, Serving
  <1> QED
    BY <1>1, <1>2, <1>3, Sides

LEMMA InitPrev == Init => PrevInv
  BY FirstIndex DEF Init, PrevInv, Serving

LEMMA PrevStep ==
    ASSUME Inv, PrevInv, [Next]_vars
    PROVE  PrevInv'
  <1>1. CASE RecvTrigger
    <2>1. CASE toRest.cmd = "start"
      BY <1>1, <2>1, TriggerPrev DEF PrevInv, Prev
    <2>2. CASE toRest.cmd # "start"
      BY <1>1, <2>2, InvTypes, RecvTriggerZero DEF PrevInv, Serving
    <2> QED
      BY <2>1, <2>2
  <1>2. CASE RestBarrier
    BY <1>2, FirstIndex DEF RestBarrier, PrevInv, Serving
  <1>3. CASE rstep'[0] = rstep[0] /\ (Serving(0)' <=> Serving(0))
    BY <1>3 DEF PrevInv, Prev
  <1> QED
    BY <1>1, <1>2, <1>3, ServeFrame

-----------------------------------------------------------------------------
(* Steps that leave the service as it is.                                  *)

ServiceKept == UNCHANGED <<Requested, DoneUpTo, Disk>>

LEMMA DiskKept == file' = file => Disk' = Disk
  BY DEF Disk, ContentOf

LEMMA OpenDiskKept ==
    ASSUME \A n \in CkptSteps, d \in Dom :
               \/ file'[n][d] = file[n][d]
               \/ file[n][d].state # "closed" /\ file'[n][d].state # "closed"
    PROVE  Disk' = Disk
  BY DEF Disk, ContentOf

LEMMA DoneKept ==
    ASSUME rstep'[0] = rstep[0], Serving(0)' <=> Serving(0)
    PROVE  DoneUpTo' = DoneUpTo
  BY DEF DoneUpTo

LEMMA RequestKept ==
    ASSUME toRest' = toRest, rstep'[0] = rstep[0]
    PROVE  Requested' = Requested
  BY DEF Requested

LEMMA WorkKeeps ==
    ASSUME Inv, WorkSide, ~SendTrigger
    PROVE  ServiceKept
  <1>1. file' = file /\ rstep' = rstep /\ (Serving(0)' <=> Serving(0))
    BY WorkSideFrame DEF restVars, Serving
  <1>2. Requested' = Requested
    <2>1. CASE SendShutdown
      BY <1>1, <2>1, InvTypes DEF SendShutdown, GotoW, BatonInv, Baton, WorkHas, Requested,
         Shutdown, NoMsg
    <2>2. ASSUME NEW w \in Work, WorkStep(w) PROVE toRest' = toRest
      BY <2>2 DEF WorkStep, TimeStep, UpdatePatch, SkipMaster, SendUpdate, UpdateSent,
         UnpackMetadata, SkipPost, LockWindow, PostVars, Destruct, msgVars
    <2>3. CASE MasterStep /\ ~SendShutdown
      BY <1>1, <2>3, RequestKept DEF MasterStep, RecvDone, RecvUpdate, BcastMetadata, TriggerSent,
         RecvLastDone, ShutdownSent, msgVars
    <2>4. CASE WaitBarrier \/ PostBarrier \/ LastBarrier
      BY <1>1, <2>4, RequestKept DEF WaitBarrier, PostBarrier, LastBarrier, msgVars
    <2> QED
      BY <1>1, <2>1, <2>2, <2>3, <2>4, RequestKept DEF WorkSide
  <1> QED
    BY <1>1, <1>2, DiskKept, DoneKept DEF ServiceKept

LEMMA TriggerKeeps ==
    ASSUME SInv, RecvTrigger
    PROVE  ServiceKept
  <1>1. /\ rpc[0] = "recv" /\ ~Serving(0) /\ toRest' = NoMsg /\ file' = file
        /\ toRest.cmd = "start" => Serving(0)' /\ rstep'[0] = toRest.step
        /\ toRest.cmd # "start" => ~Serving(0)' /\ rstep' = rstep
    BY InvTypes, RecvTriggerZero DEF SInv, Serving
  <1>2. Requested' = Requested
    BY <1>1 DEF Requested, NoMsg
  <1>3. CASE toRest.cmd = "start"
    <2>1. Prev(rstep[0], rstep'[0])
      BY <1>3, TriggerPrev DEF SInv
    <2>2. rstep'[0] \in Nat
      <3>1. toRest.step \in CkptSteps /\ CkptSteps \subseteq Nat
        BY <1>3, InvTypes DEF SInv, AskInv, FileTypes
      <3> QED
        BY <1>1, <1>3, <3>1
    <2>3. DoneUpTo' = rstep[0]
      <3>1. DoneUpTo' = Before(rstep'[0])
        BY <1>1, <1>3 DEF DoneUpTo, Before
      <3> QED
        BY <2>1, <2>2, <3>1, BeforeIsPrev
    <2> QED
      BY <1>1, <1>2, <2>3, DoneCases, DiskKept DEF ServiceKept
  <1>4. CASE toRest.cmd # "start"
    BY <1>1, <1>2, <1>4, DoneKept, DiskKept DEF ServiceKept
  <1> QED
    BY <1>3, <1>4

(* A file that is being created or filled is not on the service's disk.    *)
LEMMA OpenFileDisk ==
    ASSUME Inv, NEW r \in Rest, OpenFile(r)
    PROVE  Disk' = Disk
  <1>0. ridom[r] \in Dom /\ r = Server(ridom[r]) /\ Serving(r) /\ rpc[r] = "write"
    BY InvTypes DEF OpenFile, GotoR, FileTypes, Serving
  <1>1. /\ rstep[r] = rstep[0] /\ rstep[r] \in CkptSteps /\ Serving(0)
    BY <1>0, InvTypes, ServersAgree
  <1>d. PICK d \in Dom : d = ridom[r]
    BY <1>0
  <1>n. PICK n \in CkptSteps : n = rstep[r]
    BY <1>1
  <1> DEFINE new == [state |-> "open", attr |-> rdesc[r], part |-> [w \in Work |-> 0]]
  <1>2. file' = [file EXCEPT ![n][d] = new]
    BY <1>d, <1>n DEF OpenFile
  <1>3. new.state # "closed"
    OBVIOUS
  <1> HIDE DEF new
  <1>4. \A m \in CkptSteps, e \in Dom : file'[m][e] = IF m = n /\ e = d THEN new ELSE file[m][e]
    BY <1>2, InvTypes DEF FileTypes
  <1>5. ~(d < d)
    BY InvTypes DEF FileTypes
  <1>6. Progress(d) = "absent"
    BY <1>0, <1>d, <1>5 DEF Progress, Fetching, Written
  <1>7. file[n][d].state # "closed"
    BY <1>1, <1>n, <1>6, InvTypes DEF FileInv
  <1> QED
    BY <1>3, <1>4, <1>7, OpenDiskKept

LEMMA GetPartDisk ==
    ASSUME Inv, NEW r \in Rest, NEW w \in Work, GetPart(r, w)
    PROVE  Disk' = Disk
  <1>0. ridom[r] \in Dom /\ r = Server(ridom[r]) /\ Serving(r) /\ rpc[r] = "get"
    BY InvTypes DEF GetPart, LoopInv, Serving
  <1>1. rstep[r] \in CkptSteps
    BY <1>0, InvTypes, ServersAgree
  <1>d. PICK d \in Dom : d = ridom[r]
    BY <1>0
  <1>n. PICK n \in CkptSteps : n = rstep[r]
    BY <1>1
  <1>2. file' = [file EXCEPT ![n][d].part[w] = win[w][d]]
    BY <1>d, <1>n DEF GetPart
  <1>3. file[n][d].state = "open"
    BY <1>0, <1>1, <1>d, <1>n, InvTypes DEF LoopInv
  <1>4. file[n][d] \in [state : {"open", "closed"}, attr : Descriptions, part : [Work -> Steps]]
    BY <1>3, InvTypes DEF FileTypes, File, NoFile
  <1>5. /\ \A m \in CkptSteps, e \in Dom : m # n \/ e # d => file'[m][e] = file[m][e]
        /\ file'[n][d] = [file[n][d] EXCEPT !.part[w] = win[w][d]]
    BY <1>2, InvTypes DEF FileTypes
  <1>6. file'[n][d].state = "open"
    BY <1>3, <1>4, <1>5
  <1> QED
    BY <1>3, <1>5, <1>6, OpenDiskKept

LEMMA RestKeeps ==
    ASSUME SInv, NEW r \in Rest, RestStep(r), ~CloseFile(r)
    PROVE  ServiceKept
  <1>1. Disk' = Disk
    <2>1. CASE OpenFile(r)
      BY <2>1, OpenFileDisk DEF SInv
    <2>2. CASE \E w \in Work : GetPart(r, w)
      BY <2>2, GetPartDisk DEF SInv
    <2>3. CASE \/ UnpackTrigger(r) \/ LockAll(r) \/ UnlockPassing(r) \/ BeginWrite(r)
               \/ SkipFile(r) \/ UnlockAll(r)
      BY <2>3, DiskKept DEF UnpackTrigger, LockAll, UnlockPassing, BeginWrite, SkipFile, UnlockAll
    <2> QED
      BY <2>1, <2>2, <2>3 DEF RestStep
  <1>2. toRest' = toRest /\ rstep'[0] = rstep[0] /\ (Serving(0)' <=> Serving(0))
    BY InvTypes, RestStepZero DEF SInv
  <1> QED
    BY <1>1, <1>2, DoneKept, RequestKept DEF ServiceKept

-----------------------------------------------------------------------------
(* Steps of the service.                                                   *)

LEMMA InitService == Init => Service!Init
  <1> SUFFICES ASSUME Init PROVE Service!Init
    OBVIOUS
  <1>1. rstep[0] = 0 /\ toRest = NoMsg /\ ~Serving(0)
    BY FirstIndex DEF Init, Serving
  <1>2. Requested = 0 /\ DoneUpTo = 0
    BY <1>1, DoneCases DEF Requested, NoMsg
  <1>3. \A n \in CkptSteps, d \in Dom : file[n][d].state # "closed"
    BY DEF Init, NoFile
  <1>4. Disk = [n \in CkptSteps |-> [d \in Dom |-> {}]]
    BY <1>3 DEF Disk
  <1> QED
    BY <1>2, <1>4 DEF Service!Init

LEMMA SendIsRequest ==
    ASSUME SInv, SendTrigger
    PROVE  step[0] \in CkptSteps /\ Service!Request(step[0])
  <1>1. wpc[0] = "trigger" /\ toRest' = Start(step[0], desc[0]) /\ UNCHANGED restVars
    BY DEF SendTrigger, GotoW
  <1>2. toRest = NoMsg /\ ~Serving(0)
    BY <1>1, InvTypes DEF SInv, BatonInv, Baton, WorkHas, RestHas, Serving
  <1>3. step[0] \in CkptSteps /\ Requested < step[0]
    BY <1>1, FirstIndex, InvTypes DEF SInv, Inv, PhaseInv, Triggering, AskInv, PreTrigger
  <1>4. Requested = rstep[0] /\ DoneUpTo = rstep[0]
    BY <1>2, DoneCases DEF Requested, NoMsg
  <1>5. Requested' = step[0]
    BY <1>1 DEF Requested, Start
  <1>6. DoneUpTo' = DoneUpTo /\ Disk' = Disk
    BY <1>1, DoneKept, DiskKept DEF restVars, Serving
  <1>7. step[0] > Requested
    BY <1>3
  <1> QED
    BY <1>3, <1>4, <1>5, <1>6, <1>7 DEF Service!Request

(* While the servers serve, what was requested is what they serve.         *)
LEMMA ServingRequested ==
    ASSUME SInv, Serving(0)
    PROVE  Requested = rstep[0] /\ DoneUpTo # Requested
  <1>1. toRest = NoMsg
    BY InvTypes DEF SInv, BatonInv, Baton, RestHas, Serving
  <1> QED
    BY <1>1, DoneServing DEF Requested, NoMsg

LEMMA SnapshotContent ==
    ASSUME NEW n \in CkptSteps, NEW d \in Dom, NEW f, Snapshot(n, f, d)
    PROVE  ContentOf(f, d) = FullContent(n, d)
  <1>1. [w \in Owned[d] |-> f.part[w]] = [w \in Owned[d] |-> n]
    BY DEF Snapshot
  <1>2. {e \in Dom : f.attr[e].active} = {e \in Dom : ActiveAfter(e, n)}
    BY DEF Snapshot
  <1>3. [e \in {e \in Dom : f.attr[e].active} |-> f.attr[e].dyn]
        = [e \in {e \in Dom : ActiveAfter(e, n)} |-> n]
    BY <1>2 DEF Snapshot
  <1> QED
    BY <1>1, <1>2, <1>3 DEF ContentOf, FullContent

LEMMA CloseIsWrite ==
    ASSUME SInv, NEW r \in Rest, CloseFile(r), SnapshotConsistent'
    PROVE  ridom[r] \in Dom /\ Service!Write(ridom[r])
  <1>0. ridom[r] \in Dom /\ Serving(r) /\ rpc[r] = "get"
    BY InvTypes DEF SInv, CloseFile, GotoR, LoopInv, Serving
  <1>1. Serving(0) /\ rstep[r] = rstep[0] /\ rstep[r] \in CkptSteps
    BY <1>0, InvTypes, ServersAgree DEF SInv
  <1>d. PICK d \in Dom : d = ridom[r]
    BY <1>0
  <1>n. PICK n \in CkptSteps : n = rstep[r]
    BY <1>1
  <1>2. file' = [file EXCEPT ![n][d].state = "closed"]
    BY <1>d, <1>n DEF CloseFile
  <1>3. file[n][d].state = "open" /\ ActiveAfter(d, n)
    BY <1>0, <1>1, <1>d, <1>n, InvTypes DEF SInv, LoopInv, FileInv, Fetched
  <1>4. file[n][d] \in [state : {"open", "closed"}, attr : Descriptions, part : [Work -> Steps]]
    BY <1>3, InvTypes DEF SInv, FileTypes, File, NoFile
  <1>5. /\ \A m \in CkptSteps, e \in Dom : m # n \/ e # d => file'[m][e] = file[m][e]
        /\ file'[n][d] = [file[n][d] EXCEPT !.state = "closed"]
    BY <1>2, InvTypes DEF SInv, FileTypes
  <1>6. file'[n][d].state = "closed"
    BY <1>4, <1>5
  <1>7. ContentOf(file'[n][d], d) = FullContent(n, d)
    <2>1. Snapshot(n, file'[n][d], d)
      BY <1>6 DEF SnapshotConsistent, Snapshot
    <2> QED
      BY <2>1, SnapshotContent
  <1>8. Requested = n /\ DoneUpTo # n
    BY <1>1, <1>n, ServingRequested
  <1>9. UNCHANGED <<Requested, DoneUpTo>>
    <2>1. toRest' = toRest /\ rstep'[0] = rstep[0] /\ (Serving(0)' <=> Serving(0))
      BY InvTypes, RestStepZero DEF SInv, RestStep
    <2> QED
      BY <2>1, DoneKept, RequestKept
  <1>10. Disk[n][d] = {}
    BY <1>3 DEF Disk
  <1>11. Disk' = [Disk EXCEPT ![n][d] = {FullContent(n, d)}]
    <2>1. ASSUME NEW m \in CkptSteps, NEW e \in Dom
          PROVE  Disk'[m][e] = IF m = n /\ e = d THEN {FullContent(n, d)} ELSE Disk[m][e]
      <3>1. CASE m = n /\ e = d
        BY <1>6, <1>7, <3>1 DEF Disk, ContentOf
      <3>2. CASE m # n \/ e # d
        BY <1>5, <3>2 DEF Disk, ContentOf
      <3> QED
        BY <3>1, <3>2
    <2>2. /\ Disk = [m \in CkptSteps |-> [e \in Dom |-> Disk[m][e]]]
          /\ Disk' = [m \in CkptSteps |-> [e \in Dom |-> Disk'[m][e]]]
      BY DEF Disk
    <2> QED
      BY <2>1, <2>2
  <1> QED
    BY <1>0, <1>d, <1>3, <1>8, <1>9, <1>10, <1>11 DEF Service!Write

LEMMA BarrierIsFinish ==
    ASSUME SInv, SInv', RestBarrier
    PROVE  Service!Finish
  <1>1. /\ Serving(0) /\ ~Serving(0)' /\ UNCHANGED <<rstep, file, toRest>>
    BY FirstIndex DEF RestBarrier, Serving, msgVars
  <1>2. Requested = rstep[0] /\ DoneUpTo # Requested /\ Requested' = Requested /\ Disk' = Disk
    BY <1>1, ServingRequested, RequestKept, DiskKept
  <1>3. DoneUpTo' = rstep[0]
    BY <1>1 DEF DoneUpTo
  <1>4. rstep[0] \in CkptSteps
    BY <1>1, InvTypes DEF SInv, RestInv
  <1>5. \A d \in Dom : ActiveAfter(d, rstep[0]) => file[rstep[0]][d].state = "closed"
    BY <1>1, <1>4 DEF SInv, Inv, FileInv, Complete
  <1>6. \A d \in Dom : ActiveAfter(d, rstep[0]) => Disk[rstep[0]][d] # {}
    BY <1>4, <1>5 DEF Disk
  <1> QED
    BY <1>2, <1>3, <1>6 DEF Service!Finish

-----------------------------------------------------------------------------
LEMMA ServiceStep ==
    ASSUME SInv, SInv', [Next]_vars
    PROVE  [Service!Next]_(Service!vars)
  <1>1. ServiceKept => UNCHANGED Service!vars
    BY DEF ServiceKept, Service!vars
  <1>2. CASE SendTrigger
    BY <1>2, SendIsRequest DEF Service!Next
  <1>3. CASE WorkSide /\ ~SendTrigger
    BY <1>1, <1>3, WorkKeeps DEF SInv
  <1>4. ASSUME NEW r \in Rest, RestStep(r) PROVE [Service!Next]_(Service!vars)
    <2>1. CASE CloseFile(r)
      <3>1. SnapshotConsistent'
        BY DEF SInv, Inv, FileInv
      <3> QED
        BY <2>1, <3>1, CloseIsWrite DEF Service!Next
    <2> QED
      BY <1>1, <1>4, <2>1, RestKeeps
  <1>5. CASE RecvTrigger
    BY <1>1, <1>5, TriggerKeeps
  <1>6. CASE RestBarrier
    BY <1>6, BarrierIsFinish DEF Service!Next
  <1>7. CASE SendDone \/ DoneSent
    <2>1. file' = file /\ toRest' = toRest /\ rstep'[0] = rstep[0] /\ (Serving(0)' <=> Serving(0))
      BY <1>7, InvTypes, SendDoneZero DEF SInv, SendDone, DoneSent
    <2> QED
      BY <1>1, <2>1, DoneKept, RequestKept, DiskKept DEF ServiceKept
  <1>8. CASE FreeWindows \/ UNCHANGED vars
    <2>1. file' = file /\ toRest' = toRest /\ rstep'[0] = rstep[0] /\ (Serving(0)' <=> Serving(0))
      BY <1>8, FirstIndex DEF FreeWindows, vars, restVars, msgVars, Serving
    <2> QED
      BY <1>1, <2>1, DoneKept, RequestKept, DiskKept DEF ServiceKept
  <1> QED
    BY <1>2, <1>3, <1>4, <1>5, <1>6, <1>7, <1>8, Sides DEF RestSide, ServerStep

(* The asynchronous protocol implements the service: whatever the numbers  *)
(* of PEs and domains, checkpoints are taken one at a time and in order,   *)
(* each file appears at once with the content of its step, and a           *)
(* checkpoint is done when all its files are there.                        *)
THEOREM Implements == Spec => ServiceSpec
  <1>1. Init => SInv
    BY InitInv, InitPrev DEF SInv
  <1>2. SInv /\ [Next]_vars => SInv'
    BY InvStep, PrevStep DEF SInv
  <1>3. Spec => []SInv
    BY <1>1, <1>2, PTL DEF Spec
  <1>4. SInv /\ SInv' /\ [Next]_vars => [Service!Next]_(Service!vars)
    BY ServiceStep
  <1> QED
    BY <1>3, <1>4, InitService, PTL DEF Spec, ServiceSpec, Service!Spec
=============================================================================
