------------------------- MODULE RunControllerProofs -------------------------
(***************************************************************************)
(* What TLAPS proves of RunController, for any devices, platforms and      *)
(* calls of run() and stop(), and any number of file changes.              *)
(***************************************************************************)
EXTENDS RunController, SequenceTheorems, TLAPS

USE ConstantsAssumption

-----------------------------------------------------------------------------
(* Types of what the operators of stop() and of the chain return. *)

(* A device action that has not ended has a device.                        *)
ActHasDevice == act.at # "none" => act.dev # NoDevice

StateInv == StateOK /\ ActHasDevice

LinkStep ==
    \/ SkipLink \/ StartLink \/ EndLink
    \/ \E d \in Devices : VisitDevice(d)
    \/ StartTransfer \/ DeviceSynced \/ DeviceFails \/ DeviceStopped

WebpackStep ==
    \/ StartWatcher \/ SpawnWebpack \/ FirstCompilation
    \/ PrepareEnds \/ PrepareFails
    \/ \E q \in Platforms : WebpackDies(q)

(* A prepare() that goes on is one of a platform.                          *)
PrepareHasPlatform == PreparePending => prep.platform # NoPlatform

TypeInv == TypeOK /\ ActHasDevice /\ PrepareHasPlatform

LEMMA AfterLonelyType ==
  ASSUME TypeOK, NEW s \in StopCalls, NEW call \in StopTypes, NEW descs
  PROVE  AfterLonely(s, call, descs) \in StopTypes
<1>1. session.platforms \subseteq Platforms /\ chain.current \in Nat
  BY DEF TypeOK, StateOK, SessionTypes, ChainTypes
<1> QED BY <1>1 DEF AfterLonely, StopTypes

(* A call of stop() that only changes where it is keeps its type.          *)
LEMMA StopAtType ==
  ASSUME stop \in [StopCalls -> StopTypes], NEW s \in StopCalls,
         NEW a \in {"idle", "lonely", "closing", "chain", "hooks", "action",
                    "done", "failed"}
  PROVE  [stop EXCEPT ![s].at = a] \in [StopCalls -> StopTypes]
<1>1. [stop[s] EXCEPT !.at = a] \in StopTypes
  BY DEF StopTypes
<1> QED BY <1>1

(* What BeginStop changes.                                                 *)
StopPart == /\ session \in SessionTypes
            /\ stop \in [StopCalls -> StopTypes]

LEMMA BeginStopType ==
  ASSUME TypeOK, NEW s \in StopCalls, NEW ids, NEW devices,
         BeginStop(s, ids, devices)
  PROVE  StopPart'
<1> DEFINE removed == IF ids = {} THEN session.descs
                                  ELSE session.descs \intersect ids
           descs == session.descs \ removed
           call == [NoStop EXCEPT !.at = "lonely", !.all = (ids = {}),
                                  !.left = session.platforms]
<1>1. /\ session \in SessionTypes /\ stop \in [StopCalls -> StopTypes]
  BY DEF TypeOK, StateOK
<1>2. CASE session.state = "live"
  <2>1. call \in StopTypes BY <1>1 DEF SessionTypes, StopTypes, NoStop
  <2>2. AfterLonely(s, call, descs) \in StopTypes
    <3> HIDE DEF call, descs
    <3> QED BY <2>1, AfterLonelyType
  <2>3. /\ session' = [session EXCEPT !.descs = descs]
        /\ stop' = [stop EXCEPT ![s] =
                      IF \E q \in session.platforms : Lonely(q, devices)
                      THEN call ELSE AfterLonely(s, call, descs)]
    BY <1>2 DEF BeginStop
  <2>4. session' \in SessionTypes
    BY <1>1, <2>3 DEF SessionTypes
  <2> HIDE DEF call, descs, removed
  <2>5. stop' \in [StopCalls -> StopTypes]
    BY <1>1, <2>1, <2>2, <2>3
  <2> QED BY <2>4, <2>5 DEF StopPart
<1>3. CASE session.state # "live"
  <2>1. /\ stop' = [stop EXCEPT ![s].at = "done"]
        /\ UNCHANGED session
    BY <1>3 DEF BeginStop
  <2>2. stop' \in [StopCalls -> StopTypes]
    BY <1>1, <2>1, StopAtType
  <2> QED BY <1>1, <2>1, <2>2 DEF StopPart
<1> QED BY <1>2, <1>3

(* Closing a watcher keeps the types of what it changes.                   *)
LEMMA CloseWatcherType ==
  ASSUME TypeOK, NEW q \in Platforms, CloseWatcher(q)
  PROVE  watch' \in WatchTypes /\ prep' \in PrepTypes
<1>1. watch \in WatchTypes /\ prep \in PrepTypes BY DEF TypeOK, StateOK
<1>2. watch' \in WatchTypes BY <1>1 DEF CloseWatcher, WatchTypes
<1>3. prep' \in PrepTypes BY <1>1 DEF CloseWatcher, PrepTypes
<1> QED BY <1>2, <1>3

(* A link more keeps the chain a chain, and its first links as they were.  *)
LEMMA AddLinkType ==
  ASSUME chain \in ChainTypes, NEW devs \in SUBSET Devices,
         NEW platform \in Platforms \union {NoPlatform},
         NEW change \in 0 .. MaxChanges
  PROVE  /\ AddLink(chain.links, devs, platform, change) \in Seq(Links)
         /\ Len(AddLink(chain.links, devs, platform, change))
               = Len(chain.links) + 1
         /\ \A n \in 1 .. Len(chain.links) :
               AddLink(chain.links, devs, platform, change)[n] = chain.links[n]
<1>1. chain.links \in Seq(Links) BY DEF ChainTypes
<1>2. [devs |-> devs, platform |-> platform, change |-> change] \in Links
  BY DEF Links
<1> QED BY <1>1, <1>2, AppendProperties DEF AddLink

-----------------------------------------------------------------------------
(* The variables keep their types, and a device action has a device. *)

LEMMA StopLonelyType ==
  ASSUME TypeInv, NEW s \in StopCalls, StopLonely(s)
  PROVE  StateInv'
<1>1. stop[s] \in StopTypes /\ stop \in [StopCalls -> StopTypes] BY DEF TypeInv, TypeOK, StateOK
<1>2. PICK q \in stop[s].left :
        /\ Lonely(q, connected)
        /\ IF CloseThrows(q) THEN StopThrows(s)
           ELSE LET call == [stop[s] EXCEPT !.left = @ \ {q}]
                IN  /\ CloseWatcher(q)
                    /\ stop' = [stop EXCEPT ![s] =
                          IF \E p \in call.left : Lonely(p, connected)
                          THEN call ELSE AfterLonely(s, call, session.descs)]
                    /\ UNCHANGED <<session, stale>>
  BY DEF StopLonely
<1>3. q \in Platforms BY <1>1 DEF StopTypes
<1>4. UNCHANGED <<chain, act, run, handlers, connected, changes>>
  BY DEF StopLonely
<1>5. CASE CloseThrows(q)
  <2> StopThrows(s) BY <1>2, <1>5
  <2>1. stop' \in [StopCalls -> StopTypes]
    BY <1>1, StopAtType DEF StopThrows
  <2>2. UNCHANGED <<session, prep, watch>> BY DEF StopThrows
  <2> QED BY <1>4, <2>1, <2>2 DEF TypeInv, StateInv, TypeOK, StateOK, ChainInRange, ActHasDevice
<1>6. CASE ~CloseThrows(q)
  <2> DEFINE call == [stop[s] EXCEPT !.left = stop[s].left \ {q}]
  <2>1. call \in StopTypes BY <1>1 DEF StopTypes
  <2>2. /\ CloseWatcher(q) /\ UNCHANGED session
        /\ stop' = [stop EXCEPT ![s] =
                      IF \E p \in call.left : Lonely(p, connected)
                      THEN call ELSE AfterLonely(s, call, session.descs)]
    BY <1>2, <1>6
  <2> HIDE DEF call
  <2>3. AfterLonely(s, call, session.descs) \in StopTypes
    BY <2>1, AfterLonelyType DEF TypeInv
  <2>4. stop' \in [StopCalls -> StopTypes]
    BY <1>1, <2>1, <2>2, <2>3
  <2>5. watch' \in WatchTypes /\ prep' \in PrepTypes
    BY <1>3, <2>2, CloseWatcherType DEF TypeInv
  <2> QED BY <1>4, <2>2, <2>4, <2>5 DEF TypeInv, StateInv, TypeOK, StateOK, ChainInRange, ActHasDevice
<1> QED BY <1>5, <1>6

LEMMA StopClosingType ==
  ASSUME TypeInv, NEW s \in StopCalls, StopClosing(s)
  PROVE  StateInv'
<1>1. stop[s] \in StopTypes /\ stop \in [StopCalls -> StopTypes] BY DEF TypeInv, TypeOK, StateOK
<1>2. PICK q \in stop[s].left :
        IF CloseThrows(q) THEN StopThrows(s)
        ELSE /\ CloseWatcher(q)
             /\ IF stop[s].left = {q}
                THEN /\ session' = [session EXCEPT !.state = "stopped"]
                     /\ stale' = stale \union Naming(FirstPending, Devices)
                     /\ stop' = [stop EXCEPT ![s].at = "chain", ![s].left = {},
                          ![s].upto = IF Awaits(s) THEN Len(chain.links) ELSE 0]
                ELSE /\ stop' = [stop EXCEPT ![s].left = @ \ {q}]
                     /\ UNCHANGED <<session, stale>>
  BY DEF StopClosing
<1>3. q \in Platforms BY <1>1 DEF StopTypes
<1>4. UNCHANGED <<chain, act, run, handlers, connected, changes>>
  BY DEF StopClosing
<1>5. CASE CloseThrows(q)
  <2> StopThrows(s) BY <1>2, <1>5
  <2>1. stop' \in [StopCalls -> StopTypes]
    BY <1>1, StopAtType DEF StopThrows
  <2>2. UNCHANGED <<session, prep, watch>> BY DEF StopThrows
  <2> QED BY <1>4, <2>1, <2>2 DEF TypeInv, StateInv, TypeOK, StateOK, ChainInRange, ActHasDevice
<1>6. CASE ~CloseThrows(q)
  <2>1. watch' \in WatchTypes /\ prep' \in PrepTypes
    BY <1>2, <1>3, <1>6, CloseWatcherType DEF TypeInv
  <2>2. session \in SessionTypes BY DEF TypeInv, TypeOK, StateOK
  <2>3. Len(chain.links) \in Nat
    BY LenProperties DEF TypeInv, TypeOK, StateOK, ChainTypes
  <2>4. CASE stop[s].left = {q}
    <3> DEFINE upto == IF Awaits(s) THEN Len(chain.links) ELSE 0
               call == [stop[s] EXCEPT !.at = "chain", !.left = {}, !.upto = upto]
    <3>1. upto \in Nat BY <2>3
    <3>2. call \in StopTypes
      <4> HIDE DEF upto
      <4> QED BY <1>1, <3>1 DEF StopTypes
    <3>3. stop' = [stop EXCEPT ![s] = call]
      <4> HIDE DEF upto
      <4> QED BY <1>1, <1>2, <1>6, <2>4 DEF upto
    <3>4. session' \in SessionTypes
      BY <1>2, <1>6, <2>2, <2>4 DEF SessionTypes
    <3> HIDE DEF call
    <3>5. stop' \in [StopCalls -> StopTypes] BY <1>1, <3>2, <3>3
    <3> QED BY <1>4, <2>1, <3>4, <3>5
            DEF TypeInv, StateInv, TypeOK, StateOK, ChainInRange, ActHasDevice
  <2>5. CASE stop[s].left # {q}
    <3> DEFINE call == [stop[s] EXCEPT !.left = stop[s].left \ {q}]
    <3>1. call \in StopTypes BY <1>1 DEF StopTypes
    <3>2. stop' = [stop EXCEPT ![s] = call] /\ UNCHANGED session
      BY <1>1, <1>2, <1>6, <2>5
    <3> HIDE DEF call
    <3>3. stop' \in [StopCalls -> StopTypes] BY <1>1, <3>1, <3>2
    <3> QED BY <1>4, <2>1, <3>2, <3>3
            DEF TypeInv, StateInv, TypeOK, StateOK, ChainInRange, ActHasDevice
  <2> QED BY <2>4, <2>5
<1> QED BY <1>5, <1>6

LEMMA StopType ==
  ASSUME TypeInv, NEW s \in StopCalls,
         UserStop(s) \/ StopLonely(s) \/ StopClosing(s) \/ StopChain(s)
                     \/ StopReturns(s)
  PROVE  StateInv'
<1>1. stop[s] \in StopTypes /\ stop \in [StopCalls -> StopTypes] BY DEF TypeInv, TypeOK, StateOK
<1>2. CASE UserStop(s)
  <2>1. StopPart' BY <1>2, BeginStopType DEF UserStop, TypeInv
  <2>2. UNCHANGED <<chain, act, prep, watch, run, handlers, connected, changes>>
    BY <1>2 DEF UserStop
  <2> QED BY <2>1, <2>2 DEF StopPart, TypeInv, StateInv, TypeOK, StateOK, ChainInRange, ActHasDevice
<1>3. CASE StopLonely(s) BY <1>3, StopLonelyType
<1>4. CASE StopClosing(s) BY <1>4, StopClosingType
<1>5. CASE StopChain(s)
  <2>1. stop' \in [StopCalls -> StopTypes]
    <3>2. [stop EXCEPT ![s].at = "hooks"] \in [StopCalls -> StopTypes]
      BY <1>1, StopAtType
    <3>3. [stop EXCEPT ![s].at = "failed"] \in [StopCalls -> StopTypes]
      BY <1>1, StopAtType
    <3>1. \/ stop' = [stop EXCEPT ![s].at = "hooks"]
          \/ stop' = [stop EXCEPT ![s].at = "failed"]
      BY <1>5 DEF StopChain
    <3> QED BY <3>1, <3>2, <3>3
  <2>2. session' \in SessionTypes
    BY <1>5 DEF StopChain, TypeInv, TypeOK, StateOK, SessionTypes
  <2>3. handlers' \in [ready : BOOLEAN, lost : BOOLEAN]
    BY <1>5 DEF StopChain, TypeInv, TypeOK, StateOK
  <2>4. UNCHANGED <<chain, act, prep, watch, run, connected, changes>>
    BY <1>5 DEF StopChain
  <2> QED BY <2>1, <2>2, <2>3, <2>4
          DEF TypeInv, StateInv, TypeOK, StateOK, ChainInRange, ActHasDevice
<1>6. CASE StopReturns(s)
  <2>1. stop' \in [StopCalls -> StopTypes]
    <3>2. [stop EXCEPT ![s].at = "done"] \in [StopCalls -> StopTypes]
      BY <1>1, StopAtType
    <3>3. [stop EXCEPT ![s].at = "failed"] \in [StopCalls -> StopTypes]
      BY <1>1, StopAtType
    <3>1. \/ stop' = [stop EXCEPT ![s].at = "done"]
          \/ stop' = [stop EXCEPT ![s].at = "failed"]
      BY <1>6 DEF StopReturns, EmitStopped
    <3> QED BY <3>1, <3>2, <3>3
  <2>2. UNCHANGED <<session, chain, act, prep, watch, run, handlers, connected,
                    changes>>
    BY <1>6 DEF StopReturns
  <2> QED BY <2>1, <2>2 DEF TypeInv, StateInv, TypeOK, StateOK, ChainInRange, ActHasDevice
<1> QED BY <1>2, <1>3, <1>4, <1>5, <1>6

(* Only the chain grows, by the link of a call of run() or of a change.    *)
LEMMA GrowType ==
  ASSUME TypeInv, NEW devs \in SUBSET Devices,
         NEW platform \in Platforms \union {NoPlatform},
         NEW change \in 0 .. MaxChanges, NEW current \in Nat,
         chain' = [chain EXCEPT !.current = current,
                     !.links = AddLink(chain.links, devs, platform, change)],
         UNCHANGED act
  PROVE  chain' \in ChainTypes /\ ChainInRange'
<1>1. chain \in ChainTypes /\ ChainInRange BY DEF TypeInv, TypeOK, StateOK
<1> DEFINE links == AddLink(chain.links, devs, platform, change)
<1>2. links \in Seq(Links) /\ Len(links) = Len(chain.links) + 1
  BY <1>1, AddLinkType
<1>3. Len(chain.links) \in Nat /\ chain.settled \in Nat
  BY <1>1, LenProperties DEF ChainTypes
<1> HIDE DEF links
<1>4. chain' \in ChainTypes BY <1>1, <1>2 DEF ChainTypes, links
<1>5. /\ chain'.links = links /\ chain'.settled = chain.settled
      /\ chain'.running = chain.running
  BY <1>1 DEF ChainTypes, links
<1> QED BY <1>1, <1>2, <1>3, <1>4, <1>5 DEF ChainInRange

LEMMA RunStartType ==
  ASSUME TypeInv, NEW r \in Runs, RunStart(r)
  PROVE  StateInv'
<1> DEFINE devs == run[r].devs
<1>1. /\ run[r] \in RunTypes /\ run \in [Runs -> RunTypes]
      /\ session \in SessionTypes /\ chain \in ChainTypes
  BY DEF TypeInv, TypeOK, StateOK
<1>2. devs \in SUBSET Devices BY <1>1 DEF RunTypes
<1>3. InitialSyncFor(devs) \in SUBSET Devices
  BY <1>2 DEF InitialSyncFor
<1>4. Len(chain.links) \in Nat BY <1>1, LenProperties DEF ChainTypes
<1>5. AllPlatforms(devs) \subseteq Platforms
  BY <1>1, <1>2 DEF AllPlatforms, SessionTypes
<1>6. Join(r, TRUE) BY DEF RunStart
<1>7. session' \in SessionTypes
  BY <1>1, <1>2, <1>5, <1>6 DEF Join, SessionTypes
<1>8. chain' \in ChainTypes /\ ChainInRange'
  <2>1. /\ chain' = [chain EXCEPT !.current = Len(chain.links),
           !.links = AddLink(chain.links, InitialSyncFor(devs), NoPlatform, 0)]
        /\ UNCHANGED act
    BY <1>6 DEF Join
  <2>2. 0 \in 0 .. MaxChanges OBVIOUS
  <2> DEFINE initial == InitialSyncFor(devs)
  <2>3. initial \in SUBSET Devices BY <1>3
  <2> HIDE DEF initial
  <2> QED BY <1>4, <2>1, <2>2, <2>3, GrowType DEF initial
<1>9. run' \in [Runs -> RunTypes]
  <2> DEFINE next == Len(chain.links) + 1
             call == [run[r] EXCEPT !.at = "queued", !.link = next]
  <2>1. call \in RunTypes
    <3>1. next \in Nat BY <1>4
    <3> HIDE DEF next
    <3> QED BY <1>1, <3>1 DEF RunTypes
  <2>2. run' = [run EXCEPT ![r] = call] BY <1>1, <1>6 DEF Join
  <2> HIDE DEF call
  <2> QED BY <1>1, <2>1, <2>2
<1>10. /\ handlers' \in [ready : BOOLEAN, lost : BOOLEAN]
       /\ UNCHANGED <<act, prep, watch, stop, connected, changes>>
  BY <1>6 DEF Join, TypeInv, TypeOK, StateOK
<1> QED BY <1>7, <1>8, <1>9, <1>10 DEF TypeInv, StateInv, TypeOK, StateOK, ActHasDevice

LEMMA RunType ==
  ASSUME TypeInv, NEW r \in Runs,
         RunCall(r) \/ RunFails(r) \/ RunStart(r) \/ RunReturns(r)
  PROVE  StateInv'
<1>1. run[r] \in RunTypes /\ run \in [Runs -> RunTypes] BY DEF TypeInv, TypeOK, StateOK
<1>2. CASE RunStart(r) BY <1>2, RunStartType
<1>3. CASE RunCall(r) \/ RunFails(r) \/ RunReturns(r)
  <2>1. run' \in [Runs -> RunTypes]
    BY <1>1, <1>3 DEF RunCall, RunFails, RunReturns, RunTypes
  <2>2. handlers' \in [ready : BOOLEAN, lost : BOOLEAN]
    BY <1>3 DEF RunCall, RunFails, RunReturns, TypeInv, TypeOK, StateOK
  <2>3. UNCHANGED <<session, chain, act, prep, watch, stop, connected, changes>>
    BY <1>3 DEF RunCall, RunFails, RunReturns
  <2> QED BY <2>1, <2>2, <2>3 DEF TypeInv, StateInv, TypeOK, StateOK, ChainInRange, ActHasDevice
<1> QED BY <1>2, <1>3

LEMMA ChangeType ==
  ASSUME TypeInv, NEW q \in Platforms,
         ChangeReported(q) \/ \E c \in Changes : NativeChecked(c, q)
  PROVE  StateInv'
<1> USE DEF calls
<1>1. chain \in ChainTypes /\ changes \in ChangesTypes BY DEF TypeInv, TypeOK, StateOK
<1>2. chain.current \in Nat /\ {} \in SUBSET Devices BY <1>1 DEF ChainTypes
<1>3. ASSUME NEW c \in 0 .. MaxChanges, UNCHANGED act,
             \/ chain' = [chain EXCEPT !.links = AddLink(chain.links, {}, q, c)]
             \/ UNCHANGED chain
      PROVE  chain' \in ChainTypes /\ ChainInRange'
  <2>1. CASE UNCHANGED chain
    BY <1>1, <1>3, <2>1 DEF TypeInv, TypeOK, StateOK, ChainInRange
  <2>2. CASE chain' = [chain EXCEPT !.links = AddLink(chain.links, {}, q, c)]
    <3> DEFINE links == AddLink(chain.links, {}, q, c)
    <3> HIDE DEF links
    <3>1. chain' = [chain EXCEPT !.current = chain.current, !.links = links]
      BY <1>1, <2>2 DEF ChainTypes, links
    <3> QED BY <1>2, <1>3, <3>1, GrowType DEF links
  <2> QED BY <1>3, <2>1, <2>2
<1>4. CASE ChangeReported(q)
  <2> DEFINE c == changes.seen + 1
  <2>1. c \in Changes /\ c \in 0 .. MaxChanges
    BY <1>1, <1>4 DEF ChangeReported, ReportChange, ChangesTypes, Changes
  <2>3. UNCHANGED <<session, act, prep, watch, calls, handlers, connected>>
    BY <1>4 DEF ChangeReported, ReportChange
  <2>4. \/ chain' = [chain EXCEPT !.links = AddLink(chain.links, {}, q, c)]
        \/ UNCHANGED chain
    BY <1>4 DEF ChangeReported, ReportChange, HandleChange
  <2>5. \/ changes' = [changes EXCEPT !.seen = c]
        \/ changes' = [seen |-> c, checking |-> changes.checking \union {<<c, q>>}]
    BY <1>4 DEF ChangeReported, ReportChange, HandleChange
  <2> HIDE DEF c
  <2>6. changes' \in ChangesTypes BY <1>1, <2>1, <2>5 DEF ChangesTypes
  <2>7. chain' \in ChainTypes /\ ChainInRange' BY <1>3, <2>1, <2>3, <2>4
  <2> QED BY <2>3, <2>6, <2>7 DEF TypeInv, StateInv, TypeOK, StateOK, ActHasDevice
<1>5. ASSUME NEW c \in Changes, NativeChecked(c, q) PROVE StateInv'
  <2>1. c \in 0 .. MaxChanges BY DEF Changes
  <2>2. /\ UNCHANGED <<session, act, prep, watch, calls, handlers, connected>>
        /\ changes' = [changes EXCEPT !.checking = changes.checking \ {<<c, q>>}]
    BY <1>5 DEF NativeChecked
  <2>3. \/ chain' = [chain EXCEPT !.links = AddLink(chain.links, {}, q, c)]
        \/ UNCHANGED chain
    BY <1>5 DEF NativeChecked
  <2>4. changes' \in ChangesTypes BY <1>1, <2>2 DEF ChangesTypes
  <2>5. chain' \in ChainTypes /\ ChainInRange' BY <1>3, <2>1, <2>2, <2>3
  <2> QED BY <2>2, <2>4, <2>5 DEF TypeInv, StateInv, TypeOK, StateOK, ActHasDevice
<1> QED BY <1>4, <1>5

LEMMA LinkType ==
  ASSUME TypeInv,
         LinkStep
  PROVE  StateInv'
<1> USE DEF calls
<1>1. /\ chain \in ChainTypes /\ act \in ActTypes /\ prep \in PrepTypes
      /\ stop \in [StopCalls -> StopTypes]
      /\ Len(chain.links) \in Nat /\ connected \subseteq Devices
  BY LenProperties DEF TypeInv, TypeOK, StateOK, ChainTypes
<1>2. CASE SkipLink \/ StartLink \/ EndLink
  <2>1. act' \in ActTypes /\ act'.dev = act.dev /\ act'.at = act.at
    BY <1>1, <1>2 DEF SkipLink, StartLink, EndLink, ActTypes
  <2>2. /\ chain.settled \in Nat /\ chain.links \in Seq(Links)
        /\ chain.settled < Len(chain.links)
        /\ ChainInRange
    BY <1>1, <1>2 DEF SkipLink, StartLink, EndLink, NextLinkIsDue, ChainTypes,
       ChainInRange, TypeInv, TypeOK, StateOK
  <2>3. chain' \in ChainTypes /\ ChainInRange'
    <3> DEFINE n == chain.settled + 1
    <3>0. n \in Nat /\ n <= Len(chain.links) BY <1>1, <2>2
    <3> HIDE DEF n
    <3>1. CASE SkipLink
      <4>1. chain' = [chain EXCEPT !.settled = n] /\ ~chain.running
        BY <3>1 DEF SkipLink, NextLinkIsDue, n
      <4>2. chain' \in ChainTypes BY <1>1, <3>0, <4>1 DEF ChainTypes
      <4> QED BY <1>1, <2>1, <2>2, <3>0, <4>1, <4>2 DEF ChainInRange, ChainTypes
    <3>2. CASE StartLink
      <4>1. chain' = [chain EXCEPT !.running = TRUE, !.current = n]
        BY <3>2 DEF StartLink, n
      <4>2. chain' \in ChainTypes BY <1>1, <3>0, <4>1 DEF ChainTypes
      <4> QED BY <1>1, <2>1, <2>2, <4>1, <4>2 DEF ChainInRange, ChainTypes
    <3>3. CASE EndLink
      <4>1. \/ chain' = [chain EXCEPT !.running = FALSE, !.broken = TRUE]
            \/ chain' = [chain EXCEPT !.running = FALSE, !.settled = n]
        BY <3>3 DEF EndLink, n
      <4>2. chain' \in ChainTypes BY <1>1, <3>0, <4>1 DEF ChainTypes
      <4>3. act.dev = NoDevice BY <3>3 DEF EndLink
      <4>4. /\ chain'.links = chain.links /\ chain'.running = FALSE
            /\ chain'.settled = chain.settled \/ chain'.settled = n
        BY <1>1, <4>1 DEF ChainTypes
      <4>5. chain'.settled <= Len(chain'.links)
        BY <2>2, <3>0, <4>4 DEF ChainInRange
      <4> QED BY <2>1, <4>2, <4>3, <4>4, <4>5 DEF ChainInRange, ChainTypes
    <3> QED BY <1>2, <3>1, <3>2, <3>3
  <2>4. UNCHANGED <<session, prep, watch, calls, handlers, connected, changes>>
    BY <1>2 DEF SkipLink, StartLink, EndLink
  <2> QED BY <2>1, <2>2, <2>3, <2>4 DEF TypeInv, StateInv, TypeOK, StateOK, ActHasDevice
<1>3. ASSUME NEW d \in Devices, VisitDevice(d) PROVE StateInv'
  <2>1. act' = [act EXCEPT !.todo = act.todo \ {d}, !.dev = d,
                           !.at = IF Initial THEN "install" ELSE "sync"]
    BY <1>3 DEF VisitDevice
  <2>2. act' \in ActTypes /\ act'.dev = d
    BY <1>1, <2>1 DEF ActTypes
  <2>3. prep' \in PrepTypes BY <1>1, <1>3 DEF VisitDevice, PrepTypes
  <2>4. chain.running /\ d # NoDevice BY <1>3 DEF VisitDevice
  <2>5. UNCHANGED <<session, chain, watch, calls, handlers, connected, changes>>
    BY <1>3 DEF VisitDevice
  <2> QED BY <2>2, <2>3, <2>4, <2>5 DEF TypeInv, StateInv, TypeOK, StateOK, ChainInRange, ActHasDevice
<1>4. CASE StartTransfer
  <2>1. act' \in ActTypes /\ act'.dev = act.dev /\ act.at = "install"
    BY <1>1, <1>4 DEF StartTransfer, ActTypes
  <2>2. UNCHANGED <<session, chain, prep, watch, calls, handlers, connected,
                    changes>>
    BY <1>4 DEF StartTransfer
  <2> QED BY <2>1, <2>2 DEF TypeInv, StateInv, TypeOK, StateOK, ChainInRange, ActHasDevice
<1>5. CASE DeviceSynced
  <2>1. act' \in ActTypes /\ act'.dev = NoDevice /\ act'.at = "none"
    BY <1>1, <1>5 DEF DeviceSynced, ActTypes
  <2>2. UNCHANGED <<session, chain, prep, watch, calls, handlers, connected,
                    changes>>
    BY <1>5 DEF DeviceSynced
  <2> QED BY <2>1, <2>2 DEF TypeInv, StateInv, TypeOK, StateOK, ChainInRange, ActHasDevice
<1>6. CASE DeviceFails
  <2>1. act' \in ActTypes /\ act'.dev = act.dev /\ act.at # "none"
    BY <1>1, <1>6 DEF DeviceFails, ActTypes
  <2>2. InAction \in StopCalls BY DEF StopCalls
  <2>3. BeginStop(InAction, {act.dev}, connected) BY <1>6 DEF DeviceFails
  <2>4. StopPart' BY <2>2, <2>3, BeginStopType DEF TypeInv
  <2>5. UNCHANGED <<chain, prep, watch, run, handlers, connected, changes>>
    BY <1>6 DEF DeviceFails
  <2> QED BY <2>1, <2>4, <2>5
          DEF StopPart, TypeInv, StateInv, TypeOK, StateOK, ChainInRange, ActHasDevice
<1>7. CASE DeviceStopped
  <2>1. act' \in ActTypes /\ act'.dev = NoDevice /\ act'.at = "none"
    BY <1>1, <1>7 DEF DeviceStopped, ActTypes
  <2>2. NoStop \in StopTypes BY DEF NoStop, StopTypes
  <2>3. stop' \in [StopCalls -> StopTypes]
    BY <1>1, <1>7, <2>2 DEF DeviceStopped
  <2>4. UNCHANGED <<session, chain, prep, watch, run, handlers, connected,
                    changes>>
    BY <1>7 DEF DeviceStopped
  <2> QED BY <2>1, <2>3, <2>4 DEF TypeInv, StateInv, TypeOK, StateOK, ChainInRange, ActHasDevice
<1> QED BY <1>2, <1>3, <1>4, <1>5, <1>6, <1>7 DEF LinkStep

LEMMA WebpackType ==
  ASSUME TypeInv, WebpackStep
  PROVE  StateInv'
<1> USE DEF calls, WebpackStep, StartWatcher, SpawnWebpack, FirstCompilation,
            PrepareEnds, PrepareFails, PrepareStep, WebpackDies
<1>1. prep \in PrepTypes /\ watch \in WatchTypes BY DEF TypeInv, TypeOK, StateOK
<1>2. prep' \in PrepTypes BY <1>1 DEF PrepTypes
<1>3. watch' \in WatchTypes BY <1>1 DEF WatchTypes
<1>4. UNCHANGED <<session, chain, act, calls, handlers, connected, changes>>
  OBVIOUS
<1> QED BY <1>2, <1>3, <1>4
        DEF TypeInv, StateInv, TypeOK, StateOK, ChainInRange, ActHasDevice

LEMMA DeviceLostType ==
  ASSUME TypeInv, NEW d \in Devices, DeviceLost(d)
  PROVE  StateInv'
<1>1. UNCHANGED <<chain, act, prep, watch, run, handlers, changes>>
  BY DEF DeviceLost
<1>2. connected' \subseteq Devices BY DEF DeviceLost, TypeInv, TypeOK, StateOK
<1>3. StopPart'
  <2>1. CASE handlers.lost /\ d \in session.descs
    BY <2>1, BeginStopType DEF DeviceLost, StopCalls, TypeInv
  <2>2. CASE ~(handlers.lost /\ d \in session.descs)
    BY <2>2 DEF DeviceLost, StopPart, TypeInv, TypeOK, StateOK
  <2> QED BY <2>1, <2>2
<1> QED BY <1>1, <1>2, <1>3 DEF StopPart, TypeInv, StateInv, TypeOK, StateOK, ChainInRange, ActHasDevice

LEMMA InitType == Init => TypeInv
<1> SUFFICES ASSUME Init PROVE TypeInv OBVIOUS
<1>1. chain \in ChainTypes /\ ChainInRange
  BY DEF Init, ChainTypes, ChainInRange
<1>2. stop \in [StopCalls -> StopTypes]
  <2>1. NoStop \in StopTypes BY DEF NoStop, StopTypes
  <2> QED BY <2>1 DEF Init
<1>3. run \in [Runs -> RunTypes] BY DEF Init, RunTypes
<1>4. session \in SessionTypes /\ act \in ActTypes /\ prep \in PrepTypes
  BY DEF Init, SessionTypes, ActTypes, PrepTypes
<1>5. watch \in WatchTypes /\ changes \in ChangesTypes
  BY DEF Init, WatchTypes, ChangesTypes
<1>6. HistoryOK BY DEF Init, HistoryOK
<1>7. PrepareHasPlatform BY DEF Init, PrepareHasPlatform, PreparePending
<1> QED BY <1>1, <1>2, <1>3, <1>4, <1>5, <1>6, <1>7
        DEF Init, TypeInv, TypeOK, StateOK, ActHasDevice

LEMMA NextStateType == TypeInv /\ [Next]_vars => StateInv'
<1> SUFFICES ASSUME TypeInv, [Next]_vars PROVE StateInv' OBVIOUS
<1>1. CASE Next
  <2>1. ASSUME NEW s \in StopCalls,
               \/ StopLonely(s) \/ StopClosing(s) \/ StopChain(s)
               \/ StopReturns(s)
        PROVE  StateInv'
    BY <2>1, StopType
  <2>2. ASSUME NEW s \in UserStops, UserStop(s) PROVE StateInv'
    BY <2>2, StopType DEF StopCalls
  <2>3. ASSUME NEW r \in Runs,
               RunCall(r) \/ RunFails(r) \/ RunStart(r) \/ RunReturns(r)
        PROVE  StateInv'
    BY <2>3, RunType
  <2>4. ASSUME NEW q \in Platforms, NEW c \in Changes, NativeChecked(c, q)
        PROVE  StateInv'
    BY <2>4, ChangeType
  <2>5. ASSUME NEW q \in Platforms, ChangeReported(q) PROVE StateInv'
    BY <2>5, ChangeType
  <2>6. CASE LinkStep BY <2>6, LinkType
  <2>7. CASE WebpackStep BY <2>7, WebpackType
  <2>8. ASSUME NEW d \in Devices, DeviceLost(d) PROVE StateInv'
    BY <2>8, DeviceLostType
  <2> QED
    BY <1>1, <2>1, <2>2, <2>3, <2>4, <2>5, <2>6, <2>7, <2>8
       DEF Next, System, Environment, LinkStep, WebpackStep
<1>2. CASE UNCHANGED vars
  BY <1>2 DEF vars, calls, TypeInv, StateInv, TypeOK, StateOK, ChainInRange,
              ActHasDevice
<1> QED BY <1>1, <1>2

-----------------------------------------------------------------------------
(* So do those that remember what happened. *)

(* Of the links and devices a stop() finds, those queued are among those   *)
(* that are not over.                                                      *)
LEMMA NamingType ==
  ASSUME TypeInv, NEW devices \in SUBSET Devices
  PROVE  /\ Naming(FirstPending, devices) \subseteq Nat \X Devices
         /\ Naming(FirstQueued, devices) \subseteq Naming(FirstPending, devices)
<1>1. chain.settled \in Nat BY DEF TypeInv, TypeOK, StateOK, ChainTypes
<1>2. FirstPending \in Nat /\ FirstQueued \in Nat /\ FirstPending <= FirstQueued
  BY <1>1 DEF FirstPending, FirstQueued
<1>3. Len(chain.links) \in Nat
  BY LenProperties DEF TypeInv, TypeOK, StateOK, ChainTypes
<1> HIDE DEF FirstPending, FirstQueued
<1> QED BY <1>2, <1>3 DEF Naming

LEMMA BeginStopHistory ==
  ASSUME TypeInv, NEW s \in StopCalls, NEW ids, NEW devices,
         BeginStop(s, ids, devices), UNCHANGED <<told, escaped>>,
         skipped' \subseteq Devices, orphaned' \in BOOLEAN
  PROVE  HistoryOK'
<1> USE DEF TypeInv, TypeOK, HistoryOK
<1> DEFINE removed == IF ids = {} THEN session.descs
                                  ELSE session.descs \intersect ids
<1>1. removed \in SUBSET Devices BY DEF StateOK, SessionTypes
<1>2. CASE session.state = "live"
  <2>1. /\ gone' = [gone EXCEPT ![s] = removed]
        /\ stale' = stale \union Naming(FirstPending, removed)
        /\ overtaken' = overtaken \union Naming(FirstQueued, removed)
        /\ deployed' = deployed \ removed
        /\ missing' = {m \in missing : m[1] \notin removed}
    BY <1>2 DEF BeginStop
  <2> HIDE DEF removed
  <2>2. /\ Naming(FirstPending, removed) \subseteq Nat \X Devices
        /\ Naming(FirstQueued, removed) \subseteq Naming(FirstPending, removed)
    BY <1>1, NamingType
  <2>3. gone' \in [StopCalls -> SUBSET Devices] BY <1>1, <2>1
  <2>4. stale' \subseteq Nat \X Devices /\ overtaken' \subseteq stale'
    BY <2>1, <2>2
  <2>5. deployed' \subseteq Devices /\ missing' \subseteq Devices \X Changes
    BY <2>1
  <2> QED BY <2>3, <2>4, <2>5
<1>3. CASE session.state # "live" BY <1>3 DEF BeginStop, taken
<1> QED BY <1>2, <1>3

LEMMA HistoryType == TypeInv /\ [Next]_vars => HistoryOK'
<1> SUFFICES ASSUME TypeInv, [Next]_vars PROVE HistoryOK' OBVIOUS
<1> USE DEF TypeInv, TypeOK, HistoryOK
<1>1. CASE UNCHANGED history BY <1>1 DEF history, taken
<1>2. ASSUME NEW s \in UserStops, UserStop(s) PROVE HistoryOK'
  <2>1. PICK ids \in SUBSET Devices : BeginStop(s, ids, connected)
    BY <1>2 DEF UserStop
  <2>2. s \in StopCalls /\ UNCHANGED <<told, skipped, escaped, orphaned>>
    BY <1>2 DEF UserStop, StopCalls
  <2> QED BY <2>1, <2>2, BeginStopHistory
<1>3. ASSUME NEW d \in Devices, DeviceLost(d) PROVE HistoryOK'
  <2>1. d \in StopCalls /\ UNCHANGED <<told, skipped, escaped, orphaned>>
    BY <1>3 DEF DeviceLost, StopCalls
  <2>2. CASE handlers.lost /\ d \in session.descs
    <3> BeginStop(d, {d}, connected') BY <1>3, <2>2 DEF DeviceLost
    <3> QED BY <2>1, BeginStopHistory
  <2>3. CASE ~(handlers.lost /\ d \in session.descs)
    <3> UNCHANGED history BY <1>3, <2>1, <2>3 DEF DeviceLost, history
    <3> QED BY <1>1
  <2> QED BY <2>2, <2>3
<1>4. CASE DeviceFails
  <2>1. /\ BeginStop(InAction, {act.dev}, connected) /\ UNCHANGED <<told, escaped>>
        /\ skipped' \subseteq skipped \union {act.dev} /\ orphaned' \in BOOLEAN
        /\ act.at # "none"
    BY <1>4 DEF DeviceFails, PreparePending
  <2>2. act.dev \in Devices BY <2>1 DEF ActHasDevice, StateOK, ActTypes
  <2>3. InAction \in StopCalls /\ skipped' \subseteq Devices
    BY <2>1, <2>2 DEF StopCalls
  <2> QED BY <2>1, <2>3, BeginStopHistory
<1>5. ASSUME NEW s \in StopCalls, StopLonely(s) PROVE HistoryOK'
  <2> /\ UNCHANGED <<told, gone, stale, overtaken, deployed, skipped, missing,
                     orphaned>>
      /\ escaped' \subseteq escaped
    BY <1>5 DEF StopLonely, StopThrows, CloseWatcher
  <2> QED OBVIOUS
<1>6. ASSUME NEW s \in StopCalls, StopClosing(s) PROVE HistoryOK'
  <2>1. /\ UNCHANGED <<told, gone, overtaken, deployed, skipped, missing, orphaned>>
        /\ escaped' \subseteq escaped
        /\ stale' = stale \/ stale' = stale \union Naming(FirstPending, Devices)
    BY <1>6 DEF StopClosing, StopThrows, CloseWatcher
  <2>2. Naming(FirstPending, Devices) \subseteq Nat \X Devices
    BY NamingType
  <2> QED BY <2>1, <2>2
<1>7. ASSUME NEW s \in StopCalls, StopChain(s) PROVE HistoryOK'
  <2>1. /\ UNCHANGED <<told, gone, overtaken, skipped, escaped, orphaned>>
        /\ stale' = stale \/ stale' = stale \union Naming(FirstPending, session.descs)
        /\ deployed' \subseteq deployed /\ missing' \subseteq missing
    BY <1>7 DEF StopChain
  <2>2. Naming(FirstPending, session.descs) \subseteq Nat \X Devices
    BY NamingType DEF StateOK, SessionTypes
  <2> QED BY <2>1, <2>2
<1>8. ASSUME NEW s \in StopCalls, StopReturns(s) PROVE HistoryOK'
  BY <1>8 DEF StopReturns, EmitStopped, taken
<1>9. ASSUME NEW r \in Runs, RunStart(r) PROVE HistoryOK'
  BY <1>9 DEF RunStart, Join
<1>10. ASSUME NEW q \in Platforms, ChangeReported(q) PROVE HistoryOK'
  <2> DEFINE c == changes.seen + 1
             behind == {d \in deployed \intersect session.descs : PlatformOf[d] = q}
  <2>1. c \in Changes
    BY <1>10 DEF ChangeReported, ReportChange, StateOK, ChangesTypes, Changes
  <2>2. /\ missing' = missing \union (behind \X {c})
        /\ UNCHANGED <<told, gone, stale, overtaken, deployed, skipped, escaped,
                       orphaned>>
    BY <1>10 DEF ChangeReported, ReportChange
  <2> QED BY <2>1, <2>2
<1>11. ASSUME NEW q \in Platforms, NEW c \in Changes, NativeChecked(c, q)
       PROVE  HistoryOK'
  BY <1>11 DEF NativeChecked
<1>12. CASE SkipLink
  <2> skipped' \subseteq Devices
    <3>1. NextLinkIsDue /\ skipped' = skipped \union Link.devs BY <1>12 DEF SkipLink
    <3>2. Link \in Links
      BY <3>1 DEF NextLinkIsDue, Link, StateOK, ChainTypes
    <3> QED BY <3>1, <3>2 DEF Links
  <2> QED BY <1>12 DEF SkipLink, taken
<1>13. ASSUME NEW d \in Devices, VisitDevice(d) PROVE HistoryOK'
  BY <1>13 DEF VisitDevice, taken
<1>14. CASE DeviceSynced
  <2> act.dev \in Devices BY <1>14 DEF DeviceSynced, ActHasDevice, StateOK, ActTypes
  <2> QED BY <1>14 DEF DeviceSynced
<1>15. CASE StartWatcher
  <2>1. /\ UNCHANGED <<told, taken, skipped, orphaned>>
        /\ PreparePending
        /\ \/ watch[prep.platform] = "off" /\ escaped' \subseteq escaped \union {prep.platform}
           \/ escaped' = escaped
    BY <1>15 DEF StartWatcher, PrepareStep, PreparePending
  <2> QED BY <2>1 DEF taken, StateOK, PrepTypes, PrepareHasPlatform
<1>16. ASSUME NEW q \in Platforms, WebpackDies(q) PROVE HistoryOK'
  BY <1>1, <1>16 DEF WebpackDies
<1>17. SpawnWebpack \/ FirstCompilation \/ PrepareEnds \/ PrepareFails
          => UNCHANGED history
  BY DEF SpawnWebpack, FirstCompilation, PrepareEnds, PrepareFails, PrepareStep,
         history
<1>18. StartLink \/ EndLink \/ StartTransfer \/ DeviceStopped
          => UNCHANGED history
  BY DEF StartLink, EndLink, StartTransfer, DeviceStopped
<1>19. ASSUME NEW r \in Runs, RunCall(r) \/ RunFails(r) \/ RunReturns(r)
       PROVE  UNCHANGED history
  BY <1>19 DEF RunCall, RunFails, RunReturns
<1>20. UNCHANGED vars => UNCHANGED history BY DEF vars
<1> HIDE DEF TypeInv, TypeOK, HistoryOK
<1> QED
  BY <1>1, <1>2, <1>3, <1>4, <1>5, <1>6, <1>7, <1>8, <1>9, <1>10, <1>11, <1>12,
     <1>13, <1>14, <1>15, <1>16, <1>17, <1>18, <1>19, <1>20
     DEF Next, System, Environment

LEMMA PlatformType == TypeInv /\ [Next]_vars => PrepareHasPlatform'
<1> SUFFICES ASSUME TypeInv, [Next]_vars PROVE PrepareHasPlatform' OBVIOUS
<1> USE DEF PrepareHasPlatform, PreparePending
<1>1. prep \in PrepTypes /\ PrepareHasPlatform BY DEF TypeInv, TypeOK, StateOK
<1>2. CASE UNCHANGED prep BY <1>1, <1>2
<1>3. ASSUME NEW q, CloseWatcher(q) PROVE PrepareHasPlatform'
  BY <1>1, <1>3 DEF CloseWatcher, PrepTypes
<1>4. ASSUME NEW s \in StopCalls, StopLonely(s) \/ StopClosing(s)
      PROVE  UNCHANGED prep \/ \E q \in stop[s].left : CloseWatcher(q)
  BY <1>4 DEF StopLonely, StopClosing, StopThrows
<1>5. ASSUME NEW d \in Devices, VisitDevice(d) PROVE PrepareHasPlatform'
  BY <1>1, <1>5 DEF VisitDevice
<1>6. CASE WebpackStep
  BY <1>1, <1>6 DEF WebpackStep, StartWatcher, SpawnWebpack, FirstCompilation,
     PrepareEnds, PrepareFails, PrepareStep, WebpackDies, PrepTypes
<1>7. SkipLink \/ StartLink \/ EndLink \/ StartTransfer \/ DeviceSynced
         \/ DeviceFails \/ DeviceStopped \/ UNCHANGED vars
      => UNCHANGED prep
  BY DEF SkipLink, StartLink, EndLink, StartTransfer, DeviceSynced, DeviceFails,
         DeviceStopped, vars
<1>8. ASSUME NEW s, UserStop(s) \/ StopChain(s) \/ StopReturns(s) \/ DeviceLost(s)
      PROVE  UNCHANGED prep
  BY <1>8 DEF UserStop, StopChain, StopReturns, DeviceLost
<1>9. ASSUME NEW r, RunCall(r) \/ RunFails(r) \/ RunStart(r) \/ RunReturns(r)
      PROVE  UNCHANGED prep
  BY <1>9 DEF RunCall, RunFails, RunStart, Join, RunReturns
<1>10. ASSUME NEW q, ChangeReported(q) \/ \E c \in Changes : NativeChecked(c, q)
       PROVE  UNCHANGED prep
  BY <1>10 DEF ChangeReported, ReportChange, NativeChecked
<1> HIDE DEF PrepareHasPlatform, PreparePending
<1> QED BY <1>2, <1>3, <1>4, <1>5, <1>6, <1>7, <1>8, <1>9, <1>10
        DEF Next, System, Environment, WebpackStep

LEMMA NextType == TypeInv /\ [Next]_vars => TypeInv'
BY NextStateType, HistoryType, PlatformType DEF TypeInv, StateInv, TypeOK

(* Every reachable state is of its type.                                   *)
THEOREM TypeCorrect == Spec => []TypeOK
<1>1. Init => TypeInv BY InitType
<1>2. TypeInv /\ [Next]_vars => TypeInv' BY NextType
<1>3. TypeInv => TypeOK BY DEF TypeInv
<1> QED BY <1>1, <1>2, <1>3, PTL DEF Spec

-----------------------------------------------------------------------------
(* The watchers stop() closes are those of the devices of the LiveSync. *)

(* Only run() adds devices, changes the platforms or revives the LiveSync; *)
(* the handler of changes goes when the devices do.                        *)
LEMMA OnlyRunAdds ==
  ASSUME TypeInv, [Next]_vars, \A r \in Runs : ~RunStart(r)
  PROVE  /\ session'.descs \subseteq session.descs
         /\ session'.platforms = session.platforms
         /\ session'.state = "live" => session.state = "live"
         /\ handlers.ready /\ session'.descs # {} => handlers'.ready
<1> USE DEF TypeInv, TypeOK, StateOK, SessionTypes
<1>1. ASSUME NEW s, NEW ids, NEW devices, BeginStop(s, ids, devices)
      PROVE  session'.descs \subseteq session.descs
             /\ session'.platforms = session.platforms
             /\ session'.state = session.state
  BY <1>1 DEF BeginStop
<1>2. ASSUME NEW s \in StopCalls, StopLonely(s)
      PROVE  UNCHANGED <<session, handlers>>
  BY <1>2 DEF StopLonely, StopThrows
<1>3. ASSUME NEW s \in StopCalls, StopClosing(s)
      PROVE  /\ \/ session' = [session EXCEPT !.state = "stopped"]
                \/ UNCHANGED session
             /\ UNCHANGED handlers
  BY <1>3 DEF StopClosing, StopThrows
<1>4. ASSUME NEW s \in StopCalls, StopChain(s)
      PROVE  \/ session' = [session EXCEPT !.descs = {}]
             \/ UNCHANGED <<session, handlers>>
  BY <1>4 DEF StopChain
<1>5. ASSUME NEW s \in StopCalls, StopReturns(s)
      PROVE  UNCHANGED <<session, handlers>>
  BY <1>5 DEF StopReturns
<1>6. ASSUME NEW s \in UserStops, UserStop(s)
      PROVE  UNCHANGED handlers /\ \E ids, devices : BeginStop(s, ids, devices)
  BY <1>6 DEF UserStop
<1>7. ASSUME NEW d \in Devices, DeviceLost(d)
      PROVE  /\ UNCHANGED handlers
             /\ \/ \E ids, devices : BeginStop(d, ids, devices)
                \/ UNCHANGED session
  BY <1>7 DEF DeviceLost
<1>8. DeviceFails => /\ UNCHANGED handlers
                     /\ \E ids, devices : BeginStop(InAction, ids, devices)
  BY DEF DeviceFails
<1>9. ASSUME NEW r \in Runs, RunCall(r) \/ RunFails(r) \/ RunReturns(r)
      PROVE  UNCHANGED session /\ (handlers.ready => handlers'.ready)
  BY <1>9 DEF RunCall, RunFails, RunReturns
<1>10. ASSUME NEW q \in Platforms,
              \/ ChangeReported(q) \/ WebpackDies(q)
              \/ \E c \in Changes : NativeChecked(c, q)
       PROVE  UNCHANGED <<session, handlers>>
  BY <1>10 DEF ChangeReported, ReportChange, WebpackDies, NativeChecked
<1>11. \/ SkipLink \/ StartLink \/ EndLink \/ (\E d \in Devices : VisitDevice(d))
       \/ StartTransfer \/ DeviceSynced \/ DeviceStopped
       \/ StartWatcher \/ SpawnWebpack \/ FirstCompilation \/ PrepareEnds
       \/ PrepareFails
       => UNCHANGED <<session, handlers>>
  BY DEF SkipLink, StartLink, EndLink, VisitDevice, StartTransfer, DeviceSynced,
         DeviceStopped, StartWatcher, SpawnWebpack, FirstCompilation,
         PrepareEnds, PrepareFails, PrepareStep
<1>12. CASE UNCHANGED vars BY <1>12 DEF vars
<1>13. CASE Next
  <2>1. ASSUME NEW s \in StopCalls,
               StopLonely(s) \/ StopClosing(s) \/ StopChain(s) \/ StopReturns(s)
        PROVE  /\ session'.descs \subseteq session.descs
               /\ session'.platforms = session.platforms
               /\ session'.state = "live" => session.state = "live"
               /\ handlers.ready /\ session'.descs # {} => handlers'.ready
    BY <1>2, <1>3, <1>4, <1>5, <2>1
  <2> QED
    BY <1>1, <1>6, <1>7, <1>8, <1>9, <1>10, <1>11, <1>13, <2>1
       DEF Next, System, Environment
<1> QED BY <1>12, <1>13

(* The watchers stop() closes include those of every device of the         *)
(* LiveSync: run() merges the platforms of earlier calls into its own.     *)
THEOREM PlatformsAreCovered == Spec => []PlatformsCovered
<1>1. Init => PlatformsCovered BY DEF Init, PlatformsCovered
<1>2. TypeInv /\ PlatformsCovered /\ [Next]_vars => PlatformsCovered'
  <2> SUFFICES ASSUME TypeInv, PlatformsCovered, [Next]_vars
               PROVE  PlatformsCovered'
    OBVIOUS
  <2>1. CASE \A r \in Runs : ~RunStart(r)
    BY <2>1, OnlyRunAdds DEF PlatformsCovered
  <2>2. ASSUME NEW r \in Runs, RunStart(r) PROVE PlatformsCovered'
    BY <2>2 DEF RunStart, Join, AllPlatforms, PlatformsCovered
  <2> QED BY <2>1, <2>2
<1> QED BY <1>1, <1>2, InitType, NextType, PTL DEF Spec

(* A LiveSync with devices listens to the watchers: what stop() takes away *)
(* with its devices, the next run() puts back.                             *)
THEOREM ActiveHearsChanges == Spec => []ActiveIsHandled
<1>1. Init => ActiveIsHandled BY DEF Init, ActiveIsHandled
<1>2. TypeInv /\ ActiveIsHandled /\ [Next]_vars => ActiveIsHandled'
  <2> SUFFICES ASSUME TypeInv, ActiveIsHandled, [Next]_vars
               PROVE  ActiveIsHandled'
    OBVIOUS
  <2>1. CASE \A r \in Runs : ~RunStart(r)
    BY <2>1, OnlyRunAdds DEF ActiveIsHandled, TypeInv, TypeOK, StateOK
  <2>2. ASSUME NEW r \in Runs, RunStart(r) PROVE ActiveIsHandled'
    BY <2>2 DEF RunStart, Join, ActiveIsHandled, TypeInv, TypeOK, StateOK
  <2> QED BY <2>1, <2>2
<1> QED BY <1>1, <1>2, InitType, NextType, PTL DEF Spec

-----------------------------------------------------------------------------
(* A prepare() is awaited by the device action that asked for it. *)

(* PreparedBeforeSync is not inductive: the prepare() of a device must not *)
(* outlive its device action, or the next device finds it; when the device *)
(* fails before its prepare() has ended, that prepare() is orphaned, and   *)
(* stays so until the next one is started.                                 *)
PrepareIsAwaited == PreparePending => act.at = "install" \/ orphaned

PreparedForDevice ==
    act.at \in {"install", "sync"} /\ Initial =>
        prep.platform = PlatformOf[act.dev] \/ orphaned

PrepareInv == PrepareIsAwaited /\ PreparedForDevice

(* What run(), stop(), the watchers and webpack do during a device action. *)
Aside ==
    /\ UNCHANGED <<act, orphaned>>
    /\ prep'.platform = prep.platform
    /\ PreparePending' => PreparePending
    /\ act.dev # NoDevice => Initial' = Initial

LEMMA AsideKeepsPrepareInv ==
  ASSUME TypeInv, PrepareInv, Aside
  PROVE  PrepareInv'
<1>1. PrepareIsAwaited' BY DEF PrepareInv, PrepareIsAwaited, Aside
<1>2. PreparedForDevice'
  <2> SUFFICES ASSUME act'.at \in {"install", "sync"}, Initial'
               PROVE  prep'.platform = PlatformOf[act'.dev] \/ orphaned'
    BY DEF PreparedForDevice
  <2>1. act.at \in {"install", "sync"} /\ act'.dev = act.dev BY DEF Aside
  <2>2. act.dev # NoDevice BY <2>1 DEF TypeInv, ActHasDevice
  <2>3. Initial BY <2>2 DEF Aside
  <2> QED BY <2>1, <2>3 DEF PrepareInv, PreparedForDevice, Aside
<1> QED BY <1>1, <1>2 DEF PrepareInv

(* The link that runs stays what it is when others are added.              *)
LEMMA AddingIsAside ==
  ASSUME TypeInv, NEW devs \in SUBSET Devices,
         NEW platform \in Platforms \union {NoPlatform},
         NEW change \in 0 .. MaxChanges,
         chain'.settled = chain.settled,
         chain'.links = AddLink(chain.links, devs, platform, change),
         UNCHANGED <<act, prep, orphaned>>
  PROVE  Aside
<1>1. ASSUME act.dev # NoDevice PROVE Initial' = Initial
  <2>1. chain \in ChainTypes /\ chain.running /\ ChainInRange
    BY <1>1 DEF TypeInv, TypeOK, StateOK, ChainInRange
  <2>2. chain.settled + 1 \in 1 .. Len(chain.links)
    BY <2>1, LenProperties DEF ChainInRange, ChainTypes
  <2>3. chain'.links[chain.settled + 1] = chain.links[chain.settled + 1]
    BY <2>1, <2>2, AddLinkType
  <2> QED BY <2>3 DEF Initial, Link
<1> QED BY <1>1 DEF Aside, PreparePending

LEMMA ClosingIsAside ==
  ASSUME TypeInv, NEW q, CloseWatcher(q), UNCHANGED <<act, chain, orphaned>>
  PROVE  Aside
<1>1. prep \in PrepTypes BY DEF TypeInv, TypeOK, StateOK
<1>2. prep'.platform = prep.platform /\ (prep'.at = prep.at \/ prep'.at = "failed")
  BY <1>1 DEF CloseWatcher, PrepTypes
<1> QED BY <1>2 DEF Aside, PreparePending, Initial, Link

LEMMA CallsAreAside ==
  ASSUME TypeInv, [Next]_vars,
         \/ \E s \in StopCalls : UserStop(s) \/ StopLonely(s) \/ StopClosing(s)
                                  \/ StopChain(s) \/ StopReturns(s)
         \/ \E r \in Runs : RunCall(r) \/ RunFails(r) \/ RunStart(r) \/ RunReturns(r)
         \/ \E d \in Devices : DeviceLost(d)
         \/ \E q \in Platforms : ChangeReported(q)
         \/ \E q \in Platforms, c \in Changes : NativeChecked(c, q)
  PROVE  Aside
<1>1. ASSUME UNCHANGED <<act, chain, prep, orphaned>> PROVE Aside
  BY <1>1 DEF Aside, PreparePending, Initial, Link
<1>2. ASSUME NEW s \in StopCalls,
             UserStop(s) \/ StopChain(s) \/ StopReturns(s)
      PROVE  Aside
  <2> UNCHANGED <<act, chain, prep, orphaned>>
    BY <1>2 DEF UserStop, StopChain, StopReturns
  <2> QED BY <1>1
<1>3. ASSUME NEW s \in StopCalls, StopLonely(s) \/ StopClosing(s) PROVE Aside
  <2>1. UNCHANGED <<act, chain, orphaned>> BY <1>3 DEF StopLonely, StopClosing
  <2>2. UNCHANGED prep \/ \E q : CloseWatcher(q)
    BY <1>3 DEF StopLonely, StopClosing, StopThrows
  <2> QED BY <1>1, <2>1, <2>2, ClosingIsAside
<1>4. ASSUME NEW r \in Runs, RunStart(r) PROVE Aside
  <2> DEFINE initial == InitialSyncFor(run[r].devs)
  <2>1. initial \in SUBSET Devices
    BY DEF InitialSyncFor, TypeInv, TypeOK, StateOK, RunTypes
  <2>2. chain \in ChainTypes /\ 0 \in 0 .. MaxChanges BY DEF TypeInv, TypeOK, StateOK
  <2>3. UNCHANGED <<act, prep, orphaned>> BY <1>4 DEF RunStart, Join
  <2>4. chain' = [chain EXCEPT !.current = Len(chain.links),
                    !.links = AddLink(chain.links, initial, NoPlatform, 0)]
    BY <1>4 DEF RunStart, Join
  <2> HIDE DEF initial
  <2>5. /\ chain'.settled = chain.settled
        /\ chain'.links = AddLink(chain.links, initial, NoPlatform, 0)
    BY <2>2, <2>4 DEF ChainTypes
  <2> QED BY <2>1, <2>2, <2>3, <2>5, AddingIsAside
<1>5. ASSUME NEW r \in Runs, RunCall(r) \/ RunFails(r) \/ RunReturns(r)
      PROVE  Aside
  <2> UNCHANGED <<act, chain, prep, orphaned>>
    BY <1>5 DEF RunCall, RunFails, RunReturns, history
  <2> QED BY <1>1
<1>6. ASSUME NEW d \in Devices, DeviceLost(d) PROVE Aside
  <2> UNCHANGED <<act, chain, prep, orphaned>> BY <1>6 DEF DeviceLost
  <2> QED BY <1>1
<1>7. ASSUME NEW q \in Platforms, NEW c \in 0 .. MaxChanges,
             UNCHANGED <<act, prep, orphaned>>,
             chain' = [chain EXCEPT !.links = AddLink(chain.links, {}, q, c)]
      PROVE  Aside
  <2>1. chain \in ChainTypes /\ {} \in SUBSET Devices BY DEF TypeInv, TypeOK, StateOK
  <2>2. /\ chain'.settled = chain.settled
        /\ chain'.links = AddLink(chain.links, {}, q, c)
    BY <1>7, <2>1 DEF ChainTypes
  <2> QED BY <1>7, <2>1, <2>2, AddingIsAside
<1>8. ASSUME NEW q \in Platforms, ChangeReported(q) PROVE Aside
  <2>1. changes.seen + 1 \in 0 .. MaxChanges
    BY <1>8 DEF ChangeReported, ReportChange, TypeInv, TypeOK, StateOK, ChangesTypes
  <2>2. UNCHANGED <<act, prep, orphaned>> BY <1>8 DEF ChangeReported, ReportChange
  <2> DEFINE c == changes.seen + 1
  <2>3. \/ UNCHANGED chain
        \/ chain' = [chain EXCEPT !.links = AddLink(chain.links, {}, q, c)]
    BY <1>8 DEF ChangeReported, ReportChange, HandleChange
  <2> HIDE DEF c
  <2> QED BY <1>1, <1>7, <2>1, <2>2, <2>3 DEF c
<1>9. ASSUME NEW q \in Platforms, NEW c \in Changes, NativeChecked(c, q)
      PROVE  Aside
  <2>1. c \in 0 .. MaxChanges BY DEF Changes
  <2>2. UNCHANGED <<act, prep, orphaned>> BY <1>9 DEF NativeChecked
  <2>3. \/ UNCHANGED chain
        \/ chain' = [chain EXCEPT !.links = AddLink(chain.links, {}, q, c)]
    BY <1>9 DEF NativeChecked
  <2> QED BY <1>1, <1>7, <2>1, <2>2, <2>3
<1> QED BY <1>2, <1>3, <1>4, <1>5, <1>6, <1>8, <1>9

LEMMA PrepareIsAside ==
  ASSUME TypeInv, WebpackStep
  PROVE  Aside
<1> USE DEF WebpackStep, StartWatcher, SpawnWebpack, FirstCompilation,
            PrepareEnds, PrepareFails, PrepareStep, WebpackDies
<1>1. prep \in PrepTypes BY DEF TypeInv, TypeOK, StateOK
<1>2. UNCHANGED <<act, chain, orphaned>> BY DEF history
<1>3. prep'.platform = prep.platform BY <1>1 DEF PrepTypes
<1>4. PreparePending' => PreparePending BY <1>1 DEF PreparePending, PrepTypes
<1> QED BY <1>2, <1>3, <1>4 DEF Aside, Initial, Link

LEMMA LinkKeepsPrepareInv ==
  ASSUME TypeInv, PrepareInv, LinkStep
  PROVE  PrepareInv'
<1> USE DEF PrepareInv, PrepareIsAwaited, PreparedForDevice
<1>1. act \in ActTypes /\ prep \in PrepTypes BY DEF TypeInv, TypeOK, StateOK
<1>2. CASE SkipLink \/ StartLink \/ EndLink
  <2>1. act.dev = NoDevice
    BY <1>2 DEF SkipLink, StartLink, EndLink, NextLinkIsDue, TypeInv, TypeOK, StateOK,
                ChainInRange
  <2>2. act.at = "none" BY <2>1 DEF TypeInv, ActHasDevice
  <2>3. act'.at = act.at /\ prep' = prep /\ orphaned' = orphaned
    BY <1>1, <1>2 DEF SkipLink, StartLink, EndLink, ActTypes, history
  <2> QED BY <2>2, <2>3 DEF PreparePending
<1>3. ASSUME NEW d \in Devices, VisitDevice(d) PROVE PrepareInv'
  <2>1. act.at = "none"
    BY <1>3 DEF VisitDevice, TypeInv, ActHasDevice
  <2>2. PreparePending => orphaned BY <2>1
  <2>3. UNCHANGED chain /\ Initial' = Initial
    BY <1>3 DEF VisitDevice, Initial, Link
  <2>4. /\ act'.at = IF Initial THEN "install" ELSE "sync"
        /\ act'.dev = d
    BY <1>1, <1>3 DEF VisitDevice, ActTypes
  <2>5. CASE Initial /\ ~PreparePending
    <3> prep' = [platform |-> PlatformOf[d], at |-> "deps"]
      BY <1>3, <2>5 DEF VisitDevice
    <3> QED BY <2>3, <2>4, <2>5
  <2>6. CASE ~(Initial /\ ~PreparePending)
    <3> prep' = prep /\ orphaned' = orphaned
      BY <1>3, <2>6 DEF VisitDevice, TypeInv, TypeOK, HistoryOK
    <3> QED BY <2>2, <2>3, <2>4, <2>6 DEF PreparePending
  <2> QED BY <2>5, <2>6
<1>4. CASE StartTransfer
  <2>1. /\ act.at = "install" /\ act'.dev = act.dev /\ prep.at = "done"
        /\ UNCHANGED <<prep, chain, orphaned>>
    BY <1>1, <1>4 DEF StartTransfer, ActTypes, history
  <2> QED BY <2>1 DEF PreparePending, Initial, Link
<1>5. CASE DeviceSynced \/ DeviceFails \/ DeviceStopped
  <2>1. /\ UNCHANGED prep
        /\ orphaned => orphaned'
        /\ act.at = "install" /\ PreparePending => orphaned'
    BY <1>5 DEF DeviceSynced, DeviceFails, DeviceStopped, history
  <2>2. act'.at \in {"none", "stopping"}
    BY <1>1, <1>5 DEF DeviceSynced, DeviceFails, DeviceStopped, ActTypes
  <2> QED BY <2>1, <2>2 DEF PreparePending
<1> HIDE DEF PrepareInv, PrepareIsAwaited, PreparedForDevice
<1> QED BY <1>2, <1>3, <1>4, <1>5 DEF LinkStep

(* Nothing is prepared before the first run().                             *)
LEMMA InitPrepare == Init => PrepareInv
BY DEF Init, PrepareInv, PrepareIsAwaited, PreparedForDevice, PreparePending

(* Every step keeps the platform of a device in sync prepared.             *)
LEMMA NextPrepare == TypeInv /\ PrepareInv /\ [Next]_vars => PrepareInv'
<1> SUFFICES ASSUME TypeInv, PrepareInv, [Next]_vars PROVE PrepareInv'
  OBVIOUS
<1>1. CASE UNCHANGED vars
  <2> Aside BY <1>1 DEF vars, history, Aside, PreparePending, Initial, Link
  <2> QED BY AsideKeepsPrepareInv
<1>2. CASE LinkStep BY <1>2, LinkKeepsPrepareInv
<1>3. CASE WebpackStep BY <1>3, PrepareIsAside, AsideKeepsPrepareInv
<1>4. CASE
       \/ \E s \in StopCalls : UserStop(s) \/ StopLonely(s) \/ StopClosing(s)
                                \/ StopChain(s) \/ StopReturns(s)
       \/ \E r \in Runs : RunCall(r) \/ RunFails(r) \/ RunStart(r) \/ RunReturns(r)
       \/ \E d \in Devices : DeviceLost(d)
       \/ \E q \in Platforms : ChangeReported(q)
       \/ \E q \in Platforms, c \in Changes : NativeChecked(c, q)
  BY <1>4, CallsAreAside, AsideKeepsPrepareInv
<1>5. UserStops \subseteq StopCalls BY DEF StopCalls
<1> QED BY <1>1, <1>2, <1>3, <1>4, <1>5
        DEF Next, System, Environment, LinkStep, WebpackStep

(* Files are transferred to a device once the prepare() of its platform    *)
(* has ended, or in the shadow of a prepare() its device left behind: a    *)
(* failing transfer, a lost device, a stop(), a failing prepare() or a     *)
(* dying webpack do no harm.                                               *)
THEOREM SyncIsPrepared == Spec => []PreparedBeforeSync
<1>1. PrepareInv => PreparedBeforeSync
  BY DEF PrepareInv, PreparedForDevice, PreparedBeforeSync
<1> QED BY <1>1, InitPrepare, NextPrepare, InitType, NextType, PTL DEF Spec

-----------------------------------------------------------------------------
(* What stop() does                                                        *)

OnlyCall(s) == \A t \in StopCalls \ {s} : stop'[t] = stop[t]

(* The devices a call with these deviceIdentifiers takes out.              *)
Taking(ids) == IF ids = {} THEN session.descs ELSE session.descs \intersect ids

(* What happens to the LiveSync when a call of stop() takes devices out.   *)
TakesOut(s, removed) ==
    /\ session'.descs = session.descs \ removed
    /\ session'.state = "live" /\ session'.platforms = session.platforms
    /\ gone' = [gone EXCEPT ![s] = removed]
    /\ stale' = stale \union Naming(FirstPending, removed)
    /\ overtaken' = overtaken \union Naming(FirstQueued, removed)
    /\ deployed' = deployed \ removed

(* After its first loop a call closes all watchers, or awaits one link.    *)
GoesOn(s, next) ==
    /\ next.at = "closing" => next.left = session.platforms
    /\ next.at = "action" => next.upto = IF Awaits(s) THEN chain.current ELSE 0

Goes(s) == GoesOn(s, stop'[s])

LEMMA AfterLonelyDoes ==
  ASSUME NEW s, NEW call \in StopTypes, NEW descs
  PROVE  /\ AfterLonely(s, call, descs).at \in {"closing", "action"}
         /\ GoesOn(s, AfterLonely(s, call, descs))
<1> DEFINE next == AfterLonely(s, call, descs)
<1> SUFFICES next.at \in {"closing", "action"} /\ GoesOn(s, next) OBVIOUS
<1>1. CASE call.all \/ descs = {}
  <2>1. next = [call EXCEPT !.at = "closing", !.left = session.platforms]
    BY <1>1 DEF AfterLonely
  <2> HIDE DEF next
  <2> QED BY <2>1 DEF StopTypes, GoesOn
<1>2. CASE ~(call.all \/ descs = {})
  <2> DEFINE upto == IF Awaits(s) THEN chain.current ELSE 0
  <2>1. next = [call EXCEPT !.at = "action", !.upto = upto]
    BY <1>2 DEF AfterLonely
  <2> HIDE DEF upto, next
  <2>2. next.at = "action" /\ next.upto = upto BY <2>1 DEF StopTypes
  <2> QED BY <2>2 DEF upto, GoesOn
<1> QED BY <1>1, <1>2

(* The synchronous start of stop(), on a LiveSync and without one.         *)
LEMMA BeginStopDoes ==
  ASSUME TypeInv, NEW s \in StopCalls, NEW ids, NEW devices,
         BeginStop(s, ids, devices)
  PROVE  /\ stop[s].at = "idle"
         /\ OnlyCall(s)
         /\ \/ /\ session.state = "live" /\ TakesOut(s, Taking(ids))
               /\ stop'[s].at \in {"lonely", "closing", "action"} /\ Goes(s)
            \/ /\ session.state # "live" /\ UNCHANGED <<session, taken>>
               /\ stop'[s].at = "done"
<1> DEFINE removed == IF ids = {} THEN session.descs
                                  ELSE session.descs \intersect ids
           descs == session.descs \ removed
           call == [NoStop EXCEPT !.at = "lonely", !.all = (ids = {}),
                                  !.left = session.platforms]
           next == AfterLonely(s, call, descs)
<1>1. session \in SessionTypes /\ stop \in [StopCalls -> StopTypes]
  BY DEF TypeInv, TypeOK, StateOK
<1>2. CASE session.state = "live"
  <2>1. call \in StopTypes BY <1>1 DEF SessionTypes, StopTypes, NoStop
  <2>2. call.at = "lonely" BY DEF NoStop
  <2>3. /\ stop[s].at = "idle"
        /\ session' = [session EXCEPT !.descs = descs]
        /\ stop' = [stop EXCEPT ![s] =
                      IF \E q \in session.platforms : Lonely(q, devices)
                      THEN call ELSE AfterLonely(s, call, descs)]
        /\ gone' = [gone EXCEPT ![s] = removed]
        /\ stale' = stale \union Naming(FirstPending, removed)
        /\ overtaken' = overtaken \union Naming(FirstQueued, removed)
        /\ deployed' = deployed \ removed
    BY <1>2 DEF BeginStop
  <2> HIDE DEF call
  <2>4. next.at \in {"closing", "action"} /\ GoesOn(s, next)
    <3> HIDE DEF descs
    <3> QED BY <2>1, AfterLonelyDoes
  <2>5. removed = Taking(ids) BY DEF Taking
  <2> HIDE DEF removed, next
  <2>6. stop'[s] = call \/ stop'[s] = next
    BY <1>1, <2>3 DEF next
  <2>7. OnlyCall(s) BY <1>1, <2>3 DEF OnlyCall
  <2>8. /\ session'.descs = descs /\ session'.state = "live"
        /\ session'.platforms = session.platforms
    <3> HIDE DEF descs
    <3> QED BY <1>1, <1>2, <2>3 DEF SessionTypes
  <2>9. TakesOut(s, Taking(ids)) BY <2>3, <2>5, <2>8 DEF TakesOut
  <2>10. stop'[s].at \in {"lonely", "closing", "action"} /\ Goes(s)
    BY <2>2, <2>4, <2>6 DEF Goes, GoesOn
  <2> QED BY <1>2, <2>3, <2>7, <2>9, <2>10
<1>3. CASE session.state # "live"
  <2>1. /\ stop[s].at = "idle"
        /\ stop' = [stop EXCEPT ![s].at = "done"]
        /\ UNCHANGED <<session, taken>>
    BY <1>3 DEF BeginStop
  <2>2. stop'[s].at = "done" /\ OnlyCall(s)
    BY <1>1, <2>1 DEF OnlyCall, StopTypes
  <2> QED BY <1>3, <2>1, <2>2
<1> QED BY <1>2, <1>3

(* A watcher could not be closed, and stop() throws.                       *)
LEMMA StopThrowsDoes ==
  ASSUME TypeInv, NEW s \in StopCalls, StopThrows(s)
  PROVE  /\ stop'[s].at = "failed" /\ OnlyCall(s)
         /\ UNCHANGED <<session, prep, watch, stale, escaped>>
<1>1. stop \in [StopCalls -> StopTypes] BY DEF TypeInv, TypeOK, StateOK
<1> QED BY <1>1 DEF StopThrows, OnlyCall, StopTypes

(* A step of stop() that closes the watcher of a lonely platform.          *)
LEMMA StopLonelyDoes ==
  ASSUME TypeInv, NEW s \in StopCalls, StopLonely(s)
  PROVE  /\ stop[s].at = "lonely" /\ OnlyCall(s)
         /\ stop'[s].at \in {"failed", "lonely", "closing", "action"}
         /\ Goes(s)
         /\ UNCHANGED <<session, chain, act, run, handlers, connected, changes,
                        told, taken, skipped, orphaned>>
         /\ \/ UNCHANGED <<prep, watch, escaped>>
            \/ \E q \in Platforms : CloseWatcher(q)
<1>1. stop[s] \in StopTypes /\ stop \in [StopCalls -> StopTypes]
  BY DEF TypeInv, TypeOK, StateOK
<1>2. PICK q \in stop[s].left :
        /\ Lonely(q, connected)
        /\ IF CloseThrows(q) THEN StopThrows(s)
           ELSE LET call == [stop[s] EXCEPT !.left = @ \ {q}]
                IN  /\ CloseWatcher(q)
                    /\ stop' = [stop EXCEPT ![s] =
                          IF \E p \in call.left : Lonely(p, connected)
                          THEN call ELSE AfterLonely(s, call, session.descs)]
                    /\ UNCHANGED <<session, stale>>
  BY DEF StopLonely
<1>3. q \in Platforms BY <1>1 DEF StopTypes
<1>4. /\ UNCHANGED <<chain, act, run, handlers, connected, changes, told, gone,
                     overtaken, deployed, skipped, missing, orphaned>>
      /\ stop[s].at = "lonely"
  BY DEF StopLonely
<1>5. CASE CloseThrows(q)
  <2> StopThrows(s) BY <1>2, <1>5
  <2> QED BY <1>4, StopThrowsDoes DEF Goes, GoesOn, taken
<1>6. CASE ~CloseThrows(q)
  <2> DEFINE call == [stop[s] EXCEPT !.left = stop[s].left \ {q}]
             next == AfterLonely(s, call, session.descs)
  <2>1. call \in StopTypes /\ call.at = "lonely" BY <1>1, <1>4 DEF StopTypes
  <2>2. /\ CloseWatcher(q) /\ UNCHANGED <<session, stale>>
        /\ stop' = [stop EXCEPT ![s] =
                      IF \E p \in call.left : Lonely(p, connected)
                      THEN call ELSE AfterLonely(s, call, session.descs)]
    BY <1>2, <1>6
  <2> HIDE DEF call
  <2>3. next.at \in {"closing", "action"} /\ GoesOn(s, next)
    BY <2>1, AfterLonelyDoes
  <2> HIDE DEF next
  <2>4. (stop'[s] = call \/ stop'[s] = next) /\ OnlyCall(s)
    BY <1>1, <2>2 DEF OnlyCall, next
  <2>5. Goes(s) /\ stop'[s].at \in {"failed", "lonely", "closing", "action"}
    BY <2>1, <2>3, <2>4 DEF Goes, GoesOn
  <2> QED BY <1>3, <1>4, <2>2, <2>4, <2>5 DEF taken
<1> QED BY <1>5, <1>6

(* A step of stop() that closes one of the watchers that are left.         *)
LEMMA StopClosingDoes ==
  ASSUME TypeInv, NEW s \in StopCalls, StopClosing(s)
  PROVE  /\ stop[s].at = "closing" /\ OnlyCall(s)
         /\ UNCHANGED <<chain, act, run, handlers, connected, changes, told, gone,
                        overtaken, deployed, skipped, missing, orphaned>>
         /\ \/ /\ stop'[s].at = "failed"
               /\ UNCHANGED <<session, prep, watch, stale, escaped>>
            \/ \E q \in stop[s].left :
                 /\ CloseWatcher(q)
                 /\ \/ /\ stop'[s].at = "closing" /\ UNCHANGED <<session, stale>>
                       /\ stop'[s].left = stop[s].left \ {q}
                    \/ /\ stop'[s].at = "chain" /\ stop[s].left = {q}
                       /\ stop'[s].upto = IF Awaits(s) THEN Len(chain.links) ELSE 0
                       /\ session'.state = "stopped"
                       /\ session'.descs = session.descs
                       /\ session'.platforms = session.platforms
                       /\ stale' = stale \union Naming(FirstPending, Devices)
<1>1. stop[s] \in StopTypes /\ stop \in [StopCalls -> StopTypes]
  BY DEF TypeInv, TypeOK, StateOK
<1>2. PICK q \in stop[s].left :
        IF CloseThrows(q) THEN StopThrows(s)
        ELSE /\ CloseWatcher(q)
             /\ IF stop[s].left = {q}
                THEN /\ session' = [session EXCEPT !.state = "stopped"]
                     /\ stale' = stale \union Naming(FirstPending, Devices)
                     /\ stop' = [stop EXCEPT ![s].at = "chain", ![s].left = {},
                          ![s].upto = IF Awaits(s) THEN Len(chain.links) ELSE 0]
                ELSE /\ stop' = [stop EXCEPT ![s].left = @ \ {q}]
                     /\ UNCHANGED <<session, stale>>
  BY DEF StopClosing
<1>3. /\ UNCHANGED <<chain, act, run, handlers, connected, changes, told, gone,
                     overtaken, deployed, skipped, missing, orphaned>>
      /\ stop[s].at = "closing"
  BY DEF StopClosing
<1>4. CASE CloseThrows(q)
  <2> StopThrows(s) BY <1>2, <1>4
  <2> QED BY <1>3, StopThrowsDoes
<1>5. CASE ~CloseThrows(q) /\ stop[s].left = {q}
  <2> DEFINE upto == IF Awaits(s) THEN Len(chain.links) ELSE 0
             call == [stop[s] EXCEPT !.at = "chain", !.left = {}, !.upto = upto]
  <2> HIDE DEF upto
  <2>1. call.at = "chain" /\ call.upto = upto BY <1>1 DEF StopTypes
  <2>2. stop' = [stop EXCEPT ![s] = call]
    BY <1>1, <1>2, <1>5 DEF upto
  <2> HIDE DEF call
  <2>3. stop'[s] = call /\ OnlyCall(s) BY <1>1, <2>2 DEF OnlyCall
  <2>4. /\ session'.state = "stopped" /\ session'.descs = session.descs
        /\ session'.platforms = session.platforms
        /\ stale' = stale \union Naming(FirstPending, Devices)
    BY <1>2, <1>5 DEF TypeInv, TypeOK, StateOK, SessionTypes
  <2>5. CloseWatcher(q) BY <1>2, <1>5
  <2> QED BY <1>3, <1>5, <2>1, <2>3, <2>4, <2>5 DEF upto
<1>6. CASE ~CloseThrows(q) /\ stop[s].left # {q}
  <2> DEFINE call == [stop[s] EXCEPT !.left = stop[s].left \ {q}]
  <2>1. call.at = "closing" /\ call.left = stop[s].left \ {q}
    BY <1>1, <1>3 DEF StopTypes
  <2>2. /\ stop' = [stop EXCEPT ![s] = call] /\ CloseWatcher(q)
        /\ UNCHANGED <<session, stale>>
    BY <1>1, <1>2, <1>6
  <2> HIDE DEF call
  <2>3. stop'[s] = call /\ OnlyCall(s) BY <1>1, <2>2 DEF OnlyCall
  <2> QED BY <1>3, <2>1, <2>2, <2>3
<1> QED BY <1>4, <1>5, <1>6

(* The steps of stop() that wait for the chain and tell the listeners.     *)
LEMMA StopEndsDoes ==
  ASSUME TypeInv, NEW s \in StopCalls, StopChain(s) \/ StopReturns(s)
  PROVE  /\ OnlyCall(s)
         /\ UNCHANGED <<chain, act, prep, watch, run, connected, changes, gone,
                        overtaken, skipped, escaped, orphaned>>
         /\ \/ /\ stop[s].at = "chain" /\ stop'[s].at = "hooks"
               /\ Resolved(stop[s].upto)
               /\ session' = [session EXCEPT !.descs = {}]
               /\ handlers' = [handlers EXCEPT !.ready = FALSE]
               /\ stale' = stale \union Naming(FirstPending, session.descs)
               /\ UNCHANGED told
            \/ /\ stop[s].at = "hooks" \/ stop[s].at = "action"
               /\ stop[s].at = "action" => Resolved(stop[s].upto)
               /\ stop'[s].at = "done"
               /\ told' = told \union gone[s]
               /\ UNCHANGED <<session, handlers, stale, deployed>>
            \/ /\ stop[s].at = "chain" \/ stop[s].at = "action"
               /\ stop'[s].at = "failed"
               /\ UNCHANGED <<session, handlers, told, stale, deployed>>
<1>1. stop[s] \in StopTypes /\ stop \in [StopCalls -> StopTypes]
  BY DEF TypeInv, TypeOK, StateOK
<1>2. ASSUME NEW a, stop' = [stop EXCEPT ![s].at = a]
      PROVE  stop'[s].at = a /\ OnlyCall(s)
  BY <1>1, <1>2 DEF OnlyCall, StopTypes
<1>3. CASE StopChain(s)
  <2>1. UNCHANGED <<chain, act, prep, watch, run, connected, changes, told, gone,
                    overtaken, skipped, escaped, orphaned>>
        /\ stop[s].at = "chain"
    BY <1>3 DEF StopChain
  <2>2. CASE Resolved(stop[s].upto)
    <3>1. /\ session' = [session EXCEPT !.descs = {}]
          /\ handlers' = [handlers EXCEPT !.ready = FALSE]
          /\ stop' = [stop EXCEPT ![s].at = "hooks"]
          /\ stale' = stale \union Naming(FirstPending, session.descs)
      BY <1>3, <2>2 DEF StopChain
    <3> QED BY <1>2, <2>1, <2>2, <3>1
  <2>3. CASE ~Resolved(stop[s].upto)
    <3>1. /\ stop' = [stop EXCEPT ![s].at = "failed"]
          /\ UNCHANGED <<session, handlers, stale, deployed>>
      BY <1>3, <2>3 DEF StopChain
    <3> QED BY <1>2, <2>1, <3>1
  <2> QED BY <2>2, <2>3
<1>4. CASE StopReturns(s)
  <2>1. UNCHANGED <<session, chain, act, prep, watch, run, handlers, connected,
                    changes, gone, stale, overtaken, deployed, skipped, escaped,
                    orphaned>>
    BY <1>4 DEF StopReturns, taken
  <2>2. \/ /\ stop[s].at \in {"hooks", "action"}
           /\ stop[s].at = "action" => Resolved(stop[s].upto)
           /\ told' = told \union gone[s]
           /\ stop' = [stop EXCEPT ![s].at = "done"]
        \/ /\ stop[s].at = "action" /\ UNCHANGED told
           /\ stop' = [stop EXCEPT ![s].at = "failed"]
    BY <1>4 DEF StopReturns, EmitStopped
  <2> QED BY <1>2, <2>1, <2>2
<1> QED BY <1>3, <1>4

-----------------------------------------------------------------------------
(* What run(), changes and the links do                                    *)

(* The chain has got one more link, and nothing else has happened to it.   *)
Grows(devs, platform, change) ==
    /\ Len(chain'.links) = Len(chain.links) + 1
    /\ \A n \in 1 .. Len(chain.links) : chain'.links[n] = chain.links[n]
    /\ chain'.links[Len(chain.links) + 1]
          = [devs |-> devs, platform |-> platform, change |-> change]
    /\ chain'.settled = chain.settled /\ chain'.running = chain.running
    /\ chain'.broken = chain.broken

(* addActionToChain() appends one link, and starts it if the chain is idle. *)
LEMMA GrowDoes ==
  ASSUME TypeInv, NEW devs \in SUBSET Devices,
         NEW platform \in Platforms \union {NoPlatform},
         NEW change \in 0 .. MaxChanges, NEW current,
         chain' = [chain EXCEPT !.current = current,
                     !.links = AddLink(chain.links, devs, platform, change)]
  PROVE  Grows(devs, platform, change) /\ chain'.current = current
<1>1. chain \in ChainTypes BY DEF TypeInv, TypeOK, StateOK
<1> DEFINE links == AddLink(chain.links, devs, platform, change)
<1>2. Len(links) = Len(chain.links) + 1
      /\ \A n \in 1 .. Len(chain.links) : links[n] = chain.links[n]
  BY <1>1, AddLinkType, SMTT(30)
<1>3. links[Len(chain.links) + 1]
        = [devs |-> devs, platform |-> platform, change |-> change]
  <2>1. [devs |-> devs, platform |-> platform, change |-> change] \in Links
    BY DEF Links
  <2> QED BY <1>1, <2>1, AppendProperties DEF AddLink, ChainTypes
<1>4. chain' = [chain EXCEPT !.current = current, !.links = links]
  OBVIOUS
<1> HIDE DEF links
<1>5. /\ chain'.links = links /\ chain'.settled = chain.settled
      /\ chain'.running = chain.running /\ chain'.broken = chain.broken
      /\ chain'.current = current
  BY <1>1, <1>4 DEF ChainTypes
<1> QED BY <1>2, <1>3, <1>5 DEF Grows

(* run() up to its first await: the devices join, and it may be the first. *)
LEMMA RunStartDoes ==
  ASSUME TypeInv, NEW r \in Runs, RunStart(r)
  PROVE  /\ MayJoin(r)
         /\ Grows(InitialSyncFor(run[r].devs), NoPlatform, 0)
         /\ chain'.current = Len(chain.links)
         /\ InitialSyncFor(run[r].devs) \subseteq run[r].devs
         /\ session'.state = "live"
         /\ session'.descs = session.descs \union run[r].devs
         /\ session'.platforms = AllPlatforms(run[r].devs)
         /\ run'[r].at = "queued" /\ run'[r].link = Len(chain.links) + 1
         /\ \A o \in Runs \ {r} : run'[o] = run[o]
         /\ handlers'.lost = handlers.lost
         /\ told' = told \ run[r].devs
         /\ gone' = [s \in StopCalls |-> gone[s] \ run[r].devs]
         /\ deployed' = deployed \ InitialSyncFor(run[r].devs)
         /\ skipped' = skipped \ InitialSyncFor(run[r].devs)
         /\ UNCHANGED <<act, prep, watch, stop, connected, changes, stale,
                        overtaken, escaped, orphaned>>
<1> DEFINE devs == run[r].devs
           initial == InitialSyncFor(devs)
<1>1. /\ run[r] \in RunTypes /\ run \in [Runs -> RunTypes]
      /\ session \in SessionTypes /\ chain \in ChainTypes
      /\ handlers \in [ready : BOOLEAN, lost : BOOLEAN]
  BY DEF TypeInv, TypeOK, StateOK
<1>2. initial \in SUBSET Devices /\ initial \subseteq devs
  BY <1>1 DEF InitialSyncFor, RunTypes
<1>3. Join(r, TRUE) /\ MayJoin(r) BY DEF RunStart
<1>4. Grows(initial, NoPlatform, 0) /\ chain'.current = Len(chain.links)
  <2>1. chain' = [chain EXCEPT !.current = Len(chain.links),
                    !.links = AddLink(chain.links, initial, NoPlatform, 0)]
    BY <1>3 DEF Join
  <2>2. 0 \in 0 .. MaxChanges OBVIOUS
  <2>3. initial \in SUBSET Devices BY <1>2
  <2> HIDE DEF initial
  <2> QED BY <2>1, <2>2, <2>3, GrowDoes DEF initial
<1>5. /\ run'[r].at = "queued" /\ run'[r].link = Len(chain.links) + 1
      /\ \A o \in Runs \ {r} : run'[o] = run[o]
  <2> DEFINE link == Len(chain.links) + 1
             call == [run[r] EXCEPT !.at = "queued", !.link = link]
  <2>1. run' = [run EXCEPT ![r] = call] BY <1>1, <1>3 DEF Join
  <2> HIDE DEF link
  <2>2. call.at = "queued" /\ call.link = link BY <1>1 DEF RunTypes
  <2> HIDE DEF call
  <2> QED BY <1>1, <2>1, <2>2 DEF link
<1>6. /\ session' = [state |-> "live", descs |-> session.descs \union devs,
                     platforms |-> AllPlatforms(devs)]
      /\ handlers' = [handlers EXCEPT !.ready = TRUE]
      /\ told' = told \ devs
      /\ gone' = [s \in StopCalls |-> gone[s] \ devs]
      /\ deployed' = deployed \ initial /\ skipped' = skipped \ initial
      /\ UNCHANGED <<act, prep, watch, stop, connected, changes, stale,
                     overtaken, escaped, orphaned>>
  BY <1>3 DEF Join
<1> QED BY <1>1, <1>2, <1>3, <1>4, <1>5, <1>6

(* A change gets a link of its own, at once or when it has been checked.   *)
LEMMA ChangesDo ==
  ASSUME TypeInv, NEW q \in Platforms,
         ChangeReported(q) \/ \E c \in Changes : NativeChecked(c, q)
  PROVE  /\ UNCHANGED <<session, act, prep, watch, calls, handlers, connected,
                        told, gone, stale, overtaken, deployed, skipped, escaped,
                        orphaned>>
         /\ \/ UNCHANGED chain
            \/ /\ \E c \in Changes : Grows({}, q, c)
               /\ chain'.current = chain.current
<1>1. chain \in ChainTypes /\ changes \in ChangesTypes
  BY DEF TypeInv, TypeOK, StateOK
<1>2. ASSUME NEW c \in Changes,
             chain' = [chain EXCEPT !.links = AddLink(chain.links, {}, q, c)]
      PROVE  Grows({}, q, c) /\ chain'.current = chain.current
  <2>1. c \in 0 .. MaxChanges /\ {} \in SUBSET Devices BY DEF Changes
  <2> DEFINE links == AddLink(chain.links, {}, q, c)
  <2> HIDE DEF links
  <2>2. chain' = [chain EXCEPT !.current = chain.current, !.links = links]
    BY <1>1, <1>2 DEF ChainTypes, links
  <2> QED BY <2>1, <2>2, GrowDoes DEF links
<1>3. CASE ChangeReported(q)
  <2> DEFINE c == changes.seen + 1
  <2>1. c \in Changes
    BY <1>1, <1>3 DEF ChangeReported, ReportChange, ChangesTypes, Changes
  <2>2. UNCHANGED <<session, act, prep, watch, calls, handlers, connected,
                    told, gone, stale, overtaken, deployed, skipped, escaped,
                    orphaned>>
    BY <1>3 DEF ChangeReported, ReportChange
  <2>3. \/ UNCHANGED chain
        \/ chain' = [chain EXCEPT !.links = AddLink(chain.links, {}, q, c)]
    BY <1>3 DEF ChangeReported, ReportChange, HandleChange
  <2> HIDE DEF c
  <2> QED BY <1>2, <2>1, <2>2, <2>3
<1>4. ASSUME NEW c \in Changes, NativeChecked(c, q)
      PROVE  /\ UNCHANGED <<session, act, prep, watch, calls, handlers, connected,
                            told, gone, stale, overtaken, deployed, skipped,
                            escaped, orphaned>>
             /\ \/ UNCHANGED chain
                \/ Grows({}, q, c) /\ chain'.current = chain.current
  BY <1>2, <1>4 DEF NativeChecked
<1> QED BY <1>3, <1>4

(* The fields of the chain and of the link that runs after each step of it.*)
LEMMA LinkDoes ==
  ASSUME TypeInv
  PROVE  /\ SkipLink \/ StartLink \/ EndLink =>
              /\ act.dev = NoDevice /\ act.at = "none"
              /\ act'.dev = NoDevice /\ act'.at = "none"
              /\ chain'.links = chain.links
              /\ chain.settled < Len(chain.links)
         /\ SkipLink =>
              /\ ~chain.running /\ ~chain.broken
              /\ ~chain'.running /\ ~chain'.broken
              /\ chain'.current = chain.current
              /\ chain'.settled = chain.settled + 1
         /\ StartLink =>
              /\ ~chain.running /\ ~chain.broken
              /\ chain'.running /\ ~chain'.broken
              /\ chain'.current = chain.settled + 1
              /\ chain'.settled = chain.settled
              /\ act'.todo = connected
         /\ EndLink =>
              /\ chain.running /\ ~chain'.running
              /\ chain'.current = chain.current
              /\ act'.todo = {}
              /\ \/ chain'.broken /\ chain'.settled = chain.settled
                 \/ /\ chain'.broken = chain.broken
                    /\ chain'.settled = chain.settled + 1
         /\ \A d \in Devices : VisitDevice(d) =>
              /\ act.dev = NoDevice /\ act.at = "none"
              /\ act'.dev = d /\ act'.todo = act.todo \ {d}
              /\ act'.at = IF Initial THEN "install" ELSE "sync"
         /\ StartTransfer \/ DeviceFails =>
              /\ act'.todo = act.todo /\ act'.dev = act.dev
              /\ act'.at = IF StartTransfer THEN "sync" ELSE "stopping"
         /\ DeviceSynced \/ DeviceStopped =>
              /\ act'.todo = act.todo /\ act'.dev = NoDevice /\ act'.at = "none"
         /\ act.at # "none" =>
              act.dev # NoDevice /\ act.dev \in Devices /\ chain.running
<1>1. chain \in ChainTypes /\ act \in ActTypes /\ ChainInRange
  BY DEF TypeInv, TypeOK, StateOK
<1>2. act.at # "none" =>
              act.dev # NoDevice /\ act.dev \in Devices /\ chain.running
  BY <1>1 DEF TypeInv, ActHasDevice, ActTypes, ChainInRange
<1>3. SkipLink \/ StartLink \/ EndLink => act.dev = NoDevice
  BY <1>1 DEF SkipLink, StartLink, EndLink, NextLinkIsDue, ChainInRange
<1> DEFINE n == chain.settled + 1
<1>4. ASSUME SkipLink
      PROVE  /\ ~chain.running /\ ~chain.broken
             /\ chain.settled < Len(chain.links)
             /\ chain' = [chain EXCEPT !.settled = n] /\ act' = act
  BY <1>4 DEF SkipLink, NextLinkIsDue
<1>5. ASSUME StartLink
      PROVE  /\ ~chain.running /\ ~chain.broken
             /\ chain.settled < Len(chain.links)
             /\ chain' = [chain EXCEPT !.running = TRUE, !.current = n]
             /\ act' = [act EXCEPT !.todo = connected, !.failed = FALSE]
  BY <1>5 DEF StartLink, NextLinkIsDue
<1>6. ASSUME EndLink
      PROVE  /\ chain.running
             /\ chain.settled < Len(chain.links)
             /\ act' = [act EXCEPT !.todo = {}]
             /\ \/ chain' = [chain EXCEPT !.running = FALSE, !.broken = TRUE]
                \/ chain' = [chain EXCEPT !.running = FALSE, !.settled = n]
  BY <1>1, <1>6 DEF EndLink, ChainInRange
<1>7. ASSUME NEW d \in Devices, VisitDevice(d)
      PROVE  /\ act.dev = NoDevice
             /\ act' = [act EXCEPT !.todo = act.todo \ {d}, !.dev = d,
                           !.at = IF Initial THEN "install" ELSE "sync"]
  BY <1>7 DEF VisitDevice
<1>8. StartTransfer \/ DeviceFails =>
        /\ act'.todo = act.todo /\ act'.dev = act.dev
        /\ act'.at = IF StartTransfer THEN "sync" ELSE "stopping"
  BY <1>1 DEF StartTransfer, DeviceFails, ActTypes
<1>9. DeviceSynced \/ DeviceStopped =>
        act'.todo = act.todo /\ act'.dev = NoDevice /\ act'.at = "none"
  <2> DEFINE failed == act.failed \/ stop[InAction].at = "failed"
  <2> HIDE DEF failed
  <2>1. DeviceSynced => act' = [act EXCEPT !.dev = NoDevice, !.at = "none"]
    BY DEF DeviceSynced
  <2>2. DeviceStopped => act' = [act EXCEPT !.dev = NoDevice, !.at = "none",
                                            !.failed = failed]
    BY DEF DeviceStopped, failed
  <2> QED BY <1>1, <2>1, <2>2 DEF ActTypes
<1> HIDE DEF n
<1>10. ASSUME SkipLink
       PROVE  /\ chain'.links = chain.links /\ chain'.settled = n
              /\ ~chain'.running /\ ~chain'.broken
              /\ chain'.current = chain.current
  BY <1>1, <1>4, <1>10 DEF ChainTypes
<1>11. ASSUME StartLink
       PROVE  /\ chain'.links = chain.links /\ chain'.settled = chain.settled
              /\ chain'.running /\ ~chain'.broken /\ chain'.current = n
              /\ act'.todo = connected /\ act'.dev = act.dev /\ act'.at = act.at
  BY <1>1, <1>5, <1>11 DEF ChainTypes, ActTypes
<1>12. ASSUME EndLink
       PROVE  /\ chain'.links = chain.links /\ ~chain'.running
              /\ chain'.current = chain.current
              /\ act'.todo = {} /\ act'.dev = act.dev /\ act'.at = act.at
              /\ \/ chain'.broken /\ chain'.settled = chain.settled
                 \/ chain'.broken = chain.broken /\ chain'.settled = n
  BY <1>1, <1>6, <1>12 DEF ChainTypes, ActTypes
<1>13. ASSUME NEW d \in Devices, VisitDevice(d)
       PROVE  /\ act'.dev = d /\ act'.todo = act.todo \ {d}
              /\ act'.at = IF Initial THEN "install" ELSE "sync"
  <2> DEFINE at == IF Initial THEN "install" ELSE "sync"
  <2> HIDE DEF at
  <2>1. act' = [act EXCEPT !.todo = act.todo \ {d}, !.dev = d, !.at = at]
    BY <1>7, <1>13 DEF at
  <2>2. act'.dev = d /\ act'.todo = act.todo \ {d} /\ act'.at = at
    BY <1>1, <2>1 DEF ActTypes
  <2> QED BY <2>2 DEF at
<1>14. act.dev = NoDevice => act.at = "none"
  BY <1>2
<1> QED BY <1>2, <1>3, <1>4, <1>5, <1>6, <1>7, <1>8, <1>9, <1>10, <1>11, <1>12,
           <1>13, <1>14 DEF n

(* A failing device action stops its device.                               *)
LEMMA DeviceFailsDoes ==
  ASSUME TypeInv, DeviceFails
  PROVE  /\ stop[InAction].at = "idle" /\ OnlyCall(InAction)
         /\ act.at \in {"install", "sync"}
         /\ UNCHANGED <<chain, prep, watch, run, handlers, connected, changes,
                        told, escaped>>
         /\ \/ /\ session.state = "live"
               /\ TakesOut(InAction, session.descs \intersect {act.dev})
               /\ stop'[InAction].at \in {"lonely", "closing", "action"}
               /\ Goes(InAction) /\ UNCHANGED skipped
            \/ /\ session.state # "live" /\ UNCHANGED <<session, taken>>
               /\ stop'[InAction].at = "done"
               /\ skipped' = IF Initial THEN skipped \union {act.dev} ELSE skipped
<1>1. InAction \in StopCalls /\ {act.dev} # {} BY DEF StopCalls
<1>2. /\ BeginStop(InAction, {act.dev}, connected)
      /\ act.at \in {"install", "sync"}
      /\ UNCHANGED <<chain, prep, watch, run, handlers, connected, changes, told,
                     escaped>>
      /\ skipped' = IF session.state # "live" /\ Initial
                    THEN skipped \union {act.dev} ELSE skipped
  BY DEF DeviceFails
<1>3. Taking({act.dev}) = session.descs \intersect {act.dev}
  BY <1>1 DEF Taking
<1> QED BY <1>1, <1>2, <1>3, BeginStopDoes

(* What the client and the devices do with a LiveSync.                     *)
LEMMA ClientDoes ==
  ASSUME TypeInv,
         \/ \E s \in UserStops : UserStop(s)
         \/ \E d \in Devices : DeviceLost(d)
  PROVE  /\ UNCHANGED <<chain, act, prep, watch, run, handlers, changes, told,
                        skipped, escaped, orphaned>>
         /\ connected' \subseteq connected
         /\ \/ UNCHANGED <<session, stop, taken>>
            \/ \E s \in StopCalls \ {InAction}, ids \in SUBSET Devices : \E devices :
                  BeginStop(s, ids, devices)
<1>1. ASSUME NEW s \in UserStops, UserStop(s)
      PROVE  /\ UNCHANGED <<chain, act, prep, watch, run, handlers, connected,
                            changes, told, skipped, escaped, orphaned>>
             /\ \E ids \in SUBSET Devices : \E devices : BeginStop(s, ids, devices)
  BY <1>1 DEF UserStop
<1>2. ASSUME NEW d \in Devices, DeviceLost(d)
      PROVE  /\ UNCHANGED <<chain, act, prep, watch, run, handlers, changes, told,
                            skipped, escaped, orphaned>>
             /\ connected' \subseteq connected
             /\ \/ UNCHANGED <<session, stop, taken>>
                \/ \E ids \in SUBSET Devices : \E devices : BeginStop(d, ids, devices)
  BY <1>2 DEF DeviceLost
<1>3. UserStops \subseteq StopCalls \ {InAction} /\ Devices \subseteq StopCalls \ {InAction}
  BY DEF StopCalls
<1> QED BY <1>1, <1>2, <1>3

-----------------------------------------------------------------------------
(* What a step can do to the calls of stop(), the chain and the watchers   *)

(* The calls of run() that do not add devices change nothing else.         *)
LEMMA RunAside ==
  ASSUME NEW r \in Runs, RunCall(r) \/ RunFails(r) \/ RunReturns(r)
  PROVE  UNCHANGED <<session, chain, act, prep, watch, stop, connected, changes,
                     history>>
BY DEF RunCall, RunFails, RunReturns

(* The steps of prepare() and webpack touch neither calls nor links.       *)
LEMMA WebpackAside ==
  ASSUME WebpackStep
  PROVE  UNCHANGED <<session, chain, act, calls, handlers, connected, changes,
                     told, taken, skipped, orphaned>>
BY DEF WebpackStep, StartWatcher, SpawnWebpack, FirstCompilation, PrepareEnds,
       PrepareFails, PrepareStep, WebpackDies, history

(* Every step of a link but the failing of a device leaves stop() alone.   *)
LEMMA LinkAside ==
  ASSUME LinkStep, ~DeviceFails
  PROVE  /\ UNCHANGED <<session, watch, run, handlers, connected, changes, told,
                        gone, stale, overtaken, escaped>>
         /\ ~DeviceStopped => UNCHANGED stop
BY DEF LinkStep, SkipLink, StartLink, EndLink, VisitDevice, StartTransfer,
       DeviceSynced, DeviceStopped, calls, taken, history

LEMMA CallSteps ==
  ASSUME TypeInv, [Next]_vars, NEW s \in StopCalls
  PROVE  \/ stop'[s] = stop[s]
         \/ \E ids, devices : BeginStop(s, ids, devices)
         \/ StopLonely(s) \/ StopClosing(s) \/ StopChain(s) \/ StopReturns(s)
         \/ s = InAction /\ DeviceStopped
<1>1. ASSUME NEW t \in StopCalls, NEW ids, NEW devices, BeginStop(t, ids, devices)
      PROVE  stop'[s] = stop[s] \/ BeginStop(s, ids, devices)
  BY <1>1, BeginStopDoes DEF OnlyCall
<1>2. ASSUME NEW t \in StopCalls, StopLonely(t)
      PROVE  stop'[s] = stop[s] \/ StopLonely(s)
  BY <1>2, StopLonelyDoes DEF OnlyCall
<1>3. ASSUME NEW t \in StopCalls, StopClosing(t)
      PROVE  stop'[s] = stop[s] \/ StopClosing(s)
  BY <1>3, StopClosingDoes DEF OnlyCall
<1>4. ASSUME NEW t \in StopCalls, StopChain(t) \/ StopReturns(t)
      PROVE  stop'[s] = stop[s] \/ StopChain(s) \/ StopReturns(s)
  BY <1>4, StopEndsDoes DEF OnlyCall
<1>5. CASE \/ \E t \in UserStops : UserStop(t)
           \/ \E d \in Devices : DeviceLost(d)
  BY <1>1, <1>5, ClientDoes
<1>6. CASE DeviceFails
  BY <1>1, <1>6 DEF DeviceFails, StopCalls
<1>7. DeviceStopped => stop'[s] = stop[s] \/ s = InAction
  BY DEF DeviceStopped, TypeInv, TypeOK, StateOK
<1>8. CASE LinkStep BY <1>6, <1>7, <1>8, LinkAside
<1>9. CASE WebpackStep BY <1>9, WebpackAside DEF calls
<1>10. ASSUME NEW r \in Runs,
              RunCall(r) \/ RunFails(r) \/ RunStart(r) \/ RunReturns(r)
       PROVE  UNCHANGED stop
  BY <1>10, RunAside, RunStartDoes
<1>11. ASSUME NEW q \in Platforms,
              ChangeReported(q) \/ \E c \in Changes : NativeChecked(c, q)
       PROVE  UNCHANGED stop
  BY <1>11, ChangesDo DEF calls
<1>12. UNCHANGED vars => UNCHANGED stop BY DEF vars, calls
<1> QED BY <1>2, <1>3, <1>4, <1>5, <1>8, <1>9, <1>10, <1>11, <1>12
        DEF Next, System, Environment, LinkStep, WebpackStep

LEMMA ChainSteps ==
  ASSUME TypeInv, [Next]_vars
  PROVE  \/ UNCHANGED chain
         \/ \E r \in Runs : RunStart(r)
         \/ /\ \E q \in Platforms, c \in Changes : Grows({}, q, c)
            /\ chain'.current = chain.current
            /\ UNCHANGED <<session, act, prep, watch, calls, handlers, connected,
                           told, gone, stale, overtaken, deployed, skipped,
                           escaped, orphaned>>
         \/ SkipLink \/ StartLink \/ EndLink
<1>1. ASSUME NEW s, UserStop(s) \/ StopLonely(s) \/ StopClosing(s) \/ StopChain(s)
                    \/ StopReturns(s) \/ DeviceLost(s)
      PROVE  UNCHANGED chain
  BY <1>1 DEF UserStop, StopLonely, StopClosing, StopChain, StopReturns, DeviceLost
<1>2. ASSUME NEW d, VisitDevice(d) PROVE UNCHANGED chain
  BY <1>2 DEF VisitDevice
<1>3. StartTransfer \/ DeviceSynced \/ DeviceFails \/ DeviceStopped => UNCHANGED chain
  BY DEF StartTransfer, DeviceSynced, DeviceFails, DeviceStopped
<1>4. WebpackStep => UNCHANGED chain BY WebpackAside
<1>5. UNCHANGED vars => UNCHANGED chain BY DEF vars
<1> QED BY <1>1, <1>2, <1>3, <1>4, <1>5, RunAside, ChangesDo
        DEF Next, System, Environment, LinkStep, WebpackStep

(* What starts a webpack process is prepare(); what ends one is stop().    *)
LEMMA WatchSteps ==
  ASSUME TypeInv, [Next]_vars
  PROVE  \/ UNCHANGED <<watch, escaped>>
         \/ \E q \in Platforms : CloseWatcher(q) /\ ~StartWatcher
         \/ StartWatcher
         \/ /\ \A q \in Platforms : watch'[q] # "off" <=> watch[q] # "off"
            /\ UNCHANGED escaped
<1>1. ASSUME NEW s, UserStop(s) \/ StopChain(s) \/ StopReturns(s) \/ DeviceLost(s)
      PROVE  UNCHANGED <<watch, escaped>>
  BY <1>1 DEF UserStop, StopChain, StopReturns, DeviceLost
<1>2. ASSUME NEW s \in StopCalls, StopLonely(s)
      PROVE  \/ UNCHANGED <<watch, escaped>>
             \/ \E q \in Platforms : CloseWatcher(q) /\ ~StartWatcher
  <2>2. ASSUME NEW q \in Platforms, CloseWatcher(q), StartWatcher
        PROVE  UNCHANGED <<watch, escaped>>
    <3>1. watch'[q] = "off" /\ \A p \in Platforms \ {q} : watch'[p] = watch[p]
      BY <2>2 DEF CloseWatcher, TypeInv, TypeOK, StateOK, WatchTypes
    <3>2. \/ UNCHANGED <<watch, escaped>>
          \/ watch[prep.platform] = "off" /\ watch'[prep.platform] = "spawning"
             /\ prep.platform \in Platforms
      BY <2>2 DEF StartWatcher, PrepareStep, TypeInv, TypeOK, StateOK,
           PrepTypes, PrepareHasPlatform, PreparePending, WatchTypes
    <3> QED BY <3>1, <3>2
  <2> QED BY <1>2, <2>2, StopLonelyDoes
<1>3. ASSUME NEW s \in StopCalls, StopClosing(s)
      PROVE  \/ UNCHANGED <<watch, escaped>>
             \/ \E q \in Platforms : CloseWatcher(q) /\ ~StartWatcher
  <2>1. ASSUME NEW q \in stop[s].left, CloseWatcher(q), StartWatcher
        PROVE  FALSE
    <3>1. stop'[s] = stop[s] BY <2>1, WebpackAside DEF WebpackStep, calls
    <3> QED BY <1>3, <2>1, <3>1, StopClosingDoes
  <2>2. stop[s].left \subseteq Platforms BY DEF TypeInv, TypeOK, StateOK, StopTypes
  <2> QED BY <1>3, <2>1, <2>2, StopClosingDoes
<1>4. CASE LinkStep
  BY <1>4, LinkAside, DeviceFailsDoes
<1>5. CASE SpawnWebpack \/ FirstCompilation \/ \E q \in Platforms : WebpackDies(q)
  <2>1. PICK q \in Platforms, at \in {"compiling", "on", "dead"} :
           /\ watch[q] # "off" /\ watch' = [watch EXCEPT ![q] = at]
           /\ UNCHANGED escaped
    BY <1>5 DEF SpawnWebpack, FirstCompilation, WebpackDies, PrepareStep, TypeInv,
       TypeOK, StateOK, PrepTypes, PrepareHasPlatform, PreparePending, history
  <2> QED BY <2>1 DEF TypeInv, TypeOK, StateOK, WatchTypes
<1>6. PrepareEnds \/ PrepareFails => UNCHANGED <<watch, escaped>>
  BY DEF PrepareEnds, PrepareFails
<1>7. UNCHANGED vars => UNCHANGED <<watch, escaped>> BY DEF vars, history
<1>8. ASSUME NEW r \in Runs,
             RunCall(r) \/ RunFails(r) \/ RunStart(r) \/ RunReturns(r)
      PROVE  UNCHANGED <<watch, escaped>>
  BY <1>8, RunAside, RunStartDoes DEF history
<1>9. ASSUME NEW q \in Platforms,
             ChangeReported(q) \/ \E c \in Changes : NativeChecked(c, q)
      PROVE  UNCHANGED <<watch, escaped>>
  BY <1>9, ChangesDo
<1> QED BY <1>1, <1>2, <1>3, <1>4, <1>5, <1>6, <1>7, <1>8, <1>9
        DEF Next, System, Environment, LinkStep

-----------------------------------------------------------------------------
(* A stopped LiveSync has closed its watchers *)

(* NoWatcherLeft is not inductive.  What runs, what is being prepared and  *)
(* what a link will prepare is of a platform of the LiveSync, so that the  *)
(* second loop of stop() leaves nothing out...                             *)
WatchersKnown ==
    \A q \in Platforms : watch[q] # "off" => q \in session.platforms

PrepareKnown == PreparePending => prep.platform \in session.platforms

LinksKnown ==
    \A n \in 1 .. Len(chain.links) : \A d \in chain.links[n].devs :
        PlatformOf[d] \in session.platforms

KnownInv == WatchersKnown /\ PrepareKnown /\ LinksKnown

(* ... and what it has closed stays closed, or it is started behind it.    *)
Quiet(q) == watch[q] = "off" \/ q \in escaped

ClosedStay ==
    \A s \in StopCalls : stop[s].at = "closing" =>
        \A q \in Platforms \ stop[s].left : Quiet(q)

ClosedInv == ClosedStay /\ NoWatcherLeft

LEMMA PlatformsGrow ==
  ASSUME TypeInv, [Next]_vars
  PROVE  session.platforms \subseteq session'.platforms
<1>1. CASE \A r \in Runs : ~RunStart(r) BY <1>1, OnlyRunAdds
<1>2. ASSUME NEW r \in Runs, RunStart(r)
      PROVE  session.platforms \subseteq session'.platforms
  BY <1>2, RunStartDoes DEF AllPlatforms
<1> QED BY <1>1, <1>2

LEMMA LinksStayKnown ==
  ASSUME TypeInv, LinksKnown, [Next]_vars
  PROVE  LinksKnown'
<1> USE DEF LinksKnown
<1>1. session.platforms \subseteq session'.platforms BY PlatformsGrow
<1>2. chain \in ChainTypes /\ Len(chain.links) \in Nat
  BY LenProperties DEF TypeInv, TypeOK, StateOK, ChainTypes
<1>3. ASSUME UNCHANGED chain \/ chain'.links = chain.links PROVE LinksKnown'
  BY <1>1, <1>3
<1>4. ASSUME NEW devs, NEW platform, NEW change, Grows(devs, platform, change),
             \A d \in devs : PlatformOf[d] \in session'.platforms
      PROVE  LinksKnown'
  <2> SUFFICES ASSUME NEW n \in 1 .. Len(chain'.links), NEW d \in chain'.links[n].devs
               PROVE  PlatformOf[d] \in session'.platforms
    OBVIOUS
  <2>1. CASE n = Len(chain.links) + 1 BY <1>4, <2>1 DEF Grows
  <2>2. CASE n # Len(chain.links) + 1
    <3>1. n \in 1 .. Len(chain.links) BY <1>2, <1>4, <2>2 DEF Grows
    <3> QED BY <1>1, <1>4, <3>1 DEF Grows
  <2> QED BY <2>1, <2>2
<1>5. ASSUME NEW r \in Runs, RunStart(r) PROVE LinksKnown'
  <2>1. /\ Grows(InitialSyncFor(run[r].devs), NoPlatform, 0)
        /\ InitialSyncFor(run[r].devs) \subseteq run[r].devs
        /\ session'.platforms = AllPlatforms(run[r].devs)
    BY <1>5, RunStartDoes
  <2> QED BY <1>4, <2>1 DEF AllPlatforms
<1>6. ASSUME NEW q \in Platforms, NEW c \in Changes, Grows({}, q, c)
      PROVE  LinksKnown'
  BY <1>4, <1>6
<1>7. SkipLink \/ StartLink \/ EndLink => chain'.links = chain.links
  BY LinkDoes
<1> QED BY <1>3, <1>5, <1>6, <1>7, ChainSteps

(* A prepare() that goes on did so before, or is that of a device of a     *)
(* link.                                                                   *)
LEMMA PrepareStays ==
  ASSUME TypeInv, [Next]_vars, PreparePending'
  PROVE  \/ PreparePending /\ prep'.platform = prep.platform
         \/ \E d \in Devices :
               VisitDevice(d) /\ Initial /\ prep'.platform = PlatformOf[d]
<1> DEFINE Stays == PreparePending /\ prep'.platform = prep.platform
<1>1. prep \in PrepTypes BY DEF TypeInv, TypeOK, StateOK
<1>2. CASE UNCHANGED prep BY <1>2 DEF PreparePending
<1>3. ASSUME NEW q, CloseWatcher(q) PROVE Stays
  BY <1>1, <1>3 DEF CloseWatcher, PreparePending, PrepTypes
<1>4. CASE WebpackStep BY <1>4, PrepareIsAside DEF Aside
<1>5. ASSUME NEW d \in Devices, VisitDevice(d)
      PROVE  UNCHANGED prep \/ (Initial /\ prep'.platform = PlatformOf[d])
  BY <1>5 DEF VisitDevice
<1>6. SkipLink \/ StartLink \/ EndLink \/ StartTransfer \/ DeviceSynced
         \/ DeviceFails \/ DeviceStopped \/ UNCHANGED vars
      => UNCHANGED prep
  BY DEF SkipLink, StartLink, EndLink, StartTransfer, DeviceSynced, DeviceFails,
         DeviceStopped, vars
<1>7. ASSUME NEW s \in StopCalls, StopChain(s) \/ StopReturns(s)
      PROVE  UNCHANGED prep
  BY <1>7, StopEndsDoes
<1>8. ASSUME NEW s \in StopCalls, StopLonely(s) \/ StopClosing(s)
      PROVE  UNCHANGED prep \/ \E q : CloseWatcher(q)
  BY <1>8, StopLonelyDoes, StopClosingDoes
<1>9. ASSUME NEW r \in Runs,
             RunCall(r) \/ RunFails(r) \/ RunStart(r) \/ RunReturns(r)
      PROVE  UNCHANGED prep
  BY <1>9, RunAside, RunStartDoes
<1>10. ASSUME NEW q \in Platforms,
              ChangeReported(q) \/ \E c \in Changes : NativeChecked(c, q)
       PROVE  UNCHANGED prep
  BY <1>10, ChangesDo
<1> HIDE DEF Stays
<1> QED BY <1>2, <1>3, <1>4, <1>5, <1>6, <1>7, <1>8, <1>9, <1>10, ClientDoes
        DEF Next, System, Environment, WebpackStep, Stays

LEMMA NextKnown ==
  ASSUME TypeInv, KnownInv, [Next]_vars
  PROVE  KnownInv'
<1> USE DEF KnownInv
<1>1. session.platforms \subseteq session'.platforms BY PlatformsGrow
<1>2. WatchersKnown'
  <2> USE DEF WatchersKnown
  <2>1. ASSUME NEW q \in Platforms, CloseWatcher(q) PROVE WatchersKnown'
    BY <1>1, <2>1 DEF CloseWatcher, TypeInv, TypeOK, StateOK, WatchTypes
  <2>2. CASE StartWatcher
    <3>1. PreparePending /\ (UNCHANGED watch
              \/ watch' = [watch EXCEPT ![prep.platform] = "spawning"])
      BY <2>2 DEF StartWatcher, PrepareStep, PreparePending
    <3> QED BY <1>1, <3>1 DEF PrepareKnown, TypeInv, TypeOK, StateOK, WatchTypes
  <2> QED BY <1>1, <2>1, <2>2, WatchSteps
<1>3. PrepareKnown'
  <2> SUFFICES ASSUME PreparePending' PROVE prep'.platform \in session'.platforms
    BY DEF PrepareKnown
  <2>1. CASE PreparePending /\ prep'.platform = prep.platform
    BY <1>1, <2>1 DEF PrepareKnown
  <2>2. ASSUME NEW d \in Devices, VisitDevice(d), Initial,
               prep'.platform = PlatformOf[d]
        PROVE  prep'.platform \in session'.platforms
    <3>1. d \in Link.devs /\ chain.running
      BY <2>2 DEF VisitDevice, CanExecute
    <3>2. chain.settled + 1 \in 1 .. Len(chain.links)
      BY <3>1, LenProperties DEF TypeInv, TypeOK, StateOK, ChainInRange, ChainTypes
    <3> QED BY <1>1, <2>2, <3>1, <3>2 DEF LinksKnown, Link
  <2> QED BY <2>1, <2>2, PrepareStays
<1>4. LinksKnown' BY LinksStayKnown
<1> QED BY <1>2, <1>3, <1>4

(* A watcher that is closed stays so, but for one that prepare() starts,   *)
(* and when a stop() is past it, that one escapes.                         *)
LEMMA QuietStays ==
  ASSUME TypeInv, [Next]_vars, NEW q \in Platforms, Quiet(q),
         StartWatcher => ClosedBehind(q)
  PROVE  Quiet(q)'
<1> USE DEF Quiet
<1>1. ASSUME NEW p \in Platforms, CloseWatcher(p) PROVE Quiet(q)'
  BY <1>1 DEF CloseWatcher, TypeInv, TypeOK, StateOK, WatchTypes
<1>2. CASE StartWatcher
  <2>1. \/ UNCHANGED <<watch, escaped>>
        \/ /\ watch' = [watch EXCEPT ![prep.platform] = "spawning"]
           /\ escaped' = IF ClosedBehind(prep.platform)
                         THEN escaped \union {prep.platform} ELSE escaped
    BY <1>2 DEF StartWatcher
  <2> QED BY <1>2, <2>1 DEF TypeInv, TypeOK, StateOK, WatchTypes
<1>3. CASE (\A p \in Platforms : watch'[p] # "off" <=> watch[p] # "off")
           /\ UNCHANGED escaped
  BY <1>3
<1> QED BY <1>1, <1>2, <1>3, WatchSteps

(* Only the second loop of a stop() of everything stops the LiveSync.      *)
LEMMA OnlyClosingStops ==
  ASSUME TypeInv, [Next]_vars, session'.state = "stopped", session.state # "stopped"
  PROVE  \E s \in StopCalls : StopClosing(s)
<1> SUFFICES ASSUME \A s \in StopCalls : ~StopClosing(s) PROVE FALSE OBVIOUS
<1>1. ASSUME NEW s \in StopCalls, NEW ids, NEW devices, BeginStop(s, ids, devices)
      PROVE  session'.state = session.state
  BY <1>1, BeginStopDoes DEF TakesOut
<1>2. ASSUME NEW s \in StopCalls, StopChain(s) \/ StopReturns(s)
      PROVE  session'.state = session.state
  BY <1>2, StopEndsDoes DEF TypeInv, TypeOK, StateOK, SessionTypes
<1>3. ASSUME NEW s \in StopCalls, StopLonely(s) PROVE UNCHANGED session
  BY <1>3, StopLonelyDoes
<1>4. CASE LinkStep
  <2>1. CASE DeviceFails BY <2>1, DeviceFailsDoes DEF TakesOut
  <2> QED BY <1>4, <2>1, LinkAside
<1>5. WebpackStep => UNCHANGED session BY WebpackAside
<1>6. ASSUME NEW r \in Runs, RunStart(r) PROVE FALSE BY <1>6, RunStartDoes
<1>7. UNCHANGED vars => UNCHANGED session BY DEF vars
<1> QED BY <1>1, <1>2, <1>3, <1>4, <1>5, <1>6, <1>7, RunAside, ChangesDo, ClientDoes
        DEF Next, System, Environment, LinkStep, WebpackStep

LEMMA NextClosed ==
  ASSUME TypeInv, KnownInv, ClosedInv, [Next]_vars
  PROVE  ClosedInv'
<1> USE DEF ClosedInv
<1>1. ClosedStay'
  <2> SUFFICES ASSUME NEW s \in StopCalls, stop'[s].at = "closing",
                      NEW q \in Platforms \ stop'[s].left
               PROVE  Quiet(q)'
    BY DEF ClosedStay
  <2>1. ASSUME stop[s].at = "closing", stop'[s].left = stop[s].left
        PROVE  Quiet(q)'
    <3>1. Quiet(q) BY <2>1 DEF ClosedStay
    <3>2. ClosedBehind(q) BY <2>1 DEF ClosedBehind
    <3> QED BY <3>1, <3>2, QuietStays
  <2>2. ASSUME NEW p \in stop[s].left, CloseWatcher(p), stop[s].at = "closing",
               stop'[s].left = stop[s].left \ {p}
        PROVE  Quiet(q)'
    <3>1. CASE q = p
      BY <2>2, <3>1 DEF CloseWatcher, Quiet, TypeInv, TypeOK, StateOK, WatchTypes
    <3>2. CASE q # p
      <4>1. Quiet(q) BY <2>2, <3>2 DEF ClosedStay
      <4>2. ClosedBehind(q) BY <2>2, <3>2 DEF ClosedBehind
      <4> QED BY <4>1, <4>2, QuietStays
    <3> QED BY <3>1, <3>2
  <2>3. ASSUME stop[s].at # "closing", stop'[s].left = session.platforms
        PROVE  Quiet(q)'
    <3>1. watch[q] = "off" BY <2>3 DEF KnownInv, WatchersKnown
    <3>2. ~StartWatcher BY <2>3, WebpackAside DEF WebpackStep, calls
    <3> QED BY <3>1, <3>2, QuietStays DEF Quiet
  <2>4. ASSUME NEW ids, NEW devices, BeginStop(s, ids, devices) PROVE Quiet(q)'
    BY <2>3, <2>4, BeginStopDoes DEF Goes, GoesOn
  <2>5. CASE StopLonely(s) BY <2>3, <2>5, StopLonelyDoes DEF Goes, GoesOn
  <2>6. CASE StopClosing(s)
    BY <2>2, <2>6, StopClosingDoes
  <2>7. ~StopChain(s) /\ ~StopReturns(s) BY StopEndsDoes
  <2>8. ~(s = InAction /\ DeviceStopped)
    BY DEF DeviceStopped, NoStop, TypeInv, TypeOK, StateOK
  <2> QED BY <2>1, <2>4, <2>5, <2>6, <2>7, <2>8, CallSteps
<1>2. NoWatcherLeft'
  <2> SUFFICES ASSUME session'.state = "stopped", NEW q \in Platforms
               PROVE  Quiet(q)'
    BY DEF NoWatcherLeft, Quiet
  <2>1. CASE session.state = "stopped"
    <3>1. Quiet(q) /\ ClosedBehind(q)
      BY <2>1 DEF NoWatcherLeft, Quiet, ClosedBehind
    <3> QED BY <3>1, QuietStays
  <2>2. CASE session.state # "stopped"
    <3>1. PICK s \in StopCalls : StopClosing(s) BY <2>2, OnlyClosingStops
    <3>2. PICK p \in stop[s].left :
             CloseWatcher(p) /\ stop[s].left = {p} /\ stop[s].at = "closing"
      BY <2>2, <3>1, StopClosingDoes
    <3>3. CASE q = p
      BY <3>2, <3>3 DEF CloseWatcher, Quiet, TypeInv, TypeOK, StateOK, WatchTypes
    <3>4. CASE q # p
      <4>1. Quiet(q) BY <3>2, <3>4 DEF ClosedStay
      <4>2. ClosedBehind(q) BY <3>2, <3>4 DEF ClosedBehind
      <4> QED BY <4>1, <4>2, QuietStays
    <3> QED BY <3>3, <3>4
  <2> QED BY <2>1, <2>2
<1> QED BY <1>1, <1>2

LEMMA InitClosed == Init => KnownInv /\ ClosedInv
BY DEF Init, KnownInv, WatchersKnown, PrepareKnown, PreparePending, LinksKnown,
       ClosedInv, ClosedStay, NoStop, NoWatcherLeft

(* A LiveSync that has been stopped leaves no webpack process behind, for  *)
(* any calls of run() and stop() that overlap and any device that fails,   *)
(* but those prepare() starts behind the back of a stop().                 *)
THEOREM StoppedLeavesNoWatcher == Spec => []NoWatcherLeft
<1>1. TypeInv /\ KnownInv /\ [Next]_vars => KnownInv' BY NextKnown
<1>2. TypeInv /\ KnownInv /\ ClosedInv /\ [Next]_vars => ClosedInv' BY NextClosed
<1>3. ClosedInv => NoWatcherLeft BY DEF ClosedInv
<1> QED BY <1>1, <1>2, <1>3, InitClosed, InitType, NextType, PTL DEF Spec

-----------------------------------------------------------------------------
(* No device waits for two initial syncs *)

(* NoDeviceIsDeployedTwice is not inductive: run() leaves out the devices  *)
(* that are described, so those that are due must be described.            *)
DueInv ==
    \A n \in FirstPending .. Len(chain.links) : \A d \in Due(n) :
        session.state = "live" /\ d \in session.descs

OnceInv == DueInv /\ NoDeviceIsDeployedTwice

(* The link that runs visits its devices, each of them once.               *)
ActMoves ==
    /\ act'.todo \subseteq act.todo
    /\ \/ act'.dev = NoDevice
       \/ act'.dev = act.dev /\ (act.at = "stopping" => act'.at = "stopping")
       \/ act'.dev \in act.todo

LEMMA ActSteps ==
  ASSUME TypeInv, [Next]_vars, ~StartLink
  PROVE  ActMoves
<1>1. UNCHANGED act => ActMoves BY DEF ActMoves
<1>2. SkipLink \/ EndLink => ActMoves
  <2>1. SkipLink => UNCHANGED act BY DEF SkipLink
  <2>2. EndLink => act'.todo = {} /\ act'.dev = NoDevice BY LinkDoes
  <2> QED BY <1>1, <2>1, <2>2 DEF ActMoves
<1>3. ASSUME NEW d \in Devices, VisitDevice(d) PROVE ActMoves
  BY <1>3, LinkDoes DEF ActMoves, VisitDevice
<1>4. StartTransfer => ActMoves BY LinkDoes DEF ActMoves, StartTransfer
<1>5. DeviceFails => ActMoves
  <2>1. DeviceFails /\ ~StartTransfer => ActMoves BY LinkDoes DEF ActMoves
  <2> QED BY <1>4, <2>1
<1>6. DeviceSynced \/ DeviceStopped => ActMoves BY LinkDoes DEF ActMoves
<1>7. ASSUME NEW s \in StopCalls,
             StopLonely(s) \/ StopClosing(s) \/ StopChain(s) \/ StopReturns(s)
      PROVE  UNCHANGED act
  BY <1>7, StopLonelyDoes, StopClosingDoes, StopEndsDoes
<1>8. ASSUME NEW r \in Runs,
             RunCall(r) \/ RunFails(r) \/ RunStart(r) \/ RunReturns(r)
      PROVE  UNCHANGED act
  BY <1>8, RunAside, RunStartDoes
<1>9. UNCHANGED vars => UNCHANGED act BY DEF vars
<1> QED BY <1>1, <1>2, <1>3, <1>4, <1>5, <1>6, <1>7, <1>8, <1>9, ClientDoes,
           ChangesDo, WebpackAside
        DEF Next, System, Environment, WebpackStep

(* What a link has to do becomes less, whatever happens.                   *)
Less(n) == n \in FirstPending .. Len(chain.links) /\ Due(n)' \subseteq Due(n)

LEMMA StaleGrows ==
  ASSUME TypeInv, [Next]_vars
  PROVE  stale \subseteq stale' /\ overtaken \subseteq overtaken'
<1>1. ASSUME NEW s \in StopCalls, NEW ids, NEW devices, BeginStop(s, ids, devices)
      PROVE  stale \subseteq stale' /\ overtaken \subseteq overtaken'
  BY <1>1, BeginStopDoes DEF TakesOut, taken
<1>2. ASSUME NEW s \in StopCalls,
             StopLonely(s) \/ StopClosing(s) \/ StopChain(s) \/ StopReturns(s)
      PROVE  stale \subseteq stale' /\ overtaken \subseteq overtaken'
  <2>1. CASE StopLonely(s) BY <2>1, StopLonelyDoes DEF taken
  <2>2. CASE StopClosing(s) BY <2>2, StopClosingDoes
  <2>3. CASE StopChain(s) \/ StopReturns(s) BY <2>3, StopEndsDoes
  <2> QED BY <1>2, <2>1, <2>2, <2>3
<1>3. CASE LinkStep
  <2>1. CASE DeviceFails BY <2>1, DeviceFailsDoes DEF TakesOut, taken
  <2> QED BY <1>3, <2>1, LinkAside
<1>4. WebpackStep => UNCHANGED <<stale, overtaken>> BY WebpackAside DEF taken
<1>5. ASSUME NEW r \in Runs, RunCall(r) \/ RunFails(r) \/ RunStart(r) \/ RunReturns(r)
      PROVE  UNCHANGED <<stale, overtaken>>
  BY <1>5, RunAside, RunStartDoes DEF history, taken
<1>6. UNCHANGED vars => UNCHANGED <<stale, overtaken>> BY DEF vars, history, taken
<1>7. CASE \/ \E s \in UserStops : UserStop(s)
           \/ \E d \in Devices : DeviceLost(d)
  BY <1>1, <1>7, ClientDoes DEF taken
<1> QED BY <1>2, <1>3, <1>4, <1>5, <1>6, <1>7, ChangesDo
        DEF Next, System, Environment, LinkStep, WebpackStep

LEMMA DueOfSameLink ==
  ASSUME TypeInv, [Next]_vars, ActMoves, NEW n \in FirstPending .. Len(chain.links),
         chain'.links[n] = chain.links[n], chain'.settled = chain.settled,
         chain'.running = chain.running, chain'.broken = chain.broken
  PROVE  Less(n)
<1>1. stale \subseteq stale' BY StaleGrows
<1> SUFFICES ASSUME NEW d \in Due(n)' PROVE d \in Due(n)
  BY DEF Less
<1>2. /\ d \in chain.links[n].devs /\ ~chain.broken /\ <<n, d>> \notin stale
      /\ chain.running /\ n = chain.settled + 1 =>
            d \in act'.todo \/ (d = act'.dev /\ act'.at # "stopping")
  BY <1>1 DEF Due
<1>3. d # NoDevice
  <2>1. chain.links \in Seq(Links) /\ Len(chain.links) \in Nat /\ chain.settled \in Nat
    BY LenProperties DEF TypeInv, TypeOK, StateOK, ChainTypes
  <2>2. n \in 1 .. Len(chain.links) BY <2>1 DEF FirstPending
  <2>3. chain.links[n] \in Links BY <2>1, <2>2, ElementOfSeq
  <2> QED BY <1>2, <2>3, ConstantsAssumption DEF Links
<1> QED BY <1>2, <1>3 DEF Due, ActMoves

LEMMA DueShrinks ==
  ASSUME TypeInv, [Next]_vars,
         NEW n \in chain'.settled + 1 .. Len(chain'.links)
  PROVE  \/ Less(n)
         \/ Due(n)' = {}
         \/ /\ n = Len(chain.links) + 1
            /\ \E r \in Runs : RunStart(r) /\ Due(n)' \subseteq InitialSyncFor(run[r].devs)
<1>1. stale \subseteq stale' BY StaleGrows
<1>2. chain \in ChainTypes /\ Len(chain.links) \in Nat /\ chain.settled \in Nat
  BY LenProperties DEF TypeInv, TypeOK, StateOK, ChainTypes
<1>3. ASSUME UNCHANGED chain PROVE Less(n)
  <2>1. ~StartLink BY <1>3, LinkDoes
  <2> QED BY <1>3, <2>1, ActSteps, DueOfSameLink DEF FirstPending
<1>4. ASSUME NEW devs, NEW platform, NEW change, Grows(devs, platform, change)
      PROVE  \/ Less(n)
             \/ n = Len(chain.links) + 1 /\ Due(n)' \subseteq devs
  <2>1. ~StartLink BY <1>2, <1>4, LinkDoes DEF Grows
  <2>2. CASE n = Len(chain.links) + 1 BY <1>4, <2>2 DEF Grows, Due
  <2>3. CASE n # Len(chain.links) + 1
    <3>1. n \in FirstPending .. Len(chain.links) /\ n \in 1 .. Len(chain.links)
      BY <1>2, <1>4, <2>3 DEF Grows, FirstPending
    <3> QED BY <1>4, <2>1, <3>1, ActSteps, DueOfSameLink DEF Grows
  <2> QED BY <2>2, <2>3
<1>5. CASE SkipLink
  <2>1. /\ chain'.links = chain.links /\ ~chain.running /\ ~chain'.running
        /\ ~chain.broken /\ chain'.settled = chain.settled + 1
    BY <1>5, LinkDoes
  <2>2. n \in FirstPending .. Len(chain.links) BY <1>2, <2>1 DEF FirstPending
  <2> QED BY <1>1, <2>1, <2>2 DEF Due, Less
<1>6. CASE StartLink
  <2>1. /\ chain'.links = chain.links /\ ~chain.running /\ chain'.settled = chain.settled
        /\ ~chain.broken
    BY <1>6, LinkDoes
  <2>2. n \in FirstPending .. Len(chain.links) BY <1>2, <2>1 DEF FirstPending
  <2> QED BY <1>1, <2>1, <2>2 DEF Due, Less
<1>7. CASE EndLink
  <2>1. /\ chain'.links = chain.links /\ chain.running /\ ~chain'.running
        /\ \/ chain'.broken
           \/ chain'.broken = chain.broken /\ chain'.settled = chain.settled + 1
    BY <1>7, LinkDoes
  <2>2. CASE chain'.broken BY <2>2 DEF Due
  <2>3. CASE chain'.broken = chain.broken /\ chain'.settled = chain.settled + 1
    <3>1. n \in FirstPending .. Len(chain.links) /\ n # chain.settled + 1
      BY <1>2, <2>1, <2>3 DEF FirstPending
    <3> QED BY <1>1, <2>1, <2>3, <3>1 DEF Due, Less
  <2> QED BY <2>1, <2>2, <2>3
<1>8. ASSUME NEW r \in Runs, RunStart(r)
      PROVE  \/ Less(n)
             \/ n = Len(chain.links) + 1 /\ Due(n)' \subseteq InitialSyncFor(run[r].devs)
  BY <1>4, <1>8, RunStartDoes
<1>9. ASSUME NEW q \in Platforms, NEW c \in Changes, Grows({}, q, c)
      PROVE  Less(n) \/ Due(n)' = {}
  <2> Due(n)' \subseteq {} => Due(n)' = {} OBVIOUS
  <2> QED BY <1>4, <1>9
<1> QED BY <1>3, <1>5, <1>6, <1>7, <1>8, <1>9, ChainSteps

(* When a stop() takes a device out, nothing is due for it any more.       *)
LEMMA DescsStay ==
  ASSUME TypeInv, DueInv, [Next]_vars, NEW n \in FirstPending .. Len(chain.links),
         NEW d \in Due(n), <<n, d>> \notin stale'
  PROVE  session'.state = "live" /\ d \in session'.descs
<1>1. session.state = "live" /\ d \in session.descs BY DEF DueInv
<1>2. d \in Devices BY <1>1 DEF TypeInv, TypeOK, StateOK, SessionTypes
<1>3. ASSUME NEW devices, d \in devices
      PROVE  <<n, d>> \in Naming(FirstPending, devices)
  BY <1>3 DEF Naming, Due
<1>4. ASSUME NEW s \in StopCalls, NEW removed, TakesOut(s, removed)
      PROVE  session'.state = "live" /\ d \in session'.descs
  BY <1>1, <1>3, <1>4 DEF TakesOut
<1>5. CASE UNCHANGED session BY <1>1, <1>5
<1>6. ASSUME NEW s \in StopCalls, NEW ids, NEW devices, BeginStop(s, ids, devices)
      PROVE  session'.state = "live" /\ d \in session'.descs
  BY <1>1, <1>4, <1>6, BeginStopDoes
<1>7. ASSUME NEW s \in StopCalls, StopClosing(s) PROVE UNCHANGED session
  BY <1>2, <1>3, <1>7, StopClosingDoes
<1>8. ASSUME NEW s \in StopCalls, StopChain(s) \/ StopReturns(s)
      PROVE  UNCHANGED session
  BY <1>1, <1>3, <1>8, StopEndsDoes
<1>9. ASSUME NEW s \in StopCalls, StopLonely(s) PROVE UNCHANGED session
  BY <1>9, StopLonelyDoes
<1>10. CASE LinkStep
  <2>1. CASE DeviceFails
    BY <1>1, <1>4, <2>1, DeviceFailsDoes DEF StopCalls
  <2> QED BY <1>5, <1>10, <2>1, LinkAside
<1>11. WebpackStep => UNCHANGED session BY WebpackAside
<1>12. ASSUME NEW r \in Runs, RunStart(r)
       PROVE  session'.state = "live" /\ d \in session'.descs
  BY <1>1, <1>12, RunStartDoes
<1>13. UNCHANGED vars => UNCHANGED session BY DEF vars
<1>14. CASE \/ \E s \in UserStops : UserStop(s)
            \/ \E e \in Devices : DeviceLost(e)
  BY <1>5, <1>6, <1>14, ClientDoes
<1> QED BY <1>5, <1>7, <1>8, <1>9, <1>10, <1>11, <1>12, <1>13, <1>14, RunAside,
           ChangesDo
        DEF Next, System, Environment, LinkStep, WebpackStep

LEMMA NextOnce ==
  ASSUME TypeInv, OnceInv, [Next]_vars
  PROVE  OnceInv'
<1> USE DEF OnceInv
<1> DEFINE New(n) == /\ n = Len(chain.links) + 1
                     /\ \E r \in Runs : /\ RunStart(r)
                                        /\ Due(n)' \subseteq InitialSyncFor(run[r].devs)
<1>1. ASSUME NEW n \in chain'.settled + 1 .. Len(chain'.links)
      PROVE  Less(n) \/ Due(n)' = {} \/ New(n)
  BY <1>1, DueShrinks
<1>2. ASSUME NEW n, NEW m, New(n), Less(m)
      PROVE  Due(n)' \intersect Due(m)' = {}
  <2>1. PICK r \in Runs : RunStart(r) /\ Due(n)' \subseteq InitialSyncFor(run[r].devs)
    BY <1>2
  <2>2. \A d \in Due(m)' : session.state = "live" /\ d \in session.descs
    BY <1>2 DEF Less, DueInv
  <2> QED BY <2>1, <2>2 DEF InitialSyncFor
<1>3. DueInv'
  <2> SUFFICES ASSUME NEW n \in chain'.settled + 1 .. Len(chain'.links),
                      NEW d \in Due(n)'
               PROVE  session'.state = "live" /\ d \in session'.descs
    BY DEF DueInv, FirstPending
  <2>1. CASE Less(n)
    <3>1. d \in Due(n) /\ n \in FirstPending .. Len(chain.links) BY <2>1 DEF Less
    <3>2. <<n, d>> \notin stale' BY DEF Due
    <3> QED BY <3>1, <3>2, DescsStay
  <2>2. CASE New(n)
    BY <2>2, RunStartDoes
  <2> QED BY <1>1, <2>1, <2>2
<1>4. NoDeviceIsDeployedTwice'
  <2> SUFFICES ASSUME NEW i \in chain'.settled + 1 .. Len(chain'.links),
                      NEW j \in chain'.settled + 1 .. Len(chain'.links), i # j
               PROVE  Due(i)' \intersect Due(j)' = {}
    BY DEF NoDeviceIsDeployedTwice
  <2>1. CASE Less(i) /\ Less(j)
    BY <2>1 DEF Less, NoDeviceIsDeployedTwice, FirstPending
  <2>2. CASE New(i) /\ New(j) BY <2>2
  <2>3. CASE New(i) /\ Less(j) BY <1>2, <2>3
  <2>4. CASE Less(i) /\ New(j) BY <1>2, <2>4
  <2> QED BY <1>1, <2>1, <2>2, <2>3, <2>4
<1> QED BY <1>3, <1>4

LEMMA InitOnce == Init => OnceInv
BY DEF Init, OnceInv, DueInv, NoDeviceIsDeployedTwice, FirstPending

(* No device is due for two initial syncs, for any calls of run() that     *)
(* overlap, with stop(), failing devices and lost ones in between.         *)
THEOREM DeployedOnce == Spec => []NoDeviceIsDeployedTwice
<1>1. TypeInv /\ OnceInv /\ [Next]_vars => OnceInv' BY NextOnce
<1>2. OnceInv => NoDeviceIsDeployedTwice BY DEF OnceInv
<1> QED BY <1>1, <1>2, InitOnce, InitType, NextType, PTL DEF Spec

-----------------------------------------------------------------------------
(* The initial sync of a device comes before its changes *)

(* The link that runs belongs to a chain that goes on, and run() and it    *)
(* itself are the last to have set currentSyncAction.                      *)
ShapeInv ==
    /\ \A n \in 1 .. Len(chain.links) :
          chain.links[n].devs # {} => chain.links[n].change = 0
    /\ chain.running => ~chain.broken /\ chain.current >= chain.settled + 1
    /\ act.dev \notin act.todo

(* Only the steps of links end links; the others add some, or none.        *)
ChainKept ==
    /\ Len(chain'.links) >= Len(chain.links)
    /\ \A n \in 1 .. Len(chain.links) : chain'.links[n] = chain.links[n]
    /\ chain'.settled = chain.settled /\ chain'.running = chain.running
    /\ chain'.broken = chain.broken

LEMMA ChainIsKept ==
  ASSUME TypeInv, [Next]_vars, ~SkipLink, ~StartLink, ~EndLink
  PROVE  ChainKept
<1>1. chain \in ChainTypes /\ Len(chain.links) \in Nat
  BY LenProperties DEF TypeInv, TypeOK, StateOK, ChainTypes
<1>2. ASSUME NEW devs, NEW platform, NEW change, Grows(devs, platform, change)
      PROVE  ChainKept
  BY <1>1, <1>2 DEF Grows, ChainKept
<1>3. UNCHANGED chain => ChainKept BY <1>1 DEF ChainKept
<1> QED BY <1>2, <1>3, ChainSteps, RunStartDoes

LEMMA ActIsKept ==
  ASSUME TypeInv, [Next]_vars
  PROVE  LinkStep \/ UNCHANGED act
<1>1. ASSUME NEW s \in StopCalls,
             StopLonely(s) \/ StopClosing(s) \/ StopChain(s) \/ StopReturns(s)
      PROVE  UNCHANGED act
  BY <1>1, StopLonelyDoes, StopClosingDoes, StopEndsDoes
<1>2. ASSUME NEW r \in Runs,
             RunCall(r) \/ RunFails(r) \/ RunStart(r) \/ RunReturns(r)
      PROVE  UNCHANGED act
  BY <1>2, RunAside, RunStartDoes
<1>3. UNCHANGED vars => UNCHANGED act BY DEF vars
<1> QED BY <1>1, <1>2, <1>3, ClientDoes, ChangesDo, WebpackAside
        DEF Next, System, Environment, WebpackStep, LinkStep

LEMMA NextShape ==
  ASSUME TypeInv, ShapeInv, [Next]_vars
  PROVE  ShapeInv'
<1>1. /\ chain \in ChainTypes /\ act \in ActTypes
      /\ Len(chain.links) \in Nat /\ chain.settled \in Nat /\ chain.current \in Nat
      /\ ChainInRange /\ connected \subseteq Devices
  BY LenProperties DEF TypeInv, TypeOK, StateOK, ChainTypes
<1>2. (\A n \in 1 .. Len(chain.links) :
          chain.links[n].devs # {} => chain.links[n].change = 0)'
  <2>1. ASSUME NEW devs, NEW platform, NEW change, Grows(devs, platform, change),
               devs # {} => change = 0
        PROVE  \A n \in 1 .. Len(chain'.links) :
                  chain'.links[n].devs # {} => chain'.links[n].change = 0
    <3> SUFFICES ASSUME NEW n \in 1 .. Len(chain'.links), chain'.links[n].devs # {}
                 PROVE  chain'.links[n].change = 0
      OBVIOUS
    <3>1. CASE n = Len(chain.links) + 1 BY <2>1, <3>1 DEF Grows
    <3>2. CASE n # Len(chain.links) + 1
      <4>1. n \in 1 .. Len(chain.links) BY <1>1, <2>1, <3>2 DEF Grows
      <4> QED BY <2>1, <4>1 DEF Grows, ShapeInv
    <3> QED BY <3>1, <3>2
  <2>2. CASE chain'.links = chain.links BY <2>2 DEF ShapeInv
  <2> QED BY <2>1, <2>2, ChainSteps, LinkDoes, RunStartDoes
<1>3. (chain.running => ~chain.broken /\ chain.current >= chain.settled + 1)'
  <2>1. ASSUME NEW r \in Runs, RunStart(r)
        PROVE  chain'.running =>
                  ~chain'.broken /\ chain'.current >= chain'.settled + 1
    <3>1. /\ chain'.settled = chain.settled /\ chain'.running = chain.running
          /\ chain'.broken = chain.broken /\ chain'.current = Len(chain.links)
      BY <2>1, RunStartDoes DEF Grows
    <3>2. chain.running => ~chain.broken /\ chain.settled < Len(chain.links)
      BY <1>1 DEF ShapeInv, ChainInRange
    <3> HIDE <2>1
    <3> QED BY <1>1, <3>1, <3>2
  <2>2. ASSUME NEW devs, NEW platform, NEW change, Grows(devs, platform, change),
               chain'.current = chain.current
        PROVE  chain'.running =>
                  ~chain'.broken /\ chain'.current >= chain'.settled + 1
    BY <2>2 DEF Grows, ShapeInv
  <2>3. SkipLink \/ EndLink => ~chain'.running BY LinkDoes
  <2>4. StartLink => /\ ~chain'.broken /\ chain'.settled = chain.settled
                     /\ chain'.current = chain.settled + 1
    BY LinkDoes
  <2>5. ASSUME StartLink PROVE ~chain'.broken /\ chain'.current >= chain'.settled + 1
    BY <1>1, <2>4, <2>5
  <2>6. UNCHANGED chain =>
           (chain'.running => ~chain'.broken /\ chain'.current >= chain'.settled + 1)
    BY DEF ShapeInv
  <2> QED BY <2>1, <2>2, <2>3, <2>5, <2>6, ChainSteps
<1>4. (act.dev \notin act.todo)'
  <2> USE DEF ShapeInv
  <2>1. NoDevice \notin act.todo /\ NoDevice \notin connected
    BY <1>1, ConstantsAssumption DEF ActTypes
  <2>2. ASSUME NEW d \in Devices, VisitDevice(d) PROVE act'.dev \notin act'.todo
    BY <2>2, LinkDoes
  <2>3. CASE SkipLink BY <2>3 DEF SkipLink
  <2>4. CASE StartLink \/ EndLink BY <2>1, <2>4, LinkDoes
  <2>5. CASE StartTransfer \/ DeviceFails \/ DeviceSynced \/ DeviceStopped
    BY <2>1, <2>5, LinkDoes
  <2> QED BY <2>2, <2>3, <2>4, <2>5, ActIsKept DEF LinkStep
<1> QED BY <1>2, <1>3, <1>4 DEF ShapeInv

LEMMA InitShape == Init => ShapeInv
BY DEF Init, ShapeInv

(* The device whose app is being installed or whose files are transferred. *)
Busy(d) == act.dev = d /\ act.at \in {"install", "sync"}

(* InitialSyncComesFirst is not inductive: the initial sync of a device    *)
(* that is in the LiveSync, but has not got it, is queued or under way,    *)
(* unless the device was lost before its turn or the chain is broken.      *)
Queued(d) ==
    \E n \in FirstQueued .. Len(chain.links) : d \in chain.links[n].devs

BeingSynced(d) ==
    chain.running /\ Initial /\ d \in Link.devs /\ (d \in act.todo \/ Busy(d))

PassedOver(d) ==
    d \notin connected /\ (chain.running => d \notin act.todo /\ d # act.dev)

Awaited(d) == chain.broken \/ Queued(d) \/ BeingSynced(d) \/ PassedOver(d)

FirstInv ==
    \A d \in session.descs \ (deployed \union skipped) : Awaited(d)

(* A device that has yet to get its initial sync had yet to before, or it  *)
(* joins the LiveSync with this step.                                      *)
LEMMA WhoAwaits ==
  ASSUME TypeInv, [Next]_vars, NEW d \in session'.descs \ (deployed' \union skipped')
  PROVE  \/ d \in session.descs \ (deployed \union skipped)
         \/ \E r \in Runs : RunStart(r) /\ d \in InitialSyncFor(run[r].devs)
<1> DEFINE Same == /\ session'.descs = session.descs
                   /\ deployed \union skipped \subseteq deployed' \union skipped'
<1>1. ASSUME NEW s \in StopCalls, NEW ids, NEW devices, BeginStop(s, ids, devices),
             skipped \subseteq skipped'
      PROVE  d \in session.descs \ (deployed \union skipped)
  BY <1>1, BeginStopDoes DEF TakesOut, taken
<1>2. ASSUME NEW s \in StopCalls,
             StopLonely(s) \/ StopClosing(s) \/ StopChain(s) \/ StopReturns(s)
      PROVE  Same
  <2>1. CASE StopLonely(s) BY <2>1, StopLonelyDoes DEF taken
  <2>2. CASE StopClosing(s) BY <2>2, StopClosingDoes
  <2>3. CASE StopChain(s) \/ StopReturns(s)
    <3>1. session \in SessionTypes BY DEF TypeInv, TypeOK, StateOK
    <3> QED BY <2>3, <3>1, StopEndsDoes DEF SessionTypes
  <2> QED BY <1>2, <2>1, <2>2, <2>3
<1>3. CASE LinkStep
  <2>1. CASE DeviceFails
    <3>1. InAction \in StopCalls BY DEF StopCalls
    <3> QED BY <1>1, <2>1, <3>1, DeviceFailsDoes DEF DeviceFails
  <2>2. ASSUME SkipLink \/ StartLink \/ EndLink \/ StartTransfer \/ DeviceStopped
                 \/ \E e \in Devices : VisitDevice(e)
        PROVE  Same
    BY <2>2 DEF SkipLink, StartLink, EndLink, StartTransfer, DeviceStopped,
       VisitDevice, history, taken
  <2>3. CASE DeviceSynced
    BY <2>3 DEF DeviceSynced
  <2> QED BY <1>3, <2>1, <2>2, <2>3 DEF LinkStep
<1>4. WebpackStep => Same BY WebpackAside DEF taken
<1>5. ASSUME NEW r \in Runs, RunCall(r) \/ RunFails(r) \/ RunReturns(r)
      PROVE  Same
  BY <1>5, RunAside DEF history, taken
<1>6. ASSUME NEW r \in Runs, RunStart(r)
      PROVE  \/ d \in session.descs \ (deployed \union skipped)
             \/ d \in InitialSyncFor(run[r].devs)
  BY <1>6, RunStartDoes DEF InitialSyncFor
<1>7. UNCHANGED vars => Same BY DEF vars, history, taken
<1>8. CASE \/ \E s \in UserStops : UserStop(s)
           \/ \E e \in Devices : DeviceLost(e)
  BY <1>1, <1>8, ClientDoes DEF taken
<1>9. ASSUME NEW q \in Platforms,
             ChangeReported(q) \/ \E c \in Changes : NativeChecked(c, q)
      PROVE  Same
  BY <1>9, ChangesDo
<1> HIDE DEF Same
<1>10. Same => d \in session.descs \ (deployed \union skipped) BY DEF Same
<1> QED BY <1>2, <1>3, <1>4, <1>5, <1>6, <1>7, <1>8, <1>9, <1>10
        DEF Next, System, Environment, LinkStep, WebpackStep

LEMMA NewIsQueued ==
  ASSUME TypeInv, NEW r \in Runs, RunStart(r), NEW d \in InitialSyncFor(run[r].devs)
  PROVE  Queued(d)'
<1>1. chain \in ChainTypes /\ Len(chain.links) \in Nat /\ chain.settled \in Nat
      /\ ChainInRange
  BY LenProperties DEF TypeInv, TypeOK, StateOK, ChainTypes
<1>2. Grows(InitialSyncFor(run[r].devs), NoPlatform, 0) BY RunStartDoes
<1>3. d \in chain'.links[Len(chain.links) + 1].devs BY <1>2 DEF Grows
<1>4. Len(chain.links) + 1 \in FirstQueued' .. Len(chain'.links)
  BY <1>1, <1>2 DEF Grows, FirstQueued, ChainInRange
<1> QED BY <1>3, <1>4 DEF Queued

(* What a link does to the devices that wait for it or for a later one.    *)
LEMMA LinksServe ==
  ASSUME TypeInv, ShapeInv, NEW d \in Devices, Awaited(d),
         SkipLink \/ StartLink \/ EndLink
  PROVE  Awaited(d)' \/ d \in skipped'
<1>1. chain \in ChainTypes /\ Len(chain.links) \in Nat /\ chain.settled \in Nat
      /\ ChainInRange /\ chain.links \in Seq(Links)
  BY LenProperties DEF TypeInv, TypeOK, StateOK, ChainTypes
<1>2. d # NoDevice BY ConstantsAssumption
<1>3. CASE SkipLink
  <2>1. /\ chain'.links = chain.links /\ ~chain.running /\ ~chain'.running
        /\ ~chain.broken /\ chain'.settled = chain.settled + 1
        /\ skipped' = skipped \union Link.devs /\ connected' = connected
    BY <1>3, LinkDoes DEF SkipLink
  <2>2. PassedOver(d) => PassedOver(d)' BY <2>1 DEF PassedOver
  <2>3. ASSUME Queued(d) PROVE Queued(d)' \/ d \in skipped'
    <3>1. PICK n \in chain.settled + 1 .. Len(chain.links) : d \in chain.links[n].devs
      BY <2>1, <2>3 DEF Queued, FirstQueued
    <3>2. CASE n = chain.settled + 1 BY <2>1, <3>1, <3>2 DEF Link
    <3>3. CASE n # chain.settled + 1
      <4>1. n \in FirstQueued' .. Len(chain'.links)
        BY <1>1, <2>1, <3>1, <3>3 DEF FirstQueued
      <4> QED BY <2>1, <3>1, <4>1 DEF Queued
    <3> QED BY <3>2, <3>3
  <2> QED BY <2>1, <2>2, <2>3 DEF Awaited, BeingSynced
<1>4. CASE StartLink
  <2>1. /\ chain'.links = chain.links /\ ~chain.running /\ chain'.running
        /\ ~chain.broken /\ chain'.settled = chain.settled
        /\ act'.todo = connected /\ act'.dev = NoDevice /\ connected' = connected
    BY <1>4, LinkDoes DEF StartLink
  <2>2. PassedOver(d) => PassedOver(d)' BY <1>2, <2>1 DEF PassedOver
  <2>3. ASSUME Queued(d) PROVE Awaited(d)'
    <3>1. PICK n \in chain.settled + 1 .. Len(chain.links) : d \in chain.links[n].devs
      BY <2>1, <2>3 DEF Queued, FirstQueued
    <3>2. CASE n = chain.settled + 1 /\ d \in connected
      <4>1. chain.links[n].change = 0 BY <1>1, <3>1 DEF ShapeInv
      <4> QED BY <2>1, <3>1, <3>2, <4>1 DEF Awaited, BeingSynced, Initial, Link
    <3>3. CASE n # chain.settled + 1
      <4>1. n \in FirstQueued' .. Len(chain'.links)
        BY <1>1, <2>1, <3>1, <3>3 DEF FirstQueued
      <4> QED BY <2>1, <3>1, <4>1 DEF Queued, Awaited
    <3>4. CASE d \notin connected
      BY <1>2, <2>1, <3>4 DEF Awaited, PassedOver
    <3> QED BY <3>2, <3>3, <3>4
  <2> QED BY <2>1, <2>2, <2>3 DEF Awaited, BeingSynced
<1>5. CASE EndLink
  <2>1. /\ chain'.links = chain.links /\ chain.running /\ ~chain'.running
        /\ act.dev = NoDevice /\ connected' = connected
        /\ \/ chain'.broken
           \/ chain'.broken = chain.broken /\ chain'.settled = chain.settled + 1
    BY <1>5, LinkDoes DEF EndLink
  <2>2. PassedOver(d) => PassedOver(d)' BY <2>1 DEF PassedOver
  <2>3. ~BeingSynced(d)
    BY <1>2, <1>5, <2>1 DEF BeingSynced, Busy, EndLink, CanExecute
  <2>4. CASE chain'.broken BY <2>4 DEF Awaited
  <2>5. CASE chain'.broken = chain.broken /\ chain'.settled = chain.settled + 1
    <3>1. FirstQueued' = FirstQueued BY <1>1, <2>1, <2>5 DEF FirstQueued
    <3>2. Queued(d) => Queued(d)' BY <2>1, <3>1 DEF Queued
    <3> QED BY <2>2, <2>3, <2>5, <3>2 DEF Awaited
  <2> QED BY <2>1, <2>4, <2>5
<1> QED BY <1>3, <1>4, <1>5

(* A link visits the devices that wait for it, and no step withdraws it.   *)
LEMMA WaitGoesOn ==
  ASSUME TypeInv, [Next]_vars, ~SkipLink, ~StartLink, ~EndLink,
         NEW d \in session'.descs \ (deployed' \union skipped'), Awaited(d)
  PROVE  Awaited(d)'
<1>1. chain \in ChainTypes /\ Len(chain.links) \in Nat /\ chain.settled \in Nat
      /\ ChainInRange
  BY LenProperties DEF TypeInv, TypeOK, StateOK, ChainTypes
<1>2. ChainKept BY ChainIsKept
<1>3. d # NoDevice
  <2>1. session' \in SessionTypes BY NextType DEF TypeInv, TypeOK, StateOK
  <2> QED BY <2>1, ConstantsAssumption DEF SessionTypes
<1>4. Queued(d) => Queued(d)'
  <2>1. FirstQueued' = FirstQueued BY <1>2 DEF ChainKept, FirstQueued
  <2> SUFFICES ASSUME NEW n \in FirstQueued .. Len(chain.links),
                      d \in chain.links[n].devs
               PROVE  Queued(d)'
    BY DEF Queued
  <2>2. n \in 1 .. Len(chain.links) /\ n \in FirstQueued' .. Len(chain'.links)
    BY <1>1, <1>2, <2>1 DEF ChainKept, FirstQueued
  <2> QED BY <1>2, <2>2 DEF ChainKept, Queued
<1>5. chain.broken => chain'.broken BY <1>2 DEF ChainKept
<1>6. PassedOver(d) => PassedOver(d)'
  <2>1. ActMoves BY ActSteps
  <2>2. connected' \subseteq connected
    <3>1. ASSUME NEW s \in StopCalls,
                 StopLonely(s) \/ StopClosing(s) \/ StopChain(s) \/ StopReturns(s)
          PROVE  UNCHANGED connected
      BY <3>1, StopLonelyDoes, StopClosingDoes, StopEndsDoes
    <3>2. ASSUME NEW r \in Runs,
                 RunCall(r) \/ RunFails(r) \/ RunStart(r) \/ RunReturns(r)
          PROVE  UNCHANGED connected
      BY <3>2, RunAside, RunStartDoes
    <3>3. LinkStep => UNCHANGED connected
      BY LinkAside, DeviceFailsDoes
    <3>4. UNCHANGED vars => UNCHANGED connected BY DEF vars
    <3> QED BY <3>1, <3>2, <3>3, <3>4, ClientDoes, ChangesDo, WebpackAside
            DEF Next, System, Environment, WebpackStep, LinkStep
  <2> QED BY <1>2, <1>3, <2>1, <2>2 DEF ChainKept, ActMoves, PassedOver
<1>7. BeingSynced(d) => BeingSynced(d)'
  <2> SUFFICES ASSUME BeingSynced(d) PROVE d \in act'.todo \/ Busy(d)'
    <3>1. BeingSynced(d) => chain.settled + 1 \in 1 .. Len(chain.links)
      BY <1>1 DEF BeingSynced, ChainInRange
    <3> QED BY <1>2, <3>1 DEF BeingSynced, ChainKept, Initial, Link
  <2> USE DEF BeingSynced, Busy
  <2>1. CASE UNCHANGED act BY <2>1
  <2>2. ASSUME NEW e \in Devices, VisitDevice(e) PROVE d \in act'.todo \/ Busy(d)'
    BY <2>2, LinkDoes
  <2>3. CASE StartTransfer BY <2>3, LinkDoes DEF StartTransfer
  <2>4. CASE DeviceSynced
    <3>1. act.dev # d BY <2>4 DEF DeviceSynced
    <3> QED BY <2>4, <3>1, LinkDoes
  <2>5. CASE DeviceFails
    <3>1. act.dev # d BY <2>5, DeviceFailsDoes DEF TakesOut
    <3>2. act'.todo = act.todo BY <2>5, LinkDoes
    <3> QED BY <3>1, <3>2
  <2>6. CASE DeviceStopped BY <2>6, LinkDoes DEF DeviceStopped
  <2> QED BY <2>1, <2>2, <2>3, <2>4, <2>5, <2>6, ActIsKept DEF LinkStep
<1> QED BY <1>4, <1>5, <1>6, <1>7 DEF Awaited

LEMMA NextFirst ==
  ASSUME TypeInv, ShapeInv, FirstInv, [Next]_vars
  PROVE  FirstInv'
<1> SUFFICES ASSUME NEW d \in session'.descs \ (deployed' \union skipped')
             PROVE  Awaited(d)'
  BY DEF FirstInv
<1>1. CASE d \in session.descs \ (deployed \union skipped)
  <2>1. Awaited(d) BY <1>1 DEF FirstInv
  <2>2. d \in Devices BY <1>1 DEF TypeInv, TypeOK, StateOK, SessionTypes
  <2> QED BY <2>1, <2>2, LinksServe, WaitGoesOn
<1>2. ASSUME NEW r \in Runs, RunStart(r), d \in InitialSyncFor(run[r].devs)
      PROVE  Awaited(d)'
  BY <1>2, NewIsQueued DEF Awaited
<1> QED BY <1>1, <1>2, WhoAwaits

LEMMA InitFirst == Init => FirstInv
BY DEF Init, FirstInv

(* No change is transferred to a device of the LiveSync before its initial *)
(* sync, however calls of run() and stop(), failing devices and lost ones  *)
(* overlap; but for the two exceptions the property names.                 *)
THEOREM ChangesWaitForInitialSync == Spec => []InitialSyncComesFirst
<1>1. TypeInv /\ ShapeInv /\ [Next]_vars => ShapeInv' BY NextShape
<1>2. TypeInv /\ ShapeInv /\ FirstInv /\ [Next]_vars => FirstInv' BY NextFirst
<1>3. TypeInv /\ ShapeInv /\ FirstInv => InitialSyncComesFirst
  <2> SUFFICES ASSUME TypeInv, ShapeInv, FirstInv, act.at = "sync", ~Initial,
                      act.dev \in session.descs \ (deployed \union skipped)
               PROVE  \E n \in chain.settled + 2 .. Len(chain.links) :
                         act.dev \in chain.links[n].devs
    BY DEF InitialSyncComesFirst
  <2>1. chain.running BY LinkDoes
  <2>2. Awaited(act.dev) BY DEF FirstInv
  <2> QED BY <2>1, <2>2 DEF Awaited, ShapeInv, BeingSynced, PassedOver, Queued,
             FirstQueued
<1> QED BY <1>1, <1>2, <1>3, InitShape, InitFirst, InitType, NextType, PTL DEF Spec

-----------------------------------------------------------------------------
(* No sync after "stopped" *)

(* A device the link that runs transfers files to, or will from scratch.   *)
Open(d) ==
    chain.running /\ (Busy(d) \/ (Initial /\ d \in Link.devs /\ d \in act.todo))

Here(d) == <<chain.settled + 1, d>>

Gone(d) == d \in told \/ \E s \in StopCalls : d \in gone[s]

(* NoSyncAfterStopped is not inductive.  A device that is stopped, or being *)
(* stopped, is out of the LiveSync, so that only links that were there can  *)
(* sync it, and those that have not begun were overtaken...                 *)
GoneIsOut ==
    \A d \in Devices : Gone(d) =>
        /\ d \notin session.descs
        /\ ~chain.broken => \A n \in FirstQueued .. Len(chain.links) :
               d \in chain.links[n].devs => <<n, d>> \in overtaken

(* ... the stop() a failing device action makes is awaited by it ...       *)
FailingIsStopped ==
    UnderWay(stop[InAction]) =>
        act.at = "stopping" /\ gone[InAction] \subseteq {act.dev}

(* ... every other one goes on to wait for the link that has begun ...     *)
Waits(call) ==
    \/ call.at \in {"lonely", "closing"}
    \/ call.at \in {"action", "chain"} /\ call.upto >= chain.settled + 1

LinkIsAwaited ==
    \A s \in StopCalls \ {InAction}, d \in Devices :
        d \in gone[s] /\ UnderWay(stop[s]) /\ Open(d) /\ Here(d) \notin overtaken
            => Waits(stop[s])

(* ... and once it has announced its devices, that link is over.           *)
ToldIsClosed == \A d \in told : Open(d) => Here(d) \in overtaken

StopInv == GoneIsOut /\ FailingIsStopped /\ LinkIsAwaited /\ ToldIsClosed

(* How a call of stop() begins.                                            *)
Begins(s, removed) ==
    /\ TakesOut(s, removed) /\ OnlyCall(s)
    /\ stop[s].at = "idle" /\ stop'[s].at \in {"lonely", "closing", "action"}
    /\ Goes(s)
    /\ UNCHANGED <<chain, told>>
    /\ IF s = InAction THEN DeviceFails /\ removed \subseteq {act.dev}
                       ELSE UNCHANGED act

LEMMA GoneSteps ==
  ASSUME TypeInv, [Next]_vars
  PROVE  \/ UNCHANGED <<told, gone>>
         \/ \E s \in StopCalls : \E removed : Begins(s, removed)
         \/ \E r \in Runs : RunStart(r)
         \/ \E s \in StopCalls :
               /\ StopReturns(s) /\ UNCHANGED gone
               /\ told' = told \union gone[s]
               /\ \/ stop[s].at = "hooks"
                  \/ stop[s].at = "action" /\ Resolved(stop[s].upto)
<1> DEFINE Goal == \/ UNCHANGED <<told, gone>>
                   \/ \E s \in StopCalls : \E removed : Begins(s, removed)
<1>1. CASE \/ \E s \in UserStops : UserStop(s)
           \/ \E d \in Devices : DeviceLost(d)
  <2>1. ASSUME NEW s \in StopCalls \ {InAction}, NEW ids, NEW devices,
               BeginStop(s, ids, devices)
        PROVE  Goal
    <3>1. UNCHANGED <<chain, act, told>> BY <1>1, ClientDoes
    <3> QED BY <2>1, <3>1, BeginStopDoes DEF Begins, taken
  <2> QED BY <1>1, <2>1, ClientDoes DEF taken
<1>2. CASE LinkStep
  <2>1. CASE DeviceFails
    <3>1. InAction \in StopCalls BY DEF StopCalls
    <3> QED BY <2>1, <3>1, DeviceFailsDoes DEF Begins, taken
  <2> QED BY <1>2, <2>1, LinkAside
<1>3. ASSUME NEW s \in StopCalls, StopLonely(s) \/ StopClosing(s) \/ StopChain(s)
      PROVE  UNCHANGED <<told, gone>>
  <2>1. CASE StopChain(s) BY <2>1 DEF StopChain
  <2> QED BY <1>3, <2>1, StopLonelyDoes, StopClosingDoes DEF taken
<1>4. ASSUME NEW s \in StopCalls, StopReturns(s)
      PROVE  \/ UNCHANGED <<told, gone>>
             \/ /\ UNCHANGED gone /\ told' = told \union gone[s]
                /\ \/ stop[s].at = "hooks"
                   \/ stop[s].at = "action" /\ Resolved(stop[s].upto)
  BY <1>4 DEF StopReturns, EmitStopped, taken
<1>5. WebpackStep => UNCHANGED <<told, gone>> BY WebpackAside DEF taken
<1>6. ASSUME NEW r \in Runs, RunCall(r) \/ RunFails(r) \/ RunReturns(r)
      PROVE  UNCHANGED <<told, gone>>
  BY <1>6, RunAside DEF history, taken
<1>7. UNCHANGED vars => UNCHANGED <<told, gone>> BY DEF vars, history, taken
<1> QED BY <1>1, <1>2, <1>3, <1>4, <1>5, <1>6, <1>7, ChangesDo
        DEF Next, System, Environment, LinkStep, WebpackStep

(* A device is gone because it was, or because a stop() begins; run() takes *)
(* those it adds back.                                                      *)
LEMMA WhoIsGone ==
  ASSUME TypeInv, [Next]_vars, NEW d \in Devices, Gone(d)'
  PROVE  \/ Gone(d) /\ \A r \in Runs : RunStart(r) => d \notin run[r].devs
         \/ \E s \in StopCalls : \E removed : Begins(s, removed) /\ d \in removed
<1>1. gone \in [StopCalls -> SUBSET Devices] BY DEF TypeInv, TypeOK, HistoryOK
<1>2. ASSUME NEW r \in Runs, RunStart(r)
      PROVE  Gone(d) /\ d \notin run[r].devs
  BY <1>2, RunStartDoes DEF Gone
<1>3. CASE UNCHANGED <<told, gone>> BY <1>2, <1>3 DEF Gone
<1>4. ASSUME NEW s \in StopCalls, NEW removed, Begins(s, removed)
      PROVE  Gone(d) \/ d \in removed
  BY <1>1, <1>4 DEF Begins, TakesOut, Gone
<1>5. ASSUME NEW s \in StopCalls, told' = told \union gone[s], UNCHANGED gone
      PROVE  Gone(d)
  BY <1>5 DEF Gone
<1> QED BY <1>2, <1>3, <1>4, <1>5, GoneSteps

(* What may be synced was, unless a link starts or serves a device that is *)
(* in the LiveSync.                                                        *)
LEMMA OpenSteps ==
  ASSUME TypeInv, [Next]_vars, NEW d \in Devices, Open(d)'
  PROVE  /\ chain'.settled = chain.settled
         /\ \/ Open(d)
            \/ StartLink /\ d \in Link.devs
            \/ VisitDevice(d) /\ d \in session.descs
<1> USE DEF Open
<1>1. chain \in ChainTypes /\ Len(chain.links) \in Nat /\ chain.settled \in Nat
      /\ ChainInRange
  BY LenProperties DEF TypeInv, TypeOK, StateOK, ChainTypes
<1>2. d # NoDevice BY ConstantsAssumption
<1>3. CASE StartLink
  <2>1. /\ chain'.links = chain.links /\ chain'.settled = chain.settled
        /\ act'.dev = NoDevice
    BY <1>3, LinkDoes
  <2> QED BY <1>2, <1>3, <2>1 DEF Busy, Initial, Link
<1>4. ~SkipLink /\ ~EndLink BY LinkDoes
<1>5. CASE ~StartLink
  <2>1. ChainKept BY <1>4, <1>5, ChainIsKept
  <2>2. chain.running /\ chain'.settled = chain.settled BY <2>1 DEF ChainKept
  <2>3. Initial' = Initial /\ Link' = Link
    BY <1>1, <2>1, <2>2 DEF ChainKept, Initial, Link, ChainInRange
  <2>4. CASE UNCHANGED act BY <2>2, <2>3, <2>4 DEF Busy
  <2>5. ASSUME NEW e \in Devices, VisitDevice(e)
        PROVE  Open(d) \/ (VisitDevice(d) /\ d \in session.descs)
    <3>1. act'.dev = e /\ act'.todo = act.todo \ {e} BY <2>5, LinkDoes
    <3>2. CASE e = d
      BY <2>2, <2>5, <3>2 DEF VisitDevice, CanExecute
    <3>3. CASE e # d BY <2>2, <2>3, <3>1, <3>3 DEF Busy
    <3> QED BY <3>2, <3>3
  <2>6. CASE StartTransfer
    BY <2>2, <2>3, <2>6, LinkDoes DEF Busy, StartTransfer
  <2>7. CASE DeviceSynced \/ DeviceStopped
    BY <1>2, <2>2, <2>3, <2>7, LinkDoes DEF Busy
  <2>8. CASE DeviceFails
    <3>1. act'.todo = act.todo /\ act'.at = "stopping"
      BY <2>8 DEF DeviceFails, TypeInv, TypeOK, StateOK, ActTypes
    <3> QED BY <2>2, <2>3, <3>1 DEF Busy
  <2> QED BY <1>4, <1>5, <2>2, <2>4, <2>5, <2>6, <2>7, <2>8, ActIsKept DEF LinkStep
<1> QED BY <1>3, <1>5

(* A device that is gone and still may be synced already could, or finds   *)
(* the link that starts overtaken.                                         *)
LEMMA OpenWhenGone ==
  ASSUME TypeInv, GoneIsOut, [Next]_vars, NEW d \in Devices, Gone(d), Open(d)'
  PROVE  /\ chain'.settled = chain.settled
         /\ Open(d) \/ Here(d) \in overtaken
<1>1. chain \in ChainTypes /\ Len(chain.links) \in Nat /\ chain.settled \in Nat
  BY LenProperties DEF TypeInv, TypeOK, StateOK, ChainTypes
<1>2. ASSUME StartLink, d \in Link.devs PROVE Here(d) \in overtaken
  <2>1. ~chain.running /\ ~chain.broken /\ chain.settled < Len(chain.links)
    BY <1>2, LinkDoes
  <2>2. chain.settled + 1 \in FirstQueued .. Len(chain.links)
    BY <1>1, <2>1 DEF FirstQueued
  <2> QED BY <1>2, <2>1, <2>2 DEF GoneIsOut, Here, Link
<1>3. d \notin session.descs BY DEF GoneIsOut
<1> QED BY <1>2, <1>3, OpenSteps

LEMMA NextGoneIsOut ==
  ASSUME TypeInv, GoneIsOut, [Next]_vars
  PROVE  GoneIsOut'
<1> SUFFICES ASSUME NEW d \in Devices, Gone(d)'
             PROVE  /\ d \notin session'.descs
                    /\ ~chain'.broken =>
                          \A n \in FirstQueued' .. Len(chain'.links) :
                             d \in chain'.links[n].devs => <<n, d>> \in overtaken'
  BY DEF GoneIsOut
<1>1. chain \in ChainTypes /\ Len(chain.links) \in Nat /\ chain.settled \in Nat
      /\ ChainInRange
  BY LenProperties DEF TypeInv, TypeOK, StateOK, ChainTypes
<1>2. overtaken \subseteq overtaken' BY StaleGrows
<1>3. ASSUME NEW s \in StopCalls, NEW removed, Begins(s, removed), d \in removed
      PROVE  /\ d \notin session'.descs
             /\ \A n \in FirstQueued' .. Len(chain'.links) :
                    d \in chain'.links[n].devs => <<n, d>> \in overtaken'
  <2>1. /\ d \notin session'.descs /\ chain' = chain
        /\ overtaken' = overtaken \union Naming(FirstQueued, removed)
    BY <1>3 DEF Begins, TakesOut
  <2>2. ASSUME NEW n \in FirstQueued .. Len(chain.links), d \in chain.links[n].devs
        PROVE  <<n, d>> \in Naming(FirstQueued, removed)
    BY <1>3, <2>2 DEF Naming
  <2>3. FirstQueued' = FirstQueued BY <2>1 DEF FirstQueued
  <2> QED BY <2>1, <2>2, <2>3
<1>4. CASE Gone(d) /\ \A r \in Runs : RunStart(r) => d \notin run[r].devs
  <2>1. d \notin session'.descs
    <3>1. ASSUME NEW r \in Runs, RunStart(r) PROVE d \notin session'.descs
      BY <1>4, <3>1, RunStartDoes DEF GoneIsOut
    <3> QED BY <1>4, <3>1, OnlyRunAdds DEF GoneIsOut
  <2>2. ASSUME ~chain'.broken, NEW n \in FirstQueued' .. Len(chain'.links),
               d \in chain'.links[n].devs
        PROVE  <<n, d>> \in overtaken'
    <3>1. ASSUME n \in FirstQueued .. Len(chain.links), ~chain.broken,
                 d \in chain.links[n].devs
          PROVE  <<n, d>> \in overtaken'
      BY <1>2, <1>4, <3>1 DEF GoneIsOut
    <3>2. CASE UNCHANGED chain BY <2>2, <3>1, <3>2 DEF FirstQueued
    <3>3. ASSUME NEW devs, NEW platform, NEW change, Grows(devs, platform, change),
                 d \notin devs
          PROVE  <<n, d>> \in overtaken'
      <4>1. /\ FirstQueued' = FirstQueued /\ ~chain.broken
            /\ FirstQueued \in Nat \ {0}
        BY <1>1, <2>2, <3>3 DEF Grows, FirstQueued
      <4>2. n # Len(chain.links) + 1 BY <2>2, <3>3 DEF Grows
      <4>3. n \in FirstQueued .. Len(chain.links) /\ n \in 1 .. Len(chain.links)
        BY <1>1, <2>2, <3>3, <4>1, <4>2 DEF Grows
      <4> QED BY <2>2, <3>1, <3>3, <4>1, <4>3 DEF Grows
    <3>4. ASSUME NEW r \in Runs, RunStart(r) PROVE <<n, d>> \in overtaken'
      <4>1. /\ Grows(InitialSyncFor(run[r].devs), NoPlatform, 0)
            /\ d \notin InitialSyncFor(run[r].devs)
        BY <1>4, <3>4, RunStartDoes
      <4> QED BY <3>3, <4>1
    <3>5. ASSUME NEW q \in Platforms, NEW c \in Changes, Grows({}, q, c)
          PROVE  <<n, d>> \in overtaken'
      BY <3>3, <3>5
    <3>6. CASE SkipLink \/ StartLink \/ EndLink
      <4>1. /\ chain'.links = chain.links /\ ~chain.broken
            /\ FirstQueued' >= FirstQueued /\ FirstQueued \in Nat
            /\ FirstQueued' \in Nat
        <5>1. CASE SkipLink BY <1>1, <5>1, LinkDoes DEF FirstQueued
        <5>2. CASE StartLink BY <1>1, <5>2, LinkDoes DEF FirstQueued
        <5>3. CASE EndLink
          <6>1. /\ chain'.links = chain.links /\ chain.running /\ ~chain'.running
                /\ chain'.broken = chain.broken
                /\ chain'.settled = chain.settled + 1
            BY <2>2, <5>3, LinkDoes
          <6> QED BY <1>1, <2>2, <6>1 DEF FirstQueued
        <5> QED BY <3>6, <5>1, <5>2, <5>3
      <4> QED BY <1>1, <2>2, <3>1, <4>1
    <3> QED BY <3>2, <3>4, <3>5, <3>6, ChainSteps
  <2> QED BY <2>1, <2>2
<1> QED BY <1>3, <1>4, WhoIsGone

LEMMA NextFailingIsStopped ==
  ASSUME TypeInv, FailingIsStopped, [Next]_vars
  PROVE  FailingIsStopped'
<1> SUFFICES ASSUME UnderWay(stop'[InAction])
             PROVE  act'.at = "stopping" /\ gone'[InAction] \subseteq {act'.dev}
  BY DEF FailingIsStopped, UnderWay
<1>1. /\ InAction \in StopCalls /\ stop \in [StopCalls -> StopTypes]
      /\ gone \in [StopCalls -> SUBSET Devices]
  BY DEF StopCalls, TypeInv, TypeOK, StateOK, HistoryOK
<1>2. CASE DeviceFails
  <2>1. act'.at = "stopping" /\ act'.dev = act.dev
    BY <1>2 DEF DeviceFails, TypeInv, TypeOK, StateOK, ActTypes
  <2>2. TakesOut(InAction, session.descs \intersect {act.dev})
    BY <1>2, DeviceFailsDoes DEF UnderWay
  <2> QED BY <1>1, <2>1, <2>2 DEF TakesOut
<1>3. CASE ~DeviceFails
  <2>1. UnderWay(stop[InAction]) /\ ~DeviceStopped
    <3>1. ~DeviceStopped
      BY <1>1 DEF DeviceStopped, NoStop, UnderWay
    <3>2. ASSUME NEW ids, NEW devices, BeginStop(InAction, ids, devices)
          PROVE  FALSE
      <4>1. stop[InAction].at = "idle" /\ stop'[InAction].at # "idle"
        BY <1>1, <3>2, BeginStopDoes DEF UnderWay
      <4>2. ASSUME NEW t \in StopCalls \ {InAction}, OnlyCall(t) PROVE FALSE
        BY <1>1, <4>1, <4>2 DEF OnlyCall
      <4>3. ~(\E s \in UserStops : UserStop(s)) /\ ~(\E d \in Devices : DeviceLost(d))
        <5>1. ASSUME NEW s \in StopCalls \ {InAction}, NEW i, NEW e, BeginStop(s, i, e)
              PROVE  FALSE
          BY <4>2, <5>1, BeginStopDoes
        <5> QED BY <4>1, <5>1, ClientDoes
      <4>4. ASSUME NEW s \in StopCalls,
                   StopLonely(s) \/ StopClosing(s) \/ StopChain(s) \/ StopReturns(s)
            PROVE  FALSE
        <5>1. OnlyCall(s) /\ stop[s].at # "idle"
          BY <4>4, StopLonelyDoes, StopClosingDoes, StopEndsDoes
        <5> QED BY <4>1, <4>2, <5>1
      <4>5. ASSUME NEW r \in Runs,
                   RunCall(r) \/ RunFails(r) \/ RunStart(r) \/ RunReturns(r)
            PROVE  UNCHANGED stop
        BY <4>5, RunAside, RunStartDoes
      <4>6. LinkStep => UNCHANGED stop BY <1>3, <3>1, LinkAside
      <4>7. UNCHANGED vars => UNCHANGED stop BY DEF vars, calls
      <4> QED BY <4>1, <4>3, <4>4, <4>5, <4>6, <4>7, ChangesDo, WebpackAside
              DEF Next, System, Environment, LinkStep, WebpackStep, calls
    <3>3. ASSUME StopLonely(InAction) \/ StopClosing(InAction)
                   \/ StopChain(InAction) \/ StopReturns(InAction)
          PROVE  UnderWay(stop[InAction])
      BY <1>1, <3>3, StopLonelyDoes, StopClosingDoes, StopEndsDoes DEF UnderWay
    <3> QED BY <1>1, <3>1, <3>2, <3>3, CallSteps
  <2>2. act.at = "stopping" /\ gone[InAction] \subseteq {act.dev}
    BY <2>1 DEF FailingIsStopped
  <2>3. UNCHANGED act
    <3>1. ~(SkipLink \/ StartLink \/ EndLink) BY <2>2, LinkDoes
    <3>2. ~(\E d \in Devices : VisitDevice(d)) BY <2>2, LinkDoes
    <3>3. ~StartTransfer /\ ~DeviceSynced
      BY <2>2 DEF StartTransfer, DeviceSynced
    <3> QED BY <1>3, <2>1, <3>1, <3>2, <3>3, ActIsKept DEF LinkStep
  <2>4. gone'[InAction] \subseteq gone[InAction]
    <3>1. ASSUME NEW s \in StopCalls, NEW removed, Begins(s, removed)
          PROVE  gone'[InAction] = gone[InAction]
      BY <1>1, <1>3, <3>1 DEF Begins, TakesOut
    <3>2. ASSUME NEW r \in Runs, RunStart(r)
          PROVE  gone'[InAction] \subseteq gone[InAction]
      BY <1>1, <3>2, RunStartDoes
    <3> QED BY <3>1, <3>2, GoneSteps
  <2> QED BY <2>2, <2>3, <2>4
<1> QED BY <1>2, <1>3

(* A call that waits for the link goes on to, whatever it does.            *)
LEMMA WaitsOn ==
  ASSUME TypeInv, ShapeInv, [Next]_vars, NEW s \in StopCalls \ {InAction},
         chain.running, chain'.settled = chain.settled,
         Waits(stop[s]), UnderWay(stop'[s])
  PROVE  Waits(stop[s])'
<1>1. chain \in ChainTypes /\ Len(chain.links) \in Nat /\ chain.settled \in Nat
      /\ chain.current \in Nat /\ ChainInRange
      /\ stop[s] \in StopTypes
  BY LenProperties DEF TypeInv, TypeOK, StateOK, ChainTypes
<1>2. /\ Awaits(s) /\ chain.current >= chain.settled + 1
      /\ chain.settled < Len(chain.links)
  BY <1>1 DEF Awaits, ShapeInv, ChainInRange
<1> SUFFICES \/ stop'[s].at \in {"lonely", "closing"}
             \/ /\ stop'[s].at \in {"action", "chain"}
                /\ stop'[s].upto >= chain.settled + 1
  BY DEF Waits
<1>3. CASE stop'[s] = stop[s] BY <1>3 DEF Waits
<1>4. ASSUME NEW ids, NEW devices, BeginStop(s, ids, devices) PROVE FALSE
  BY <1>4, BeginStopDoes DEF Waits
<1>5. CASE StopLonely(s)
  BY <1>2, <1>5, StopLonelyDoes DEF Goes, GoesOn, UnderWay
<1>6. CASE StopClosing(s)
  <2>1. \/ stop'[s].at \in {"failed", "closing"}
        \/ stop'[s].at = "chain" /\ stop'[s].upto = Len(chain.links)
    BY <1>2, <1>6, StopClosingDoes
  <2> QED BY <1>1, <1>2, <2>1 DEF UnderWay
<1>7. CASE StopChain(s) \/ StopReturns(s)
  <2>1. ~Resolved(stop[s].upto) \/ stop[s].at \notin {"action", "chain"}
    BY <1>1 DEF Resolved, Waits, StopTypes
  <2> QED BY <1>7, <2>1, StopEndsDoes DEF UnderWay, Waits
<1> QED BY <1>3, <1>4, <1>5, <1>6, <1>7, CallSteps

LEMMA NextLinkIsAwaited ==
  ASSUME TypeInv, ShapeInv, GoneIsOut, LinkIsAwaited, [Next]_vars
  PROVE  LinkIsAwaited'
<1> SUFFICES ASSUME NEW s \in StopCalls \ {InAction}, NEW d \in Devices,
                    d \in gone'[s], UnderWay(stop'[s]), Open(d)',
                    Here(d)' \notin overtaken'
             PROVE  Waits(stop[s])'
  BY DEF LinkIsAwaited, UnderWay, Waits
<1>1. /\ chain \in ChainTypes /\ gone \in [StopCalls -> SUBSET Devices]
      /\ chain.current \in Nat /\ chain.settled \in Nat
  BY DEF TypeInv, TypeOK, StateOK, HistoryOK, ChainTypes
<1>2. overtaken \subseteq overtaken' BY StaleGrows
<1>3. ASSUME d \in gone[s], UnderWay(stop[s]) PROVE Waits(stop[s])'
  <2>1. Gone(d) BY <1>3 DEF Gone
  <2>2. chain'.settled = chain.settled /\ (Open(d) \/ Here(d) \in overtaken)
    BY <2>1, OpenWhenGone
  <2>3. Here(d)' = Here(d) BY <2>2 DEF Here
  <2>4. Open(d) /\ Here(d) \notin overtaken BY <1>2, <2>2, <2>3
  <2>5. Waits(stop[s]) BY <1>3, <2>4 DEF LinkIsAwaited
  <2>6. chain.running BY <2>4 DEF Open
  <2> QED BY <2>2, <2>5, <2>6, WaitsOn
<1>4. ASSUME NEW ids, NEW devices, BeginStop(s, ids, devices)
      PROVE  Waits(stop[s])'
  <2>1. /\ stop[s].at = "idle" /\ Goes(s)
        /\ stop'[s].at \in {"lonely", "closing", "action"}
    BY <1>4, BeginStopDoes DEF UnderWay
  <2>2. ~SkipLink /\ ~StartLink /\ ~EndLink
    <3>1. SkipLink \/ StartLink \/ EndLink => UNCHANGED stop
      BY DEF SkipLink, StartLink, EndLink, calls
    <3> QED BY <2>1, <3>1
  <2>3. chain.running /\ chain'.settled = chain.settled
    BY <2>2, ChainIsKept DEF ChainKept, Open
  <2>4. chain.current >= chain.settled + 1 BY <2>3 DEF ShapeInv
  <2> QED BY <1>1, <2>1, <2>3, <2>4 DEF Goes, GoesOn, Awaits, Waits
<1>5. CASE \A ids, devices : ~BeginStop(s, ids, devices)
  <2>1. UnderWay(stop[s])
    <3>1. ASSUME StopLonely(s) \/ StopClosing(s) \/ StopChain(s) \/ StopReturns(s)
          PROVE  UnderWay(stop[s])
      BY <3>1, StopLonelyDoes, StopClosingDoes, StopEndsDoes DEF UnderWay
    <3> QED BY <1>5, <3>1, CallSteps
  <2>2. d \in gone[s]
    <3>1. ASSUME NEW t \in StopCalls, NEW removed, Begins(t, removed)
          PROVE  d \in gone[s]
      <4>1. t # s BY <2>1, <3>1 DEF Begins, UnderWay
      <4> QED BY <1>1, <3>1, <4>1 DEF Begins, TakesOut
    <3>2. ASSUME NEW r \in Runs, RunStart(r) PROVE d \in gone[s]
      BY <3>2, RunStartDoes
    <3> QED BY <3>1, <3>2, GoneSteps
  <2> QED BY <1>3, <2>1, <2>2
<1> QED BY <1>4, <1>5

LEMMA NextToldIsClosed ==
  ASSUME TypeInv, ShapeInv, StopInv, [Next]_vars
  PROVE  ToldIsClosed'
<1> USE DEF StopInv
<1> SUFFICES ASSUME NEW d \in told', Open(d)' PROVE Here(d)' \in overtaken'
  BY DEF ToldIsClosed
<1>1. /\ chain.settled \in Nat /\ gone \in [StopCalls -> SUBSET Devices]
      /\ told' \subseteq Devices /\ told \subseteq Devices
  BY NextType DEF TypeInv, TypeOK, StateOK, HistoryOK, ChainTypes
<1>2. overtaken \subseteq overtaken' BY StaleGrows
<1>3. ASSUME Gone(d), Open(d) => Here(d) \in overtaken
      PROVE  Here(d)' \in overtaken'
  <2>1. chain'.settled = chain.settled /\ (Open(d) \/ Here(d) \in overtaken)
    BY <1>1, <1>3, OpenWhenGone
  <2> QED BY <1>2, <1>3, <2>1 DEF Here
<1>4. CASE d \in told BY <1>3, <1>4 DEF Gone, ToldIsClosed
<1>5. ASSUME NEW s \in StopCalls, d \in gone[s],
             \/ stop[s].at = "hooks"
             \/ stop[s].at = "action" /\ Resolved(stop[s].upto)
      PROVE  Here(d)' \in overtaken'
  <2>1. UnderWay(stop[s]) BY <1>5 DEF UnderWay
  <2>2. CASE s = InAction
    <3>1. act.at = "stopping" /\ d = act.dev
      BY <1>5, <2>1, <2>2 DEF FailingIsStopped
    <3>2. ~Open(d) BY <3>1 DEF Open, Busy, ShapeInv
    <3> QED BY <1>3, <1>5, <3>2 DEF Gone
  <2>3. CASE s # InAction
    <3>1. ~Waits(stop[s])
      <4>1. stop[s] \in StopTypes BY DEF TypeInv, TypeOK, StateOK
      <4> QED BY <1>1, <1>5, <4>1 DEF Waits, Resolved, StopTypes
    <3>2. Open(d) => Here(d) \in overtaken
      BY <1>1, <1>5, <2>1, <2>3, <3>1 DEF LinkIsAwaited
    <3> QED BY <1>3, <1>5, <3>2 DEF Gone
  <2> QED BY <2>2, <2>3
<1>6. ASSUME NEW r \in Runs, RunStart(r) PROVE d \in told
  BY <1>6, RunStartDoes
<1>7. ASSUME NEW s \in StopCalls, NEW removed, Begins(s, removed) PROVE d \in told
  BY <1>7 DEF Begins
<1> QED BY <1>4, <1>5, <1>6, <1>7, GoneSteps

LEMMA InitStop == Init => StopInv
BY DEF Init, StopInv, GoneIsOut, Gone, FailingIsStopped, LinkIsAwaited,
       ToldIsClosed, UnderWay, NoStop, StopCalls

(* Nothing is transferred to a device announced as stopped, however calls  *)
(* of run() and stop(), failing devices and lost ones overlap; but for the *)
(* initial syncs stop() finds in the queue.                                *)
THEOREM StoppedIsFinal == Spec => []NoSyncAfterStopped
<1>1. TypeInv /\ ShapeInv /\ [Next]_vars => ShapeInv' BY NextShape
<1>2. TypeInv /\ ShapeInv /\ StopInv /\ [Next]_vars => StopInv'
  BY NextGoneIsOut, NextFailingIsStopped, NextLinkIsAwaited, NextToldIsClosed
     DEF StopInv
<1>3. TypeInv /\ StopInv => NoSyncAfterStopped
  BY LinkDoes DEF StopInv, ToldIsClosed, NoSyncAfterStopped, Open, Busy, Here
<1> QED BY <1>1, <1>2, <1>3, InitShape, InitStop, InitType, NextType, PTL DEF Spec

=============================================================================
