----------------------------- MODULE ArbdProofs -----------------------------
(***************************************************************************)
(* Proofs about the composition, Pipeline and Arbd, for every chain, every *)
(* set of venues and every set of results.                                 *)
(*                                                                         *)
(* Each stage was proved correct in an environment of its own module.      *)
(* Here it is shown that the neighbours it has in the program are such an  *)
(* environment (StagesStep): every step of the whole is, for each stage, a *)
(* step of that stage's specification or none.  So every invariant of the  *)
(* components holds of the stages in the program, and what is left to say  *)
(* is what joins them: the results one has sent are those the other has    *)
(* received (Joined), and who has stopped when (Orderly).                  *)
(***************************************************************************)
EXTENDS Arbd, TLAPS

SP == INSTANCE SubscriberProofs WITH pc <- sPc, result <- sResult, delivered <- sent,
                                     Heads <- Len(Chain)
DP == INSTANCE DispatcherProofs WITH pc <- dPc, delivered <- results,
                                     eventsClosed <- (sPc = "done")
PP == INSTANCE PathfinderProofs WITH pc <- pPc, resultsClosed <- (dPc = "closed")

\* What a channel's one end has sent its other end has received.
Joined ==
  /\ accepted = {Chain[sent[k]] : k \in DOMAIN sent}
  /\ received = {results[k] : k \in DOMAIN results}

\* run has awaited the stages, or returned with an error before it did.
Ended ==
  /\ sPc = "done" /\ pPc = "done"
  /\ \/ sResult = "deadline" /\ exitError
     \/ sResult = "ctx" /\ dPc = "closed"

\* run has returned before it started any.
NeverBegan == calls = {} /\ live = 0 /\ sent = <<>> /\ exitError

\* A stage ends only after the signal or the stage before it; main waits.
Orderly ==
  /\ sResult = "ctx" => cancelled
  /\ dPc # "select" => cancelled \/ sPc = "done"
  /\ pPc = "done" => cancelled \/ dPc = "closed"
  /\ Alive => ~exitError
  /\ mPc \in {"awaitSub", "awaitDisp", "awaitPf"} => pPc = "done"
  /\ mPc \in {"awaitDisp", "awaitPf"} => sPc = "done" /\ sResult = "ctx"
  /\ mPc = "awaitPf" => dPc = "closed"
  /\ mPc = "exit" => Ended \/ NeverBegan

Stages == SP!Inv /\ DP!Inv /\ PP!Inv

Inv == Stages /\ Joined /\ Orderly

\* A step of the whole, seen by each stage.
StagesStep == [SP!Next]_(SP!vars) /\ [DP!Next]_(DP!vars) /\ [PP!Next]_(PP!vars)

-----------------------------------------------------------------------------
(* The stages as Pipeline and as the proofs instantiate them. *)

\* The constants are what the stages' modules assume.
LEMMA StageAssumptions ==
  /\ Len(Chain) \in Nat
  /\ \A r \in Results : r.venue \in Venues /\ r.block \in Blocks /\ r.err \in BOOLEAN
  /\ \A r \in Results : PP!WellFormed(r)
<1>1. Len(Chain) \in Nat
  BY ChainAssumption
<1>2. P!Quotes = PP!Quotes
  BY DEF P!Quotes, PP!Quotes, P!Quote, PP!Quote
<1>3. \A r \in Results : P!WellFormed(r)
  BY ResultsAssumption
<1>4. \A r \in Results : PP!WellFormed(r)
  BY <1>2, <1>3, Zenon DEF P!WellFormed, PP!WellFormed
<1> QED BY <1>1, <1>4 DEF PP!WellFormed

LEMMA SubscriberInvNext == SP!Inv /\ [SP!Next]_(SP!vars) => SP!Inv'
BY SP!InvNext, StageAssumptions, FeedAssumption

LEMMA DispatcherInvNext == DP!Inv /\ [DP!Next]_(DP!vars) => DP!Inv'
BY DP!InvNext, StageAssumptions, ResultsAssumption

LEMMA PathfinderInvNext == PP!Inv /\ [PP!Next]_(PP!vars) => PP!Inv'
BY PP!InvNext, StageAssumptions, ChainAssumption, ResultsAssumption

\* The Subscriber's own steps.
LEMMA SubscriberAlike ==
  /\ S!Internal /\ UNCHANGED <<head, cancelled>> => SP!Next
  /\ S!Provider /\ UNCHANGED cancelled => SP!Next
  /\ \A i \in pending : S!Emit(i) /\ UNCHANGED <<head, cancelled>> => SP!Next
<1>1. ASSUME S!Internal, UNCHANGED <<head, cancelled>> PROVE SP!Next
  <2>1. SP!Internal
    BY <1>1 DEF S!Internal, S!DialOk, S!SubscribeOk, S!BackoffEnds, S!BackoffCancelled,
       S!DialFails, S!SubscribeFails, S!DialErr, S!FailWith, S!TakeHeader, S!StreamEnds,
       S!EmitCancelled, S!CloseSub, S!history,
       SP!Internal, SP!DialOk, SP!SubscribeOk, SP!BackoffEnds, SP!BackoffCancelled,
       SP!DialFails, SP!SubscribeFails, SP!DialErr, SP!FailWith, SP!TakeHeader, SP!StreamEnds,
       SP!EmitCancelled, SP!CloseSub, SP!history
  <2> QED BY <1>1, <2>1 DEF SP!Next, SP!Step, SP!Quiet
<1>2. ASSUME S!Provider, UNCHANGED cancelled PROVE SP!Next
  BY <1>2 DEF S!Provider, S!Announce, S!Drop, S!history,
     SP!Provider, SP!Announce, SP!Drop, SP!history, SP!Next
<1>3. ASSUME NEW i \in pending, S!Emit(i), UNCHANGED <<head, cancelled>> PROVE SP!Next
  BY <1>3 DEF S!Emit, SP!Emit, SP!Consume, SP!Next, SP!Quiet
<1> QED BY <1>1, <1>2, <1>3

\* The Dispatcher's.
LEMMA DispatcherAlike ==
  /\ D!Internal /\ UNCHANGED <<sPc, cancelled>> => DP!Next
  /\ \A ev : D!Accept(ev) => DP!Accept(ev)
  /\ \A r : D!Deliver(r) => DP!Deliver(r)
<1>1. ASSUME D!Internal, UNCHANGED <<sPc, cancelled>> PROVE DP!Next
  <2>1. DP!Internal
    BY <1>1 DEF D!Internal, D!Expire, D!SnapshotReturns, D!Abandon, D!Stop, D!Close,
       D!history, D!Of, DP!Internal, DP!Expire, DP!SnapshotReturns, DP!Abandon, DP!Stop,
       DP!Close, DP!history, DP!Of
  <2> QED BY <1>1, <2>1 DEF DP!Next, DP!Step, DP!env
<1>2. \A ev : D!Accept(ev) => DP!Accept(ev)
  BY DEF D!Accept, DP!Accept
<1>3. \A r : D!Deliver(r) => DP!Deliver(r)
  BY DEF D!Deliver, DP!Deliver
<1> QED BY <1>1, <1>2, <1>3

\* And the Pathfinder's.
LEMMA PathfinderAlike ==
  /\ \A q, o : P!CleanSlots(q, o) = PP!CleanSlots(q, o)
  /\ \A r, v, o, t : P!Candidate(r, v, o, t) = PP!Candidate(r, v, o, t)
  /\ P!Internal /\ UNCHANGED <<dPc, cancelled>> => PP!Next
  /\ \A r : P!Receive(r) => PP!Receive(r)
  /\ \A c : P!Emit(c) => PP!Emit(c)
  /\ P!Offered = PP!Offered
<1>1. \A q, o : P!CleanSlots(q, o) = PP!CleanSlots(q, o)
  BY DEF P!CleanSlots, PP!CleanSlots, P!BuyLeg, PP!BuyLeg, P!SellLeg, PP!SellLeg
<1>2. \A r, v, o, t : P!Candidate(r, v, o, t) = PP!Candidate(r, v, o, t)
  BY DEF P!Candidate, PP!Candidate, P!BuyLeg, PP!BuyLeg, P!SellLeg, PP!SellLeg
<1>3. \A t : P!AtSlot(t) <=> PP!AtSlot(t)
  BY DEF P!AtSlot, PP!AtSlot, P!Before, PP!Before
<1>4. ASSUME P!Internal, UNCHANGED <<dPc, cancelled>> PROVE PP!Next
  <2>1. PP!Internal
    BY <1>1, <1>3, <1>4 DEF P!Internal, P!NextPartner, P!AbandonEmit, P!Record, P!Stop, P!history,
       PP!Internal, PP!NextPartner, PP!AbandonEmit, PP!Record, PP!Stop, PP!history
  <2> QED BY <1>4, <2>1 DEF PP!Next, PP!Step, PP!env
<1>5. \A r : P!Receive(r) => PP!Receive(r)
  BY DEF P!Receive, P!DropStale, P!SkipFailed, P!StartPairing, P!Kept, P!state,
     PP!Receive, PP!DropStale, PP!SkipFailed, PP!StartPairing, PP!Kept, PP!state
<1>6. \A c : P!Emit(c) => PP!Emit(c)
  BY <1>2, <1>3 DEF P!Emit, PP!Emit
<1>7. P!Offered = PP!Offered
  BY <1>2, <1>3 DEF P!Offered, PP!Offered
<1> QED BY <1>1, <1>2, <1>4, <1>5, <1>6, <1>7

-----------------------------------------------------------------------------
(* Every step of the whole is one that the stages' specifications allow. *)

\* A head goes to the Dispatcher: it has not had it before.
LEMMA PassEventStep ==
  ASSUME Inv, PassEvent
  PROVE  StagesStep
<1> USE DEF Inv, Stages
<1>1. PICK i \in pending : S!Emit(i) /\ D!Accept(Chain[i])
  BY DEF PassEvent
<1>2. UNCHANGED <<head, pVars, cancelled>>
  BY DEF PassEvent
<1>3. SP!Next
  BY <1>1, <1>2, SubscriberAlike
<1>4. i \in DOMAIN Chain /\ Chain[i] \in Blocks
  BY ChainAssumption DEF SP!Inv, SP!TypeOK, Blocks
<1>5. Chain[i] \notin accepted
  <2> SUFFICES ASSUME NEW k \in DOMAIN sent PROVE Chain[sent[k]] # Chain[i]
    BY DEF Joined
  <2>1. sent[k] < i /\ sent[k] \in DOMAIN Chain
    BY ChainAssumption DEF SP!Inv, SP!Ordered, SP!TypeOK
  <2> QED BY <1>4, <2>1, ChainAssumption
<1>6. sPc # "done" /\ sPc' # "done" /\ dPc' = dPc
  BY <1>1 DEF S!Emit, D!Accept
<1>7. DP!Next
  BY <1>1, <1>2, <1>4, <1>5, <1>6, DispatcherAlike DEF DP!Next, DP!Announce, DP!env
<1>8. UNCHANGED PP!vars
  BY <1>2, <1>6 DEF pVars, PP!vars, PP!state, PP!history, PP!env
<1> QED BY <1>3, <1>7, <1>8 DEF StagesStep

\* A result goes to the Pathfinder: it has had none of its venue and block.
LEMMA PassResultStep ==
  ASSUME Inv, PassResult
  PROVE  StagesStep
<1> USE DEF Inv, Stages
<1>1. PICK c \in calls : \E r \in c.result : D!Deliver(r) /\ P!Receive(r)
  BY DEF PassResult
<1>2. PICK r \in c.result : D!Deliver(r) /\ P!Receive(r)
  BY <1>1
<1>3. UNCHANGED <<sVars, cancelled>> /\ dPc' = dPc
  BY <1>2 DEF PassResult, D!Deliver
<1>4. r \in Results /\ DP!Of(c, r)
  BY <1>2 DEF DP!Inv, DP!TypeOK
<1>5. UNCHANGED SP!vars /\ sPc' = sPc
  BY <1>3 DEF sVars, SP!vars, SP!state, SP!history
<1>6. DP!Next
  BY <1>2, <1>3, <1>4, <1>5, DispatcherAlike DEF DP!Next, DP!Read, DP!env
<1>7. \A q \in received : q.venue = r.venue => q.block # r.block
  BY <1>4 DEF DP!Inv, DP!AtMostOnce, DP!Of, Joined
<1>8. dPc # "closed"
  BY DEF DP!Inv, DP!NoSendAfterClose
<1>9. PP!Next
  BY <1>2, <1>3, <1>4, <1>7, <1>8, PathfinderAlike DEF PP!Next, PP!Arrive, PP!env
<1> QED BY <1>5, <1>6, <1>9 DEF StagesStep

\* The goroutines' own steps.  A stage that ends closes the next one's input.
LEMMA OwnStep ==
  ASSUME Inv,
         PassCandidate \/ SubscriberStep \/ ProviderStep \/ DispatcherStep \/ PathfinderStep
  PROVE  StagesStep
<1> USE DEF StagesStep
<1>1. CASE PassCandidate
  <2>1. PICK c \in P!Offered : P!Emit(c)
    BY <1>1 DEF PassCandidate
  <2>2. PP!Next
    BY <1>1, <2>1, PathfinderAlike DEF PassCandidate, dVars, PP!Next, PP!Consume, PP!env
  <2>3. UNCHANGED SP!vars /\ UNCHANGED DP!vars
    BY <1>1 DEF PassCandidate, sVars, dVars, SP!vars, SP!state, SP!history,
       DP!vars, DP!state, DP!history, DP!env
  <2> QED BY <2>2, <2>3
<1>2. CASE SubscriberStep
  <2>1. SP!Next /\ UNCHANGED PP!vars
    BY <1>2, SubscriberAlike DEF SubscriberStep, dVars, pVars, PP!vars, PP!state, PP!history, PP!env
  <2>2. sPc # "done"
    BY <1>2 DEF SubscriberStep, S!Internal, S!DialOk, S!SubscribeOk, S!BackoffEnds,
       S!BackoffCancelled, S!DialFails, S!SubscribeFails, S!TakeHeader, S!StreamEnds,
       S!EmitCancelled, S!CloseSub
  <2>3. [DP!Next]_(DP!vars)
    <3>1. CASE sPc' = "done"
      BY <1>2, <2>2, <3>1 DEF SubscriberStep, dVars, DP!Next, DP!CloseEvents, DP!state, DP!history
    <3>2. CASE sPc' # "done"
      BY <1>2, <2>2, <3>2 DEF SubscriberStep, dVars, DP!vars, DP!state, DP!history, DP!env
    <3> QED BY <3>1, <3>2
  <2> QED BY <2>1, <2>3
<1>3. CASE ProviderStep
  <2>1. SP!Next /\ sPc' = sPc
    BY <1>3, SubscriberAlike DEF ProviderStep, S!Provider, S!Announce, S!Drop
  <2>2. UNCHANGED DP!vars /\ UNCHANGED PP!vars
    BY <1>3, <2>1 DEF ProviderStep, dVars, pVars, DP!vars, DP!state, DP!history, DP!env,
       PP!vars, PP!state, PP!history, PP!env
  <2> QED BY <2>1, <2>2
<1>4. CASE DispatcherStep
  <2>1. DP!Next /\ UNCHANGED SP!vars
    BY <1>4, DispatcherAlike DEF DispatcherStep, sVars, SP!vars, SP!state, SP!history
  <2>2. dPc = "closed" => dPc' = "closed"
    BY <1>4 DEF DispatcherStep, D!Internal, D!Expire, D!SnapshotReturns, D!Abandon, D!Stop, D!Close
  <2>3. [PP!Next]_(PP!vars)
    <3>1. CASE dPc # "closed" /\ dPc' = "closed"
      BY <1>4, <3>1 DEF DispatcherStep, pVars, PP!Next, PP!CloseResults, PP!state, PP!history
    <3>2. CASE (dPc = "closed") = (dPc' = "closed")
      BY <1>4, <3>2 DEF DispatcherStep, pVars, PP!vars, PP!state, PP!history, PP!env
    <3> QED BY <2>2, <3>1, <3>2
  <2> QED BY <2>1, <2>3
<1>5. CASE PathfinderStep
  <2>1. PP!Next
    BY <1>5, PathfinderAlike DEF PathfinderStep, dVars
  <2>2. UNCHANGED SP!vars /\ UNCHANGED DP!vars
    BY <1>5 DEF PathfinderStep, sVars, dVars, SP!vars, SP!state, SP!history,
       DP!vars, DP!state, DP!history, DP!env
  <2> QED BY <2>1, <2>2
<1> QED BY <1>1, <1>2, <1>3, <1>4, <1>5

\* The signal, and what main does meanwhile.
LEMMA OutsideStep ==
  ASSUME UNCHANGED <<sVars, dVars, pVars>>, cancelled' = cancelled \/ cancelled' = TRUE,
         cancelled \in BOOLEAN
  PROVE  StagesStep
<1> USE DEF StagesStep, sVars, dVars, pVars
<1>1. CASE cancelled' = cancelled
  BY <1>1 DEF SP!vars, SP!state, SP!history, DP!vars, DP!state, DP!history, DP!env,
     PP!vars, PP!state, PP!history, PP!env
<1>2. CASE ~cancelled /\ cancelled' = TRUE
  <2>1. SP!Cancel
    BY <1>2 DEF SP!Cancel, SP!state, SP!history
  <2>2. DP!Cancel
    BY <1>2 DEF DP!Cancel, DP!state, DP!history
  <2>3. PP!Cancel
    BY <1>2 DEF PP!Cancel, PP!state, PP!history
  <2> QED BY <2>1, <2>2, <2>3 DEF SP!Next, DP!Next, PP!Next
<1> QED BY <1>1, <1>2

\* All together.
LEMMA NextStep ==
  ASSUME Inv, Next
  PROVE  StagesStep
<1>1. CASE PassEvent \/ PassResult
  BY <1>1, PassEventStep, PassResultStep
<1>2. CASE PassCandidate \/ SubscriberStep \/ ProviderStep \/ DispatcherStep \/ PathfinderStep
  BY <1>2, OwnStep
<1>3. CASE MainStep \/ Signal
  <2>1. cancelled \in BOOLEAN
    BY DEF Inv, Stages, SP!Inv, SP!TypeOK
  <2>2. UNCHANGED <<sVars, dVars, pVars>> /\ (cancelled' = cancelled \/ cancelled' = TRUE)
    BY <1>3 DEF MainStep, ConsumeEnds, AwaitSubscriber, AwaitDispatcher, AwaitPathfinder, Signal
  <2> QED BY <2>1, <2>2, OutsideStep
<1> QED BY <1>1, <1>2, <1>3 DEF Next

\* So the stages' invariants hold after it.
LEMMA StagesNext ==
  ASSUME Inv, StagesStep
  PROVE  Stages'
BY SubscriberInvNext, DispatcherInvNext, PathfinderInvNext DEF Inv, Stages, StagesStep

-----------------------------------------------------------------------------
(* What joins the stages. *)

\* Only the joint steps send and receive.
LEMMA JoinedNext ==
  ASSUME Inv, Next
  PROVE  Joined'
<1> USE DEF Inv
<1>1. CASE PassEvent
  <2>1. PICK i \in pending : S!Emit(i) /\ D!Accept(Chain[i])
    BY <1>1 DEF PassEvent
  <2>2. /\ sent' = Append(sent, i) /\ accepted' = accepted \cup {Chain[i]}
        /\ UNCHANGED <<received, results>>
    BY <1>1, <2>1 DEF S!Emit, D!Accept, PassEvent, pVars
  <2>3. /\ DOMAIN sent' = DOMAIN sent \cup {Len(sent) + 1}
        /\ \A k \in DOMAIN sent : sent'[k] = sent[k]
        /\ sent'[Len(sent) + 1] = i
    BY <2>2 DEF Stages, SP!Inv, SP!TypeOK
  <2>4. {Chain[sent'[k]] : k \in DOMAIN sent'} = {Chain[sent[k]] : k \in DOMAIN sent} \cup {Chain[i]}
    BY <2>3
  <2> QED BY <2>2, <2>4 DEF Joined
<1>2. CASE PassResult
  <2>1. PICK r : D!Deliver(r) /\ P!Receive(r)
    BY <1>2 DEF PassResult
  <2>2. /\ results' = Append(results, r) /\ received' = received \cup {r}
        /\ UNCHANGED <<sent, accepted>>
    BY <1>2, <2>1 DEF D!Deliver, P!Receive, PassResult, sVars
  <2>3. /\ DOMAIN results' = DOMAIN results \cup {Len(results) + 1}
        /\ \A k \in DOMAIN results : results'[k] = results[k]
        /\ results'[Len(results) + 1] = r
    BY <2>2 DEF Stages, DP!Inv, DP!TypeOK
  <2>4. {results'[k] : k \in DOMAIN results'} = {results[k] : k \in DOMAIN results} \cup {r}
    BY <2>3
  <2> QED BY <2>2, <2>4 DEF Joined
<1>3. CASE ~PassEvent /\ ~PassResult
  <2>1. CASE PassCandidate
    BY <2>1 DEF PassCandidate, P!Emit, sVars, dVars, Joined
  <2>2. CASE SubscriberStep
    BY <2>2 DEF SubscriberStep, S!Internal, S!DialOk, S!SubscribeOk, S!BackoffEnds,
       S!BackoffCancelled, S!DialFails, S!SubscribeFails, S!TakeHeader, S!StreamEnds,
       S!EmitCancelled, S!CloseSub, S!history, dVars, pVars, Joined
  <2>3. CASE ProviderStep
    BY <2>3 DEF ProviderStep, S!Provider, S!Announce, S!Drop, S!history, dVars, pVars, Joined
  <2>4. CASE DispatcherStep
    BY <2>4 DEF DispatcherStep, D!Internal, D!Expire, D!SnapshotReturns, D!Abandon, D!Stop,
       D!Close, D!history, sVars, pVars, Joined
  <2>5. CASE PathfinderStep
    BY <2>5 DEF PathfinderStep, P!Internal, P!NextPartner, P!AbandonEmit, P!Record, P!Stop,
       P!history, sVars, dVars, Joined
  <2>6. CASE MainStep \/ Signal
    BY <2>6 DEF MainStep, ConsumeEnds, AwaitSubscriber, AwaitDispatcher, AwaitPathfinder, Signal,
       sVars, dVars, pVars, Joined
  <2> QED BY <1>3, <2>1, <2>2, <2>3, <2>4, <2>5, <2>6 DEF Next
<1> QED BY <1>1, <1>2, <1>3

\* Who may stop when: a Subscriber that returns the context's error has seen
\* it done; Dispatcher and Pathfinder stop only then or on a closed input;
\* main goes on when the stage it awaits has returned.
LEMMA OrderlyNext ==
  ASSUME Inv, Next
  PROVE  Orderly'
<1> USE DEF Inv, Orderly, Alive
<1>0. Alive /\ (sResult = "none") = (sPc # "done")
  BY DEF Next, Stages, SP!Inv, SP!TypeOK
<1>1. CASE PassEvent
  <2>1. PICK i \in pending : S!Emit(i) /\ D!Accept(Chain[i])
    BY <1>1 DEF PassEvent
  <2>2. sPc # "done" /\ UNCHANGED <<sResult, dPc, pPc, cancelled, mPc, exitError>>
    BY <1>1, <2>1 DEF PassEvent, S!Emit, D!Accept, pVars, mVars
  <2> QED BY <1>0, <2>2
<1>2. CASE PassResult
  <2>1. PICK r : D!Deliver(r) /\ P!Receive(r)
    BY <1>2 DEF PassResult
  <2>2. /\ pPc # "done" /\ pPc' # "done"
        /\ UNCHANGED <<sPc, sResult, dPc, cancelled, mPc, exitError>>
    BY <1>2, <2>1 DEF PassResult, D!Deliver, P!Receive, P!DropStale, P!SkipFailed, P!StartPairing,
       P!state, sVars, mVars
  <2> QED BY <1>0, <2>2
<1>3. CASE PassCandidate
  BY <1>0, <1>3 DEF PassCandidate, P!Emit, sVars, dVars, mVars
<1>4. CASE SubscriberStep
  <2>1. UNCHANGED <<dPc, pPc, cancelled, mPc, exitError>> /\ S!Internal
    BY <1>4 DEF SubscriberStep, dVars, pVars, mVars
  <2>2. sPc # "done" /\ (sResult' = sResult \/ sResult' # "ctx" \/ cancelled)
    BY <2>1, FeedAssumption DEF S!Internal, S!DialOk, S!SubscribeOk, S!BackoffEnds,
       S!BackoffCancelled, S!DialFails, S!SubscribeFails, S!DialErr, S!FailWith, S!TakeHeader,
       S!StreamEnds, S!EmitCancelled, S!CloseSub
  <2> QED BY <1>0, <2>1, <2>2
<1>5. CASE ProviderStep
  BY <1>0, <1>5 DEF ProviderStep, S!Provider, S!Announce, S!Drop, dVars, pVars, mVars
<1>6. CASE DispatcherStep
  <2>1. UNCHANGED <<sPc, sResult, pPc, cancelled, mPc, exitError>> /\ D!Internal
    BY <1>6 DEF DispatcherStep, sVars, pVars, mVars
  <2>2. \/ dPc' = dPc
        \/ dPc = "select" /\ dPc' = "waiting" /\ (cancelled \/ sPc = "done")
        \/ dPc = "waiting" /\ dPc' = "closed"
    BY <2>1 DEF D!Internal, D!Expire, D!SnapshotReturns, D!Abandon, D!Stop, D!Close
  <2> QED BY <1>0, <2>1, <2>2
<1>7. CASE PathfinderStep
  <2>1. UNCHANGED <<sPc, sResult, dPc, cancelled, mPc, exitError>> /\ P!Internal
    BY <1>7 DEF PathfinderStep, sVars, dVars, mVars
  <2>2. \/ pPc # "done" /\ (pPc' = "done" => cancelled \/ dPc = "closed")
        \/ pPc' = pPc
    BY <2>1 DEF P!Internal, P!NextPartner, P!AbandonEmit, P!AtSlot, P!Record, P!Stop
  <2> QED BY <1>0, <2>1, <2>2
<1>8. CASE MainStep
  <2>1. UNCHANGED <<sPc, sResult, dPc, pPc, cancelled>>
    BY <1>8 DEF MainStep, ConsumeEnds, AwaitSubscriber, AwaitDispatcher, AwaitPathfinder,
       sVars, dVars, pVars
  <2>2. CASE ConsumeEnds
    BY <1>0, <2>1, <2>2 DEF ConsumeEnds
  <2>3. CASE AwaitSubscriber
    <3>1. exitError' <=> sResult # "ctx"
      BY <2>3, Zenon DEF AwaitSubscriber
    <3>2. /\ mPc = "awaitSub" /\ sPc = "done"
          /\ mPc' = IF sResult = "ctx" THEN "awaitDisp" ELSE "exit"
      BY <2>3 DEF AwaitSubscriber
    <3>3. sResult \in {"ctx", "deadline"}
      BY <1>0, <3>2 DEF Stages, SP!Inv, SP!TypeOK
    <3> QED BY <1>0, <2>1, <3>1, <3>2, <3>3 DEF Ended
  <2>4. CASE AwaitDispatcher
    BY <1>0, <2>1, <2>4 DEF AwaitDispatcher
  <2>5. CASE AwaitPathfinder
    BY <1>0, <2>1, <2>5 DEF AwaitPathfinder, Ended
  <2> QED BY <1>8, <2>2, <2>3, <2>4, <2>5 DEF MainStep
<1>9. CASE Signal
  BY <1>0, <1>9 DEF Signal, sVars, dVars, pVars, mVars
<1> QED BY <1>1, <1>2, <1>3, <1>4, <1>5, <1>6, <1>7, <1>8, <1>9 DEF Next

\* The stages start as their specifications say, with nothing sent.
LEMMA StagesStart ==
  ASSUME StagesInit
  PROVE  SP!Init /\ DP!Init /\ PP!Init /\ Stages /\ Joined
<1>1. SP!Init
  BY DEF StagesInit, S!Init, SP!Init
<1>2. DP!Init
  <2>1. sPc # "done" /\ cancelled = FALSE
    BY <1>1 DEF SP!Init
  <2> QED BY <2>1 DEF StagesInit, DP!Init
<1>3. PP!Init
  <2>1. cancelled = FALSE
    BY <1>1 DEF SP!Init
  <2> QED BY <2>1 DEF StagesInit, PP!Init
<1>4. SP!Inv
  BY <1>1, SP!InvInit, StageAssumptions, FeedAssumption
<1>5. DP!Inv
  BY <1>2, DP!InvInit, StageAssumptions, ResultsAssumption
<1>6. PP!Inv
  BY <1>3, PP!InvInit, StageAssumptions, ChainAssumption, ResultsAssumption
<1>7. Joined
  <2>1. DOMAIN sent = {} /\ DOMAIN results = {}
    BY <1>1, <1>2 DEF SP!Init, DP!Init
  <2> QED BY <2>1 DEF StagesInit, Joined
<1> QED BY <1>1, <1>2, <1>3, <1>4, <1>5, <1>6, <1>7 DEF Stages

LEMMA InvInit == Init => Inv
<1> SUFFICES ASSUME Init PROVE Inv
  OBVIOUS
<1>1. StagesInit /\ mPc = "consume" /\ exitError = FALSE
  BY DEF Init
<1>2. Orderly
  <2>1. sResult = "none" /\ dPc = "select" /\ pPc = "select"
    BY <1>1 DEF StagesInit, S!Init
  <2> QED BY <1>1, <2>1 DEF Orderly
<1> QED BY <1>1, <1>2, StagesStart DEF Inv

\* A step that no stage takes part in.
LEMMA Outside ==
  ASSUME Inv, UNCHANGED <<sVars, dVars, pVars>>, cancelled' = cancelled \/ cancelled' = TRUE
  PROVE  StagesStep /\ Stages' /\ Joined'
<1>1. cancelled \in BOOLEAN
  BY DEF Inv, Stages, SP!Inv, SP!TypeOK
<1>2. StagesStep
  BY <1>1, OutsideStep
<1>3. Joined'
  BY DEF Inv, Joined, sVars, dVars, pVars
<1> QED BY <1>2, <1>3, StagesNext

LEMMA InvNext == Inv /\ [Next]_vars => Inv' /\ StagesStep
<1> SUFFICES ASSUME Inv, [Next]_vars PROVE Inv' /\ StagesStep
  OBVIOUS
<1>1. CASE Next
  BY <1>1, NextStep, StagesNext, JoinedNext, OrderlyNext DEF Inv
<1>2. CASE UNCHANGED vars
  <2>1. Orderly'
    BY <1>2 DEF vars, sVars, dVars, pVars, mVars, Inv, Orderly, Alive, Ended, NeverBegan
  <2> QED BY <1>2, <2>1, Outside DEF vars, Inv
<1> QED BY <1>1, <1>2

LEMMA Invariance == Spec => []Inv
BY InvInit, InvNext, PTL DEF Spec

-----------------------------------------------------------------------------
\* Each stage, among the neighbours it has in the program, runs as its own
\* specification says: what is proved of it there holds of it here.
THEOREM StagesAsSpecified == Spec => SP!Spec /\ DP!Spec /\ PP!Spec
<1>1. Init => SP!Init /\ DP!Init /\ PP!Init
  BY StagesStart DEF Init
<1>2. Inv /\ [Next]_vars =>
        [SP!Next]_(SP!vars) /\ [DP!Next]_(DP!vars) /\ [PP!Next]_(PP!vars)
  BY InvNext DEF StagesStep
<1> QED BY <1>1, <1>2, Invariance, PTL DEF Spec, SP!Spec, DP!Spec, PP!Spec

\* A process that exits with status 0 has awaited all the stages: no Snapshot
\* is in flight, no connection is open (awaitShutdown).
THEOREM ExitsClean == Spec => []CleanExit
<1>1. Inv => CleanExit
  BY DEF Inv, Stages, Orderly, Ended, NeverBegan, CleanExit,
         SP!Inv, SP!OneConnection, DP!Inv, DP!NoSendAfterClose
<1> QED BY <1>1, Invariance, PTL

\* If the Subscriber gives up without a signal, the stages behind it drain
\* before the process exits: no result of an event sent is lost.
THEOREM Drains == Spec => []DrainComplete
<1>1. Inv => DrainComplete
  <2> SUFFICES ASSUME Inv, mPc = "exit", ~cancelled
               PROVE  /\ exitError
                      /\ \A i \in DOMAIN sent, v \in Venues :
                           \E r \in received : r.venue = v /\ r.block = Chain[sent[i]]
    BY DEF DrainComplete
  <2> USE DEF Inv
  <2>1. CASE NeverBegan
    BY <2>1 DEF NeverBegan
  <2>2. CASE Ended
    <3>1. exitError /\ dPc = "closed" /\ calls = {}
      BY <2>2 DEF Orderly, Ended, Stages, DP!Inv, DP!NoSendAfterClose
    <3>2. ASSUME NEW i \in DOMAIN sent, NEW v \in Venues
          PROVE  \E r \in received : r.venue = v /\ r.block = Chain[sent[i]]
      <4>1. Chain[sent[i]] \in accepted
        BY DEF Joined
      <4>2. \E k \in DOMAIN results : DP!Of(results[k], DP!Job(v, Chain[sent[i]]))
        BY <3>1, <4>1 DEF Stages, DP!Inv, DP!NothingLost
      <4> QED BY <4>2 DEF Joined, DP!Of, DP!Job
    <3> QED BY <3>1, <3>2
  <2> QED BY <2>1, <2>2 DEF Orderly
<1> QED BY <1>1, Invariance, PTL

-----------------------------------------------------------------------------
(* The pipeline is a detector.  Like the theorems about pairs it rests on,  *)
(* this takes a chain that does not reorganise and a configuration that     *)
(* lists no size twice.                                                     *)

DistinctHeights ==
  \A i, j \in DOMAIN Chain : Chain[i].number = Chain[j].number => i = j

DistinctSizes == PP!DistinctSizes

Pairs == PP!CrossInv /\ PP!PairInv /\ PP!OnceInv

LEMMA HeightsUnique ==
  ASSUME DistinctHeights
  PROVE  PP!UniqueHeights
<1>1. \A r \in Results : \E i \in DOMAIN Chain : r.block = Chain[i]
  BY StageAssumptions DEF Blocks
<1> QED BY <1>1 DEF DistinctHeights, PP!UniqueHeights

LEMMA PairsInit == StagesInit => Pairs
<1>1. StagesInit => PP!Init
  BY StagesStart
<1>2. PP!Init => Pairs
  BY DEF PP!Init, Pairs, PP!CrossInv, PP!Newcomer, PP!CrossVenue, PP!PairInv, PP!OnePartner,
         PP!AllStored, PP!Visited, PP!PairsDone, PP!OnceInv, PP!SentPast, PP!NeverTwice
<1> QED BY <1>1, <1>2

LEMMA PairsNext ==
  ASSUME DistinctHeights, DistinctSizes, Inv, Pairs, StagesStep
  PROVE  Pairs'
<1>1. PP!Inv /\ [PP!Next]_(PP!vars) /\ PP!CrossInv /\ PP!Newcomer /\ PP!PairInv /\ PP!OnceInv
  BY DEF Inv, Stages, StagesStep, Pairs, PP!CrossInv
<1>2. PP!UniqueHeights /\ PP!DistinctSizes
  BY HeightsUnique DEF DistinctSizes
<1>3. PP!CrossInv'
  BY <1>1, <1>2, PP!CrossNext, StageAssumptions, ChainAssumption, ResultsAssumption
<1>4. PP!PairInv'
  BY <1>1, <1>2, PP!PairNext, StageAssumptions, ChainAssumption, ResultsAssumption
<1>5. PP!OnceInv'
  BY <1>1, <1>2, PP!OnceNext, StageAssumptions, ChainAssumption, ResultsAssumption
<1> QED BY <1>3, <1>4, <1>5 DEF Pairs

\* A candidate that reaches consume is one the abstract detector may report.
LEMMA CandidateReported ==
  ASSUME Inv, Pairs, PP!Inv', Pairs', PassCandidate
  PROVE  Abstract!Next
<1> USE DEF Inv, Stages, PP!Inv
<1>1. PICK c \in P!Offered : PP!Emit(c)
  BY PathfinderAlike DEF PassCandidate
<1>2. PICK h \in handling, v \in partner, s \in slots :
        c = PP!Candidate(h, v, venueQuotes[v], s)
  BY <1>1 DEF PP!Emit
<1>3. /\ emitted' = Append(emitted, c)
      /\ head' = head /\ mPc = "consume" /\ mPc' = "consume"
  BY <1>1 DEF PP!Emit, PassCandidate, sVars, mVars
<1>4. /\ Len(emitted) \in Nat /\ Len(emitted') = Len(emitted) + 1
      /\ emitted'[Len(emitted')] = c /\ Len(emitted') \in DOMAIN emitted'
      /\ \A k \in DOMAIN emitted : k \in DOMAIN emitted' /\ emitted'[k] = emitted[k]
                                   /\ k # Len(emitted')
  BY <1>3 DEF PP!TypeOK
<1>5. c.block = h.block /\ h \in received /\ h.block.number = currentBlock
  BY <1>2 DEF PP!Candidate, PP!Correlated, PP!HandlingCurrent
<1>6. \E i \in 1 .. head : c.block = Chain[i]
  <2>1. h.block \in accepted
    BY <1>5 DEF Joined, DP!Inv, DP!Known
  <2>2. PICK k \in DOMAIN sent : h.block = Chain[sent[k]]
    BY <2>1 DEF Joined
  <2>3. sent[k] \in 1 .. head
    BY DEF SP!Inv, SP!TypeOK
  <2> QED BY <1>5, <2>2, <2>3
<1>7. c.size \in Sizes /\ {c.buyVenue, c.sellVenue} \subseteq Venues
  <2>1. emitted' \in Seq(PP!CandidatePath)
    BY DEF PP!TypeOK
  <2>2. c \in PP!CandidatePath
    BY <1>4, <2>1
  <2> QED BY <2>2 DEF PP!CandidatePath
<1>8. c.buyVenue # c.sellVenue
  BY <1>4 DEF Pairs, PP!CrossInv, PP!CrossVenue
<1>9. ASSUME NEW k \in DOMAIN emitted
      PROVE  /\ emitted[k].block.number <= c.block.number
             /\ Abstract!Trade(emitted[k]) # Abstract!Trade(c)
  <2>1. \E b \in received : b.block.number = emitted[k].block.number
    BY DEF PP!SoundCandidates, PP!Supported, PP!OfferedBy
  <2>2. emitted[k].block.number <= c.block.number
    BY <1>5, <2>1 DEF PP!Correlated, PP!Freshest
  <2>3. ~(/\ emitted[k].block = c.block /\ emitted[k].size = c.size
          /\ emitted[k].buyVenue = c.buyVenue /\ emitted[k].sellVenue = c.sellVenue)
    BY <1>4 DEF Pairs, PP!OnceInv, PP!NeverTwice
  <2> QED BY <2>2, <2>3 DEF Abstract!Trade
<1>10. Abstract!Report(c)
  BY <1>3, <1>6, <1>7, <1>8, <1>9 DEF Abstract!Report
<1> QED BY <1>4, <1>10 DEF Abstract!Next

\* Every other step announces a block, exits, or is not seen.
LEMMA UnseenStep ==
  ASSUME Inv, Next, ~PassCandidate
  PROVE  [Abstract!Next]_(Abstract!vars)
<1> USE DEF Abstract!vars
<1>1. CASE PassEvent
  BY <1>1 DEF PassEvent, pVars, mVars
<1>2. CASE PassResult
  BY <1>2 DEF PassResult, P!Receive, sVars, mVars
<1>3. CASE SubscriberStep
  BY <1>3 DEF SubscriberStep, pVars, mVars
<1>4. CASE ProviderStep
  <2>1. CASE S!Announce
    BY <1>4, <2>1 DEF ProviderStep, S!Announce, pVars, mVars, Abstract!Next, Abstract!Announce
  <2>2. CASE S!Drop
    BY <1>4, <2>2 DEF ProviderStep, S!Drop, pVars, mVars
  <2> QED BY <1>4, <2>1, <2>2 DEF ProviderStep, S!Provider
<1>5. CASE DispatcherStep
  BY <1>5 DEF DispatcherStep, sVars, pVars, mVars
<1>6. CASE PathfinderStep
  BY <1>6 DEF PathfinderStep, P!Internal, P!NextPartner, P!AbandonEmit, P!Record, P!Stop, P!history,
     sVars, mVars
<1>7. CASE MainStep
  <2>1. UNCHANGED <<head, emitted>> /\ mPc # "exit"
    BY <1>7 DEF MainStep, ConsumeEnds, AwaitSubscriber, AwaitDispatcher, AwaitPathfinder, sVars, pVars
  <2>2. CASE mPc' = "exit"
    BY <2>1, <2>2 DEF Abstract!Next, Abstract!Exit
  <2>3. CASE mPc' # "exit"
    BY <2>1, <2>3
  <2> QED BY <2>2, <2>3
<1>8. CASE Signal
  BY <1>8 DEF Signal, sVars, pVars, mVars
<1> QED BY <1>1, <1>2, <1>3, <1>4, <1>5, <1>6, <1>7, <1>8 DEF Next

\* What consume is handed are cross-venue candidates of announced blocks,
\* none about an older block than one before it and none twice, and none
\* after the exit: the pipeline implements Detector.
THEOREM PipelineDetects ==
  ASSUME DistinctHeights, DistinctSizes
  PROVE  Spec => DetectorSpec
<1>1. Init => Abstract!Init /\ Pairs
  BY PairsInit DEF Init, StagesInit, S!Init, Abstract!Init
<1>2. Inv /\ Pairs /\ [Next]_vars => Pairs'
  BY InvNext, PairsNext, DistinctHeights, DistinctSizes
<1>3. Inv /\ Pairs /\ [Next]_vars => [Abstract!Next]_(Abstract!vars)
  <2> SUFFICES ASSUME Inv, Pairs, [Next]_vars PROVE [Abstract!Next]_(Abstract!vars)
    OBVIOUS
  <2>1. CASE Next /\ PassCandidate
    <3>1. PP!Inv' /\ Pairs'
      BY <1>2, InvNext DEF Inv, Stages
    <3> QED BY <2>1, <3>1, CandidateReported
  <2>2. CASE Next /\ ~PassCandidate
    BY <2>2, UnseenStep
  <2>3. CASE UNCHANGED vars
    BY <2>3 DEF vars, sVars, pVars, mVars, Abstract!vars
  <2> QED BY <2>1, <2>2, <2>3
<1> QED BY <1>1, <1>2, <1>3, Invariance, PTL DEF Spec, DetectorSpec, Abstract!Spec

\* No alert buys and sells on one venue, if no height is announced twice.
THEOREM AlertsCrossVenues ==
  ASSUME DistinctHeights
  PROVE  Spec => []CrossVenueAlerts
<1>1. Init => PP!CrossInv
  BY PairsInit DEF Init, Pairs
<1>2. Inv /\ PP!CrossInv /\ [Next]_vars => PP!CrossInv'
  <2> SUFFICES ASSUME Inv, PP!CrossInv, [Next]_vars PROVE PP!CrossInv'
    OBVIOUS
  <2>1. PP!Inv /\ [PP!Next]_(PP!vars)
    BY InvNext DEF Inv, Stages, StagesStep
  <2> QED BY <2>1, HeightsUnique, DistinctHeights, PP!CrossNext,
             StageAssumptions, ChainAssumption, ResultsAssumption
<1>3. PP!CrossInv => CrossVenueAlerts
  BY DEF PP!CrossInv, PP!CrossVenue, CrossVenueAlerts, P!CrossVenue
<1> QED BY <1>1, <1>2, <1>3, Invariance, PTL DEF Spec

\* While the pipeline runs and the Pathfinder waits, the freshest block is
\* all reported once its snapshots are back: each two venues have answered,
\* and every pair of clean rows has become a candidate.
SettledIsReported ==
  pPc = "select" /\ ~cancelled =>
    \A i \in DOMAIN sent :
      (/\ Chain[sent[i]].number = currentBlock
       /\ \A c \in calls : c.block # Chain[sent[i]]) =>
         \A v, w \in Venues : v # w =>
           \E q, r \in received :
             /\ q.venue = v /\ r.venue = w
             /\ q.block = Chain[sent[i]] /\ r.block = Chain[sent[i]]
             /\ ~q.err /\ ~r.err => P!PairEmitted(q, r)

\* What the Dispatcher's and the Pathfinder's promises come to together: no
\* opportunity is lost on the way from the node to consume, if no height is
\* announced twice.
THEOREM NothingMissed ==
  ASSUME DistinctHeights
  PROVE  Spec => []SettledIsReported
<1> DEFINE PairsSeen == PP!CrossInv /\ PP!PairInv
<1>1. Init => PairsSeen
  BY PairsInit DEF Init, Pairs
<1>2. Inv /\ PairsSeen /\ [Next]_vars => PairsSeen'
  <2> SUFFICES ASSUME Inv, PairsSeen, [Next]_vars PROVE PairsSeen'
    OBVIOUS
  <2>1. PP!Inv /\ [PP!Next]_(PP!vars) /\ PP!Newcomer
    BY InvNext DEF Inv, Stages, StagesStep, PP!CrossInv
  <2>2. PP!UniqueHeights
    BY HeightsUnique, DistinctHeights
  <2>3. PP!CrossInv'
    BY <2>1, <2>2, PP!CrossNext, StageAssumptions, ChainAssumption, ResultsAssumption
  <2>4. PP!PairInv'
    BY <2>1, PP!PairNext, StageAssumptions, ChainAssumption, ResultsAssumption
  <2> QED BY <2>3, <2>4
<1>3. Inv /\ PairsSeen => SettledIsReported
  <2> SUFFICES ASSUME Inv, PairsSeen, pPc = "select", ~cancelled,
                      NEW i \in DOMAIN sent, Chain[sent[i]].number = currentBlock,
                      \A c \in calls : c.block # Chain[sent[i]],
                      NEW v \in Venues, NEW w \in Venues, v # w
               PROVE  \E q, r \in received :
                        /\ q.venue = v /\ r.venue = w
                        /\ q.block = Chain[sent[i]] /\ r.block = Chain[sent[i]]
                        /\ ~q.err /\ ~r.err => P!PairEmitted(q, r)
    BY DEF SettledIsReported
  <2>1. ASSUME NEW x \in Venues
        PROVE  \E r \in received : r.venue = x /\ r.block = Chain[sent[i]]
    <3>1. Chain[sent[i]] \in accepted
      BY DEF Inv, Joined
    <3>2. \A c \in calls : ~DP!Of(c, DP!Job(x, Chain[sent[i]]))
      BY DEF DP!Of, DP!Job
    <3>3. \E k \in DOMAIN results : DP!Of(results[k], DP!Job(x, Chain[sent[i]]))
      BY <3>1, <3>2 DEF Inv, Stages, DP!Inv, DP!NothingLost
    <3> QED BY <3>3 DEF Inv, Joined, DP!Of, DP!Job
  <2>2. PICK q \in received : q.venue = v /\ q.block = Chain[sent[i]]
    BY <2>1
  <2>3. PICK r \in received : r.venue = w /\ r.block = Chain[sent[i]]
    BY <2>1
  <2>4. PP!NoMissedPair
    BY DEF Inv, Stages, PP!Inv, PP!TypeOK, PP!PairInv, PP!PairsDone, PP!Current, PP!NoMissedPair
  <2>5. ~q.err /\ ~r.err => PP!PairEmitted(q, r)
    BY <2>2, <2>3, <2>4 DEF PP!NoMissedPair
  <2>6. PP!PairEmitted(q, r) => P!PairEmitted(q, r)
    BY DEF PP!PairEmitted, P!PairEmitted
  <2> QED BY <2>2, <2>3, <2>5, <2>6
<1> QED BY <1>1, <1>2, <1>3, Invariance, PTL DEF Spec

-----------------------------------------------------------------------------
(* The process around the pipeline. *)

\* How far the start-up is says what has been checked and what is open.
Boot ==
  /\ mPc \in {"env", "config", "build", "consume", "awaitSub", "awaitDisp",
              "awaitPf", "exit", "gone"}
  /\ exitError \in BOOLEAN /\ env \in Envs /\ file \in Files
  /\ rpc \in {"none", "open", "closed"}
  /\ mPc \in {"env", "config", "build"} =>
       calls = {} /\ live = 0 /\ sent = <<>> /\ rpc = "none"
  /\ mPc = "config" \/ mPc = "build" => Sound(env)
  /\ mPc = "build" => Loads(file)
  /\ Alive => Sound(env) /\ Loads(file) /\ rpc = "open"

ArbdInv == Inv /\ Boot

LEMMA ArbdInvInit == ArbdInit => ArbdInv
<1> SUFFICES ASSUME ArbdInit PROVE ArbdInv
  OBVIOUS
<1>1. StagesInit /\ mPc = "env" /\ exitError = FALSE
  BY DEF ArbdInit
<1>2. Orderly
  <2>1. sResult = "none" /\ dPc = "select" /\ pPc = "select"
    BY <1>1 DEF StagesInit, S!Init
  <2> QED BY <1>1, <2>1 DEF Orderly, Alive
<1>3. Boot
  <2>1. calls = {} /\ live = 0 /\ sent = <<>>
    BY <1>1 DEF StagesInit, S!Init
  <2> QED BY <1>1, <2>1 DEF ArbdInit, Boot, Alive
<1> QED BY <1>1, <1>2, <1>3, StagesStart DEF ArbdInv, Inv

\* While the pipeline runs, nothing of the process around it changes.
LEMMA RunStep ==
  ASSUME ArbdInv, Run
  PROVE  ArbdInv'
<1> USE DEF ArbdInv
<1>1. Next /\ UNCHANGED <<env, file, rpc>> /\ Alive
  BY DEF Run, bootVars, Next
<1>2. Inv'
  BY <1>1, InvNext
<1>3. mPc' \in {"consume", "awaitSub", "awaitDisp", "awaitPf", "exit"} /\ exitError' \in BOOLEAN
  <2>1. CASE ~MainStep
    BY <1>1, <2>1 DEF Next, PassEvent, PassResult, PassCandidate, SubscriberStep, ProviderStep,
       DispatcherStep, PathfinderStep, Signal, mVars, Alive, Boot
  <2>2. CASE AwaitSubscriber
    <3>1. exitError' = (sResult # "ctx")
      BY <2>2 DEF AwaitSubscriber
    <3>2. exitError' \in BOOLEAN
      BY <3>1, Zenon
    <3> QED BY <2>2, <3>2 DEF AwaitSubscriber
  <2>3. CASE ConsumeEnds \/ AwaitDispatcher \/ AwaitPathfinder
    BY <2>3 DEF ConsumeEnds, AwaitDispatcher, AwaitPathfinder, Boot
  <2> QED BY <2>1, <2>2, <2>3 DEF MainStep
<1>4. Boot'
  <2>1. Sound(env)' = Sound(env) /\ Loads(file)' = Loads(file)
    BY <1>1
  <2> QED BY <1>1, <1>3, <2>1 DEF Boot, Alive
<1> QED BY <1>2, <1>4

\* The steps before and after it: no stage moves.
LEMMA AroundStep ==
  ASSUME ArbdInv,
         LoadEnv \/ LoadConfig \/ Killed \/ BuildClients \/ SignalWhileBuilding \/ Return
  PROVE  ArbdInv'
<1> USE DEF ArbdInv
<1>1. UNCHANGED <<sVars, dVars, pVars, env, file>> /\ (cancelled' = cancelled \/ cancelled' = TRUE)
  BY DEF LoadEnv, LoadConfig, Killed, BuildClients, SignalWhileBuilding, Return, Signal, bootVars
<1>2. Stages' /\ Joined'
  BY <1>1, Outside
<1>3. UNCHANGED <<sPc, sResult, live, sent, dPc, calls, pPc>>
  BY <1>1 DEF sVars, dVars, pVars
<1>4. /\ sResult' = "ctx" => cancelled'
      /\ dPc' # "select" => cancelled' \/ sPc' = "done"
      /\ pPc' = "done" => cancelled' \/ dPc' = "closed"
  BY <1>1, <1>3 DEF Inv, Orderly
<1>5. ASSUME NEW ok \in BOOLEAN, NEW to, NEW return, Go(ok, to, return)
      PROVE  /\ exitError' \in BOOLEAN
             /\ ok => mPc' = to /\ exitError' = FALSE
             /\ ~ok => mPc' = return /\ exitError' = TRUE
  <2>1. CASE ok
    BY <1>5, <2>1 DEF Go
  <2>2. CASE ~ok
    BY <1>5, <2>2 DEF Go
  <2> QED BY <2>1, <2>2
<1>6. Sound(env) \in BOOLEAN /\ Loads(file) \in BOOLEAN
  BY Zenon DEF Sound, Loads
<1>7. Sound(env)' = Sound(env) /\ Loads(file)' = Loads(file)
  BY <1>1
<1>8. CASE LoadEnv
  <2>1. Go(Sound(env), "config", "gone") /\ rpc' = rpc /\ mPc = "env"
    BY <1>8 DEF LoadEnv, bootVars
  <2>2. \/ Sound(env) /\ mPc' = "config" /\ exitError' = FALSE
        \/ mPc' = "gone" /\ exitError' = TRUE
    BY <1>5, <1>6, <2>1
  <2> QED BY <1>1, <1>2, <1>3, <1>4, <1>7, <2>1, <2>2 DEF Inv, Orderly, Boot, Alive
<1>9. CASE LoadConfig
  <2>1. Go(Loads(file), "build", "gone") /\ rpc' = rpc /\ mPc = "config"
    BY <1>9 DEF LoadConfig, bootVars
  <2>2. \/ Loads(file) /\ mPc' = "build" /\ exitError' = FALSE
        \/ mPc' = "gone" /\ exitError' = TRUE
    BY <1>5, <1>6, <2>1
  <2> QED BY <1>1, <1>2, <1>3, <1>4, <1>7, <2>1, <2>2 DEF Inv, Orderly, Boot, Alive
<1>10. CASE BuildClients
  <2>1. /\ Go(env["ETH_RPC_URL"] = "good", "consume", "exit") /\ mPc = "build"
        /\ rpc' = IF env["ETH_RPC_URL"] = "good" THEN "open" ELSE rpc
    BY <1>10 DEF BuildClients
  <2>2. \/ rpc' = "open" /\ mPc' = "consume" /\ exitError' = FALSE
        \/ rpc' = rpc /\ mPc' = "exit" /\ exitError' = TRUE
    <3>1. (env["ETH_RPC_URL"] = "good") \in BOOLEAN
      BY Zenon
    <3> QED BY <1>5, <2>1, <3>1
  <2> QED BY <1>1, <1>2, <1>3, <1>4, <1>7, <2>1, <2>2 DEF Inv, Orderly, NeverBegan, Boot, Alive
<1>11. CASE Killed
  BY <1>1, <1>2, <1>3, <1>4, <1>7, <1>11 DEF Killed, bootVars, Inv, Orderly, Boot, Alive
<1>12. CASE SignalWhileBuilding
  BY <1>1, <1>2, <1>3, <1>4, <1>7, <1>12
     DEF SignalWhileBuilding, Signal, mVars, bootVars, Inv, Orderly, Boot, Alive
<1>13. CASE Return
  BY <1>1, <1>2, <1>3, <1>4, <1>7, <1>13 DEF Return, Inv, Orderly, Boot, Alive
<1> QED BY <1>8, <1>9, <1>10, <1>11, <1>12, <1>13

LEMMA ArbdInvNext == ArbdInv /\ [ArbdNext]_arbdVars => ArbdInv'
<1> SUFFICES ASSUME ArbdInv, [ArbdNext]_arbdVars PROVE ArbdInv'
  OBVIOUS
<1>1. CASE ArbdNext
  BY <1>1, RunStep, AroundStep DEF ArbdNext
<1>2. CASE UNCHANGED arbdVars
  <2>1. Inv'
    BY <1>2, InvNext DEF arbdVars, ArbdInv
  <2>2. Boot'
    BY <1>2 DEF arbdVars, vars, sVars, dVars, mVars, bootVars, ArbdInv, Boot, Alive
  <2> QED BY <2>1, <2>2 DEF ArbdInv
<1> QED BY <1>1, <1>2

LEMMA ArbdInvariance == ArbdSpec => []ArbdInv
BY ArbdInvInit, ArbdInvNext, PTL DEF ArbdSpec

\* The stages keep their types in the program that composes them, and the
\* pipeline runs only on a sound environment and a file that loads, with the
\* client it uses open.
THEOREM TypeCorrect == ArbdSpec => []TypeOK
<1>1. ArbdInv => TypeOK
  <2> SUFFICES ASSUME ArbdInv PROVE TypeOK
    OBVIOUS
  <2>1. S!TypeOK
    BY Zenon DEF ArbdInv, Inv, Stages, SP!Inv, SP!TypeOK, S!TypeOK, SP!Places, S!Places
  <2>2. D!TypeOK
    BY Zenon DEF ArbdInv, Inv, Stages, DP!Inv, DP!TypeOK, D!TypeOK, DP!Call, D!Call, DP!Of, D!Of
  <2>3. P!TypeOK
    BY Zenon DEF ArbdInv, Inv, Stages, PP!Inv, PP!TypeOK, P!TypeOK, PP!Quotes, P!Quotes,
       PP!Quote, P!Quote, PP!Slot, P!Slot, PP!CandidatePath, P!CandidatePath
  <2> QED BY <2>1, <2>2, <2>3 DEF ArbdInv, Boot, TypeOK
<1> QED BY <1>1, ArbdInvariance, PTL

\* However the process ends, it leaves no client and no connection open, and
\* no Snapshot in flight unless the Subscriber gave up on a dial that timed
\* out and the signal came too, before or after (run's deferred calls,
\* awaitShutdown).
THEOREM EndsClean == ArbdSpec => LeavesNothing
<1> DEFINE Left == mPc # "gone" /\ mPc' = "gone" =>
                     /\ rpc' # "open" /\ live' = 0
                     /\ calls # {} => cancelled /\ sResult = "deadline"
<1>1. ArbdInv /\ [ArbdNext]_arbdVars => [Left]_arbdVars
  <2> SUFFICES ASSUME ArbdInv, ArbdNext, mPc # "gone", mPc' = "gone"
               PROVE  /\ rpc' # "open" /\ live' = 0
                      /\ calls # {} => cancelled /\ sResult = "deadline"
    OBVIOUS
  <2> USE DEF ArbdInv, Inv, Stages
  <2>1. CASE LoadEnv \/ LoadConfig \/ Killed
    BY <2>1 DEF LoadEnv, LoadConfig, Killed, sVars, bootVars, Boot
  <2>2. CASE Return
    <3>1. mPc = "exit" /\ live' = live /\ rpc' # "open"
      BY <2>2 DEF Return, sVars
    <3>2. Ended \/ NeverBegan
      BY <3>1 DEF Orderly
    <3>3. live = 0
      BY <3>2 DEF Ended, NeverBegan, SP!Inv, SP!OneConnection
    <3>4. calls # {} => cancelled /\ sResult = "deadline"
      BY <3>2 DEF Orderly, Ended, NeverBegan, DP!Inv, DP!NoSendAfterClose
    <3> QED BY <3>1, <3>3, <3>4
  <2>3. CASE BuildClients \/ SignalWhileBuilding
    BY <2>3 DEF BuildClients, Go, SignalWhileBuilding, Signal, mVars
  <2>4. CASE Run
    BY <2>4 DEF Run, Next, PassEvent, PassResult, PassCandidate, SubscriberStep, ProviderStep,
       DispatcherStep, PathfinderStep, Signal, mVars, MainStep, ConsumeEnds, AwaitSubscriber,
       AwaitDispatcher, AwaitPathfinder
  <2> QED BY <2>1, <2>2, <2>3, <2>4 DEF ArbdNext
<1> QED BY <1>1, ArbdInvariance, PTL DEF ArbdSpec, LeavesNothing
=============================================================================
