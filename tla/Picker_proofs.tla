---------------------------- MODULE Picker_proofs ----------------------------
(***************************************************************************)
(* Theorems about an operation's life in the picker, for any verbs, any    *)
(* number of operations and any number of replies.                         *)
(***************************************************************************)
EXTENDS Picker, TLAPS

Kinds == Verbs \cup {"retransmit", "timeout", "wait"}

\* The operation's number is always the last one given out.
SeqIsCounter == dispatchSeq = dispatchSeqCounter

\* A number not yet given out has left no trace.
FutureIsFresh ==
  \A i \in Ids : i > dispatchSeqCounter =>
    /\ \A k \in Kinds : <<k, i>> \notin cmds
    /\ \A m \in msgs : m.id # i
    /\ i \notin live /\ i \notin answered /\ i \notin timedOut

(* A dispatch is with its Cmd, then with its one message, then with the    *)
(* reads of its channel.                                                   *)
OneStage ==
  /\ \A v \in Verbs, i \in Ids : <<v, i>> \in cmds =>
       /\ i \notin live /\ <<"wait", i>> \notin cmds
       /\ \A m \in msgs : m.id # i
       /\ \A u \in Verbs : <<u, i>> \in cmds => u = v
  /\ \A m \in msgs :
       /\ <<"wait", m.id>> \notin cmds
       /\ m.ok <=> m.id \in live
       /\ \A n \in msgs : n.id = m.id => n = m

Engaged(i) == i \in live \/ (\E v \in Verbs : <<v, i>> \in cmds) \/ (\E m \in msgs : m.id = i)

\* NoDispatchAbandoned, from the key on.
NoneAbandoned ==
  \A i \in Ids : Engaged(i) => i \in cancelled \/ (i = dispatchSeq /\ opInFlight)

InFlightHasContext == opInFlight => dispatchSeq \in Ids /\ dispatchCancel = dispatchSeq

ReadsItsChannel == <<"wait", dispatchSeq>> \in cmds => replyCh = dispatchSeq

\* What the guards on replyReceived and on the number remember.
AnswersRemembered ==
  /\ dispatchSeq \in answered => replyReceived
  /\ dispatchSeq \notin timedOut
  /\ TimeoutXorAnswer

IInv ==
  /\ TypeOK /\ SeqIsCounter /\ FutureIsFresh /\ OneStage
  /\ NoneAbandoned /\ InFlightHasContext /\ ReadsItsChannel /\ AnswersRemembered

LEMMA InitInv == Init => IInv
<1> SUFFICES ASSUME Init PROVE IInv
  OBVIOUS
<1>7. MaxSeq \in Nat /\ 0 \in 0 .. MaxSeq + 1 /\ 0 \in 0 .. 0
  BY BoundsAssumption
<1>6. chan \in [Ids -> Seq(Replies)] /\ stream \in [Ids -> Seq(Replies)]
  <2>1. <<>> \in Seq(Replies)
    OBVIOUS
  <2>2. chan = [i \in Ids |-> <<>>] /\ stream = [i \in Ids |-> <<>>]
    BY DEF Init
  <2> QED
    BY <2>1, <2>2
<1> USE BoundsAssumption DEF Init, None
<1>1. \A i \in Ids : chan[i] = <<>> /\ stream[i] = <<>>
  OBVIOUS
<1>2. TypeOK
  BY <1>6, <1>7 DEF TypeOK
<1>3. SeqIsCounter /\ FutureIsFresh /\ OneStage
  BY DEF SeqIsCounter, FutureIsFresh, OneStage
<1>4. NoneAbandoned /\ InFlightHasContext /\ ReadsItsChannel
  BY DEF NoneAbandoned, Engaged, InFlightHasContext, ReadsItsChannel
<1>5. AnswersRemembered
  BY DEF AnswersRemembered, TimeoutXorAnswer
<1> QED
  BY <1>2, <1>3, <1>4, <1>5 DEF IInv

\* The kinds of Cmds that carry the number of an operation are all different.
LEMMA KindsDiffer ==
  /\ \A v \in Verbs : v \notin {"retransmit", "timeout", "wait", "quit"}
  /\ \A i \in Ids : i \in Nat /\ i # None
  BY BoundsAssumption DEF Ids, None

(* What the number of an operation stands for in the steps that only       *)
(* handle the message of one.                                              *)
LEMMA CurrentIsIssued ==
  ASSUME TypeOK
  PROVE  dispatchSeqCounter \in Nat /\ dispatchSeqCounter <= MaxSeq + 1
<1>1. dispatchSeqCounter \in 0 .. MaxSeq + 1
  BY Zenon DEF TypeOK
<1> QED
  BY <1>1, BoundsAssumption

LEMMA MessagesHaveIds ==
  ASSUME TypeOK
  PROVE  \A m \in msgs : m.id \in Ids /\ m.verb \in Verbs /\ m.ok \in BOOLEAN
<1>1. msgs \subseteq [id : Ids, verb : Verbs, ok : BOOLEAN]
  BY Zenon DEF TypeOK
<1> QED
  BY <1>1

LEMMA WaitsHaveIds ==
  /\ TypeOK => \A i : <<"wait", i>> \in cmds => i \in Ids
  /\ TypeOK' => \A i : <<"wait", i>> \in cmds' => i \in Ids
<1>1. ASSUME NEW S, S \subseteq ((Verbs \cup {"retransmit", "timeout", "wait"}) \X Ids) \cup {<<"quit", None>>},
             NEW i, <<"wait", i>> \in S
      PROVE  i \in Ids
  BY <1>1
<1>2. ASSUME TypeOK PROVE cmds \subseteq ((Verbs \cup {"retransmit", "timeout", "wait"}) \X Ids) \cup {<<"quit", None>>}
  BY <1>2, Zenon DEF TypeOK
<1>3. ASSUME TypeOK' PROVE cmds' \subseteq ((Verbs \cup {"retransmit", "timeout", "wait"}) \X Ids) \cup {<<"quit", None>>}
  BY <1>3, Zenon DEF TypeOK
<1> QED
  BY <1>1, <1>2, <1>3

LEMMA StartInv ==
  ASSUME IInv, NEW verb \in Verbs, VerbKey(verb)
  PROVE  IInv'
<1> DEFINE s == dispatchSeqCounter + 1
<1> USE DEF IInv
<1>1. /\ tea = "running" /\ ~confirmQuit /\ dispatchSeqCounter < MaxSeq
      /\ dispatchSeqCounter' = s /\ dispatchSeq' = s
      /\ opInFlight' = TRUE /\ replyReceived' = FALSE /\ status' = ""
      /\ cancelled' = cancel(dispatchCancel) /\ dispatchCancel' = s
      /\ currentVerb' = verb /\ cmds' = cmds \cup {<<verb, s>>}
      /\ UNCHANGED <<replyCh, confirmQuit, quitting, msgs, chan, stream, live, closed, tea, answered, timedOut>>
  BY DEF VerbKey, startDispatch, dispatches, history
<1>2. s \in Ids /\ s > dispatchSeqCounter /\ dispatchSeqCounter \in Nat
  <2>1. dispatchSeqCounter \in Nat
    BY CurrentIsIssued
  <2>2. dispatchSeqCounter < MaxSeq /\ MaxSeq \in Nat
    BY <1>1, BoundsAssumption
  <2> QED
    BY <2>1, <2>2 DEF Ids
<1>3. TypeOK'
  <2>1. dispatchSeqCounter' \in 0 .. MaxSeq + 1 /\ dispatchSeq' \in 0 .. dispatchSeqCounter'
    <3>1. s \in 0 .. MaxSeq + 1 /\ s \in 0 .. s
      BY <1>2, BoundsAssumption DEF Ids
    <3> QED
      BY <1>1, <3>1
  <2>2. cancelled' \subseteq Ids
    BY <1>1 DEF TypeOK, cancel
  <2>3. cmds' \subseteq ((Verbs \cup {"retransmit", "timeout", "wait"}) \X Ids) \cup {<<"quit", None>>}
    <3>1. cmds \subseteq ((Verbs \cup {"retransmit", "timeout", "wait"}) \X Ids) \cup {<<"quit", None>>}
      BY Zenon DEF TypeOK
    <3>2. <<verb, s>> \in (Verbs \cup {"retransmit", "timeout", "wait"}) \X Ids
      BY <1>2
    <3> QED
      BY <1>1, <3>1, <3>2, Zenon
  <2> QED
    BY <1>1, <1>2, <2>1, <2>2, <2>3 DEF TypeOK
<1>4. /\ \A k \in Kinds : <<k, s>> \notin cmds
      /\ \A m \in msgs : m.id # s
      /\ s \notin live /\ s \notin answered /\ s \notin timedOut
  BY <1>2 DEF FutureIsFresh
<1>5. FutureIsFresh'
  <2> SUFFICES ASSUME NEW i \in Ids, i > s
               PROVE  /\ \A k \in Kinds : <<k, i>> \notin cmds'
                      /\ \A m \in msgs' : m.id # i
                      /\ i \notin live' /\ i \notin answered' /\ i \notin timedOut'
    BY <1>1 DEF FutureIsFresh
  <2>1. i > dispatchSeqCounter /\ i # s
    BY <1>2 DEF Ids
  <2> QED
    BY <1>1, <2>1 DEF FutureIsFresh
<1>6. OneStage'
  BY <1>1, <1>2, <1>4, KindsDiffer DEF OneStage, Kinds, TypeOK
<1>7. NoneAbandoned'
  <2> SUFFICES ASSUME NEW i \in Ids, Engaged(i)' PROVE i \in cancelled' \/ i = s
    BY <1>1 DEF NoneAbandoned
  <2>1. CASE i = s
    BY <2>1
  <2>2. CASE i # s
    <3>1. Engaged(i)
      BY <1>1, <2>2 DEF Engaged
    <3>2. i \in cancelled \/ (i = dispatchSeq /\ opInFlight)
      BY <3>1 DEF NoneAbandoned
    <3>3. i = dispatchSeq /\ opInFlight => i = dispatchCancel /\ i # None
      BY KindsDiffer DEF InFlightHasContext
    <3> QED
      BY <1>1, <3>2, <3>3 DEF cancel
  <2> QED
    BY <2>1, <2>2
<1>8. SeqIsCounter' /\ InFlightHasContext'
  BY <1>1, <1>2 DEF SeqIsCounter, InFlightHasContext
<1>9. ReadsItsChannel'
  BY <1>1, <1>4, KindsDiffer DEF ReadsItsChannel, Kinds
<1>10. AnswersRemembered'
  BY <1>1, <1>4 DEF AnswersRemembered, TimeoutXorAnswer
<1> QED
  BY <1>3, <1>5, <1>6, <1>7, <1>8, <1>9, <1>10

(* finishOp, wherever it is called from: the next number is fresh, and no  *)
(* dispatch is left with a context.                                        *)
LEMMA FinishInv ==
  ASSUME IInv, TypeOK', finishOp, dispatchSeq \in Ids, msgs' = msgs, live' = live,
         \A k \in Kinds, i \in Ids : <<k, i>> \in cmds' => <<k, i>> \in cmds,
         answered' \subseteq answered \cup {dispatchSeq}, timedOut' \subseteq timedOut \cup {dispatchSeq},
         TimeoutXorAnswer'
  PROVE  IInv'
<1> USE DEF IInv
<1>1. /\ opInFlight' = FALSE /\ dispatchSeqCounter' = dispatchSeqCounter + 1
      /\ dispatchSeq' = dispatchSeqCounter + 1 /\ cancelled' = cancel(dispatchCancel)
  BY DEF finishOp
<1>2. dispatchSeqCounter \in Nat /\ dispatchSeqCounter = dispatchSeq
  BY CurrentIsIssued DEF SeqIsCounter
<1>3. \A i \in Ids : i > dispatchSeqCounter' => i > dispatchSeqCounter /\ i # dispatchSeq
  BY <1>1, <1>2 DEF Ids
<1>4. dispatchSeq' # dispatchSeq /\ (dispatchSeq' \in Ids => dispatchSeq' > dispatchSeqCounter)
  BY <1>1, <1>2
<1>5. SeqIsCounter' /\ InFlightHasContext'
  BY <1>1 DEF SeqIsCounter, InFlightHasContext
<1>6. FutureIsFresh'
  <2> SUFFICES ASSUME NEW i \in Ids, i > dispatchSeqCounter'
               PROVE  /\ \A k \in Kinds : <<k, i>> \notin cmds'
                      /\ \A m \in msgs' : m.id # i
                      /\ i \notin live' /\ i \notin answered' /\ i \notin timedOut'
    BY DEF FutureIsFresh
  <2> QED
    BY <1>3 DEF FutureIsFresh
<1>7. OneStage'
  BY MessagesHaveIds DEF OneStage, Kinds
<1>8. NoneAbandoned'
  <2> SUFFICES ASSUME NEW i \in Ids, Engaged(i)' PROVE i \in cancelled'
    BY DEF NoneAbandoned
  <2>1. Engaged(i)
    BY DEF Engaged, Kinds
  <2>2. i \in cancelled \/ (i = dispatchSeq /\ opInFlight)
    BY <2>1 DEF NoneAbandoned
  <2>3. i = dispatchSeq /\ opInFlight => i = dispatchCancel /\ i # None
    BY KindsDiffer DEF InFlightHasContext
  <2> QED
    BY <1>1, <2>2, <2>3 DEF cancel
<1>9. \A x \in Ids : x > dispatchSeqCounter => x \notin answered /\ x \notin timedOut /\ <<"wait", x>> \notin cmds
  BY DEF FutureIsFresh, Kinds
<1>10. ReadsItsChannel'
  <2>1. CASE dispatchSeq' \in Ids
    BY <1>4, <1>9, <2>1 DEF ReadsItsChannel, Kinds
  <2>2. CASE dispatchSeq' \notin Ids
    BY <2>2, WaitsHaveIds DEF ReadsItsChannel
  <2> QED
    BY <2>1, <2>2
<1>11. AnswersRemembered'
  <2>1. dispatchSeq' \notin answered' /\ dispatchSeq' \notin timedOut'
    <3>1. CASE dispatchSeq' \in Ids
      BY <1>4, <1>9, <3>1
    <3>2. CASE dispatchSeq' \notin Ids
      BY <3>2 DEF TypeOK
    <3> QED
      BY <3>1, <3>2
  <2> QED
    BY <2>1 DEF AnswersRemembered
<1> QED
  BY <1>5, <1>6, <1>7, <1>8, <1>10, <1>11

(* Steps that only take messages away, or touch what the invariant is not  *)
(* about.                                                                  *)
LEMMA FrameInv ==
  ASSUME IInv, TypeOK',
         dispatchSeqCounter' = dispatchSeqCounter, dispatchSeq' = dispatchSeq, opInFlight' = opInFlight,
         dispatchCancel' = dispatchCancel, replyCh' = replyCh, live' = live,
         msgs' \subseteq msgs, cancelled \subseteq cancelled', timedOut' = timedOut,
         \A k \in Kinds, i \in Ids : <<k, i>> \in cmds' => <<k, i>> \in cmds,
         \/ answered' = answered /\ replyReceived' = replyReceived
         \/ answered' = answered \cup {dispatchSeq} /\ replyReceived'
  PROVE  IInv'
<1> USE DEF IInv
<1>1. SeqIsCounter' /\ InFlightHasContext'
  BY DEF SeqIsCounter, InFlightHasContext
<1>2. FutureIsFresh'
  <2>1. dispatchSeqCounter \in Nat /\ dispatchSeqCounter = dispatchSeq
    BY CurrentIsIssued DEF SeqIsCounter
  <2>2. \A i \in Ids : i > dispatchSeqCounter => i # dispatchSeq
    BY <2>1 DEF Ids
  <2> QED
    BY <2>2 DEF FutureIsFresh
<1>3. OneStage'
  BY MessagesHaveIds DEF OneStage, Kinds
<1>4. NoneAbandoned'
  <2> SUFFICES ASSUME NEW i \in Ids, Engaged(i)' PROVE i \in cancelled' \/ (i = dispatchSeq /\ opInFlight)
    BY DEF NoneAbandoned
  <2>1. Engaged(i)
    BY DEF Engaged, Kinds
  <2> QED
    BY <2>1 DEF NoneAbandoned
<1>5. ReadsItsChannel'
  <2>1. CASE dispatchSeq \in Ids
    BY <2>1 DEF ReadsItsChannel, Kinds
  <2>2. CASE dispatchSeq \notin Ids
    BY <2>2, WaitsHaveIds DEF ReadsItsChannel
  <2> QED
    BY <2>1, <2>2
<1>6. AnswersRemembered'
  BY DEF AnswersRemembered, TimeoutXorAnswer
<1> QED
  BY <1>1, <1>2, <1>3, <1>4, <1>5, <1>6

LEMMA RunDispatchInv ==
  ASSUME IInv, TypeOK', NEW verb \in Verbs, NEW i \in Ids, RunDispatch(verb, i)
  PROVE  IInv'
<1> USE DEF IInv
<1>1. PICK ok \in BOOLEAN :
        /\ live' = IF ok THEN live \cup {i} ELSE live
        /\ msgs' = msgs \cup {dispatchStartedMsg(i, verb, ok)}
  BY DEF RunDispatch
<1> DEFINE new == dispatchStartedMsg(i, verb, ok)
<1>2. /\ <<verb, i>> \in cmds /\ cmds' = cmds \ {<<verb, i>>}
      /\ UNCHANGED <<op, ui, chan, stream, closed, tea, answered, timedOut>>
  BY DEF RunDispatch, history
<1>3. /\ UNCHANGED <<dispatchSeqCounter, dispatchSeq, opInFlight, replyReceived, replyCh, dispatchCancel, cancelled>>
      /\ new.id = i /\ (new.ok <=> ok)
  BY <1>2 DEF op, dispatchStartedMsg
<1>4. /\ i \notin live /\ <<"wait", i>> \notin cmds
      /\ \A m \in msgs : m.id # i
      /\ \A u \in Verbs : <<u, i>> \in cmds => u = verb
  BY <1>2 DEF OneStage
<1>5. SeqIsCounter' /\ InFlightHasContext' /\ AnswersRemembered'
  BY <1>2, <1>3 DEF SeqIsCounter, InFlightHasContext, AnswersRemembered, TimeoutXorAnswer
<1>6. ReadsItsChannel'
  BY <1>2, <1>3 DEF ReadsItsChannel
<1>7. FutureIsFresh'
  <2>1. ~(i > dispatchSeqCounter)
    BY <1>2 DEF FutureIsFresh, Kinds
  <2> SUFFICES ASSUME NEW j \in Ids, j > dispatchSeqCounter
               PROVE  /\ \A k \in Kinds : <<k, j>> \notin cmds'
                      /\ \A m \in msgs' : m.id # j
                      /\ j \notin live' /\ j \notin answered' /\ j \notin timedOut'
    BY <1>3 DEF FutureIsFresh
  <2>2. j # i
    BY <2>1
  <2> QED
    BY <1>1, <1>2, <1>3, <2>2 DEF FutureIsFresh
<1>8. OneStage'
  <2>1. ASSUME NEW v \in Verbs, NEW j \in Ids, <<v, j>> \in cmds'
        PROVE  /\ j \notin live' /\ <<"wait", j>> \notin cmds'
               /\ \A m \in msgs' : m.id # j
               /\ \A u \in Verbs : <<u, j>> \in cmds' => u = v
    <3>1. <<v, j>> \in cmds /\ j # i
      BY <1>2, <1>4, <2>1
    <3> QED
      BY <1>1, <1>2, <1>3, <3>1 DEF OneStage
  <2>2. ASSUME NEW m \in msgs'
        PROVE  /\ <<"wait", m.id>> \notin cmds'
               /\ m.ok <=> m.id \in live'
               /\ \A n \in msgs' : n.id = m.id => n = m
    <3>1. CASE m = new
      <4>1. m.ok <=> m.id \in live'
        BY <1>1, <1>3, <1>4, <3>1
      <4>2. \A n \in msgs' : n.id = m.id => n = m
        BY <1>1, <1>3, <1>4, <3>1
      <4> QED
        BY <1>2, <1>3, <1>4, <3>1, <4>1, <4>2
    <3>2. CASE m # new
      <4>1. m \in msgs /\ m.id # i
        BY <1>1, <1>4, <2>2, <3>2
      <4>2. m.ok <=> m.id \in live'
        BY <1>1, <4>1 DEF OneStage
      <4>3. \A n \in msgs' : n.id = m.id => n = m
        BY <1>1, <1>3, <4>1 DEF OneStage
      <4> QED
        BY <1>2, <4>1, <4>2, <4>3 DEF OneStage
    <3> QED
      BY <3>1, <3>2
  <2> QED
    BY <2>1, <2>2 DEF OneStage
<1>9. NoneAbandoned'
  <2> SUFFICES ASSUME NEW j \in Ids, Engaged(j)' PROVE j \in cancelled \/ (j = dispatchSeq /\ opInFlight)
    BY <1>3 DEF NoneAbandoned
  <2>1. Engaged(i)
    BY <1>2 DEF Engaged
  <2>2. CASE j # i
    <3>1. Engaged(j)
      BY <1>1, <1>2, <1>3, <2>2 DEF Engaged
    <3> QED
      BY <3>1 DEF NoneAbandoned
  <2> QED
    BY <2>1, <2>2 DEF NoneAbandoned
<1> QED
  BY <1>5, <1>6, <1>7, <1>8, <1>9

LEMMA StartedInv ==
  ASSUME IInv, TypeOK', NEW m \in msgs, OnDispatchStarted(m)
  PROVE  IInv'
<1> USE DEF IInv
<1>1. m.id = dispatchSeq /\ m.id \in Ids /\ msgs' = msgs \ {m}
  BY MessagesHaveIds DEF OnDispatchStarted
<1>2. UNCHANGED <<dispatchSeqCounter, dispatchSeq, replyReceived, dispatchCancel, cancelled, live, answered, timedOut>>
  BY DEF OnDispatchStarted, dispatches, history
<1>3. /\ <<"wait", m.id>> \notin cmds
      /\ m.ok <=> m.id \in live
      /\ \A n \in msgs : n.id = m.id => n = m
      /\ \A v \in Verbs : <<v, m.id>> \notin cmds
  BY <1>1 DEF OneStage
<1>4. \A n \in msgs' : n \in msgs /\ n.id # m.id
  BY <1>1, <1>3
<1>5. ~(m.id > dispatchSeqCounter)
  BY <1>1, CurrentIsIssued DEF SeqIsCounter
<1>6. SeqIsCounter' /\ AnswersRemembered'
  BY <1>2 DEF SeqIsCounter, AnswersRemembered, TimeoutXorAnswer
<1>7. CASE m.ok
  <2>1. /\ replyCh' = m.id /\ cmds' = cmds \cup ((Timers \cup {"wait"}) \X {m.id}) /\ opInFlight' = opInFlight
    BY <1>7 DEF OnDispatchStarted
  <2>2. \A k, j : <<k, j>> \in cmds' <=> <<k, j>> \in cmds \/ (j = m.id /\ k \in {"retransmit", "timeout", "wait"})
    BY <2>1 DEF Timers
  <2>3. \A v \in Verbs, j \in Ids : <<v, j>> \in cmds' => <<v, j>> \in cmds /\ j # m.id
    BY <1>3, <2>2, KindsDiffer
  <2>4. InFlightHasContext' /\ ReadsItsChannel'
    BY <1>1, <1>2, <2>1 DEF InFlightHasContext, ReadsItsChannel
  <2>5. FutureIsFresh'
    BY <1>1, <1>2, <1>5, <2>2 DEF FutureIsFresh
  <2>6. OneStage'
    <3>1. ASSUME NEW v \in Verbs, NEW j \in Ids, <<v, j>> \in cmds'
          PROVE  /\ j \notin live' /\ <<"wait", j>> \notin cmds'
                 /\ \A n \in msgs' : n.id # j
                 /\ \A u \in Verbs : <<u, j>> \in cmds' => u = v
      BY <1>2, <1>4, <2>2, <2>3, <3>1 DEF OneStage
    <3>2. ASSUME NEW n \in msgs'
          PROVE  /\ <<"wait", n.id>> \notin cmds'
                 /\ n.ok <=> n.id \in live'
                 /\ \A o \in msgs' : o.id = n.id => o = n
      BY <1>2, <1>4, <2>2, <3>2 DEF OneStage
    <3> QED
      BY <3>1, <3>2 DEF OneStage
  <2>7. NoneAbandoned'
    <3> SUFFICES ASSUME NEW j \in Ids, Engaged(j)' PROVE j \in cancelled \/ (j = dispatchSeq /\ opInFlight)
      BY <1>2, <2>1 DEF NoneAbandoned
    <3>1. Engaged(j)
      BY <1>2, <1>4, <2>3 DEF Engaged
    <3> QED
      BY <3>1 DEF NoneAbandoned
  <2> QED
    BY <1>6, <2>4, <2>5, <2>6, <2>7
<1>8. CASE ~m.ok
  <2>1. opInFlight' = FALSE /\ cmds' = cmds
    BY <1>8 DEF OnDispatchStarted
  <2>2. InFlightHasContext' /\ ReadsItsChannel'
    BY <1>1, <1>2, <1>3, <2>1 DEF InFlightHasContext, ReadsItsChannel
  <2>3. FutureIsFresh'
    BY <1>2, <1>4, <2>1 DEF FutureIsFresh
  <2>4. OneStage'
    BY <1>2, <1>4, <2>1 DEF OneStage
  <2>5. NoneAbandoned'
    <3> SUFFICES ASSUME NEW j \in Ids, Engaged(j)' PROVE j \in cancelled
      BY <1>2, <2>1 DEF NoneAbandoned
    <3>1. Engaged(j) /\ j # dispatchSeq
      BY <1>1, <1>2, <1>3, <1>4, <1>8, <2>1 DEF Engaged
    <3> QED
      BY <3>1 DEF NoneAbandoned
  <2> QED
    BY <1>6, <2>2, <2>3, <2>4, <2>5
<1> QED
  BY <1>7, <1>8

\* TypeOK in parts, by the tuples of variables that steps leave alone.
OpTyped ==
  /\ dispatchSeqCounter \in 0 .. MaxSeq + 1 /\ dispatchSeq \in 0 .. dispatchSeqCounter
  /\ opInFlight \in BOOLEAN /\ replyReceived \in BOOLEAN
  /\ replyCh \in Ids \cup {None} /\ dispatchCancel \in Ids \cup {None}
  /\ currentVerb \in Verbs \cup {""} /\ cancelled \subseteq Ids
UiTyped ==
  /\ confirmQuit \in BOOLEAN /\ quitting \in BOOLEAN /\ tea \in {"running", "quit"}
  /\ status \in {"", "prompt", "hint", "outcome"}
AllCmds == ((Verbs \cup {"retransmit", "timeout", "wait"}) \X Ids) \cup {<<"quit", None>>}
MessagesTyped == cmds \subseteq AllCmds /\ msgs \subseteq [id : Ids, verb : Verbs, ok : BOOLEAN]
DispatchesTyped ==
  /\ chan \in [Ids -> Seq(Replies)] /\ stream \in [Ids -> Seq(Replies)]
  /\ live \subseteq Ids /\ closed \subseteq live
HistoryTyped == answered \subseteq Ids /\ timedOut \subseteq Ids

LEMMA TypeParts ==
  /\ TypeOK <=> OpTyped /\ UiTyped /\ MessagesTyped /\ DispatchesTyped /\ HistoryTyped
  /\ TypeOK' <=> OpTyped' /\ UiTyped' /\ MessagesTyped' /\ DispatchesTyped' /\ HistoryTyped'
  BY Zenon DEF TypeOK, OpTyped, UiTyped, AllCmds, MessagesTyped, DispatchesTyped, HistoryTyped

LEMMA PartsStay ==
  /\ OpTyped /\ UNCHANGED op => OpTyped'
  /\ UiTyped /\ UNCHANGED <<ui, tea>> => UiTyped'
  /\ MessagesTyped /\ cmds' \subseteq cmds /\ msgs' \subseteq msgs => MessagesTyped'
  /\ DispatchesTyped /\ UNCHANGED dispatches => DispatchesTyped'
  /\ HistoryTyped /\ UNCHANGED history => HistoryTyped'
<1>1. OpTyped /\ UNCHANGED op => OpTyped'
  BY DEF OpTyped, op
<1>2. UiTyped /\ UNCHANGED <<ui, tea>> => UiTyped'
  BY DEF UiTyped, ui
<1>3. MessagesTyped /\ cmds' \subseteq cmds /\ msgs' \subseteq msgs => MessagesTyped'
  BY Zenon DEF MessagesTyped
<1>4. DispatchesTyped /\ UNCHANGED dispatches => DispatchesTyped'
  BY DEF DispatchesTyped, dispatches
<1>5. HistoryTyped /\ UNCHANGED history => HistoryTyped'
  BY DEF HistoryTyped, history
<1> QED
  BY <1>1, <1>2, <1>3, <1>4, <1>5

LEMMA TailOfReplies ==
  ASSUME NEW f \in [Ids -> Seq(Replies)], NEW i \in Ids, f[i] # <<>>
  PROVE  [f EXCEPT ![i] = Tail(@)] \in [Ids -> Seq(Replies)]
<1>1. Tail(f[i]) \in Seq(Replies)
  OBVIOUS
<1> QED
  BY <1>1

LEMMA AppendToReplies ==
  ASSUME NEW f \in [Ids -> Seq(Replies)], NEW i \in Ids, NEW k \in Replies
  PROVE  [f EXCEPT ![i] = Append(@, k)] \in [Ids -> Seq(Replies)]
<1>1. Append(f[i], k) \in Seq(Replies)
  OBVIOUS
<1> QED
  BY <1>1

\* finishOp keeps the types of what it sets.
LEMMA FinishType ==
  ASSUME IInv, finishOp, dispatchSeq \in Ids
  PROVE  /\ dispatchSeqCounter' \in 0 .. MaxSeq + 1 /\ dispatchSeq' \in 0 .. dispatchSeqCounter'
         /\ opInFlight' \in BOOLEAN /\ replyReceived' \in BOOLEAN
         /\ replyCh' \in Ids \cup {None} /\ dispatchCancel' \in Ids \cup {None}
         /\ currentVerb' \in Verbs \cup {""} /\ cancelled' \subseteq Ids
<1>1. dispatchSeqCounter \in Nat /\ dispatchSeqCounter = dispatchSeq
  BY CurrentIsIssued DEF IInv, SeqIsCounter
<1>2. dispatchSeqCounter + 1 \in 0 .. MaxSeq + 1 /\ dispatchSeqCounter + 1 \in 0 .. dispatchSeqCounter + 1
  BY <1>1, BoundsAssumption DEF Ids
<1>3. cancelled' \subseteq Ids
  BY DEF finishOp, cancel, IInv, TypeOK
<1> QED
  BY <1>2, <1>3 DEF finishOp

LEMMA StepInv == IInv /\ [Next]_vars => IInv'
<1> SUFFICES ASSUME IInv, [Next]_vars PROVE IInv'
  OBVIOUS
<1>t. TypeOK
  BY DEF IInv
<1>n. dispatchSeqCounter \in 0 .. MaxSeq + 1 /\ dispatchSeq \in 0 .. dispatchSeqCounter
  BY <1>t, Zenon DEF TypeOK
<1>p. OpTyped /\ UiTyped /\ MessagesTyped /\ DispatchesTyped /\ HistoryTyped
  BY <1>t, TypeParts
<1> USE DEF op, ui, dispatches, history
<1>1. ASSUME NEW verb \in Verbs, VerbKey(verb) PROVE IInv'
  BY <1>1, StartInv
<1>2. CASE QuitKey
  <2>1. cancelled' \subseteq Ids /\ cancelled \subseteq cancelled'
    BY <1>2, <1>t DEF QuitKey, Quitting, cancel, TypeOK
  <2>2. TypeOK'
    BY <1>2, <1>t, <1>n, <2>1 DEF QuitKey, Quitting, TypeOK
  <2>3. \A k \in Kinds, i \in Ids : <<k, i>> \in cmds' => <<k, i>> \in cmds
    BY <1>2, KindsDiffer DEF QuitKey, Quitting
  <2> QED
    BY <1>2, <2>1, <2>2, <2>3, FrameInv DEF QuitKey
<1>3. CASE YesKey
  <2>1. cancelled' \subseteq Ids /\ cancelled \subseteq cancelled'
    BY <1>3, <1>t DEF YesKey, Quitting, cancel, TypeOK
  <2>2. TypeOK'
    BY <1>3, <1>t, <1>n, <2>1 DEF YesKey, Quitting, TypeOK
  <2>3. \A k \in Kinds, i \in Ids : <<k, i>> \in cmds' => <<k, i>> \in cmds
    BY <1>3, KindsDiffer DEF YesKey, Quitting
  <2> QED
    BY <1>3, <2>1, <2>2, <2>3, FrameInv DEF YesKey
<1>4. CASE DismissKey
  <2>1. TypeOK'
    <3>1. OpTyped' /\ MessagesTyped' /\ DispatchesTyped' /\ HistoryTyped'
      BY <1>4, <1>p, PartsStay DEF DismissKey
    <3>2. UiTyped'
      BY <1>4, <1>p DEF DismissKey, UiTyped
    <3> QED
      BY <3>1, <3>2, TypeParts
  <2> QED
    BY <1>4, <2>1, FrameInv DEF DismissKey
<1>5. CASE Signal
  <2>1. TypeOK'
    <3>1. OpTyped' /\ UiTyped' /\ DispatchesTyped' /\ HistoryTyped'
      BY <1>5, <1>p, PartsStay DEF Signal
    <3>2. MessagesTyped'
      BY <1>5, <1>p DEF Signal, MessagesTyped, AllCmds
    <3> QED
      BY <3>1, <3>2, TypeParts
  <2>2. \A k \in Kinds, i \in Ids : <<k, i>> \in cmds' => <<k, i>> \in cmds
    BY <1>5, KindsDiffer DEF Signal
  <2> QED
    BY <1>5, <2>1, <2>2, FrameInv DEF Signal
<1>6. ASSUME NEW i \in Ids, NEW kind \in {"retransmit", "timeout", "wait"}, Stale(kind, i) PROVE IInv'
  <2>1. chan' \in [Ids -> Seq(Replies)]
    BY <1>6, <1>t, TailOfReplies DEF Stale, TypeOK
  <2>2. TypeOK'
    <3>1. OpTyped' /\ UiTyped' /\ MessagesTyped' /\ HistoryTyped'
      BY <1>6, <1>p, PartsStay DEF Stale
    <3>2. DispatchesTyped'
      BY <1>6, <1>p, <2>1 DEF Stale, DispatchesTyped
    <3> QED
      BY <3>1, <3>2, TypeParts
  <2> QED
    BY <1>6, <2>2, FrameInv DEF Stale
<1>7. ASSUME NEW m \in msgs, StaleStarted(m) PROVE IInv'
  <2>1. TypeOK'
    BY <1>7, <1>p, PartsStay, TypeParts DEF StaleStarted
  <2> QED
    BY <1>7, <2>1, FrameInv DEF StaleStarted
<1>8. ASSUME NEW m \in msgs, OnDispatchStarted(m) PROVE IInv'
  <2>1. m.id \in Ids /\ m.verb \in Verbs
    BY <1>t, MessagesHaveIds
  <2>2. cmds' \subseteq ((Verbs \cup {"retransmit", "timeout", "wait"}) \X Ids) \cup {<<"quit", None>>}
    <3>1. cmds \subseteq ((Verbs \cup {"retransmit", "timeout", "wait"}) \X Ids) \cup {<<"quit", None>>}
      BY <1>t, Zenon DEF TypeOK
    <3>2. (Timers \cup {"wait"}) \X {m.id} \subseteq (Verbs \cup {"retransmit", "timeout", "wait"}) \X Ids
      BY <2>1 DEF Timers
    <3>3. cmds' = cmds \/ cmds' = cmds \cup ((Timers \cup {"wait"}) \X {m.id})
      BY <1>8 DEF OnDispatchStarted
    <3> QED
      BY <3>1, <3>2, <3>3, Zenon
  <2>3. TypeOK'
    BY <1>8, <1>t, <1>n, <2>1, <2>2 DEF OnDispatchStarted, TypeOK
  <2> QED
    BY <1>8, <2>3, StartedInv
<1>9. ASSUME NEW i \in Ids, OnClosed(i) PROVE IInv'
  <2>1. finishOp /\ dispatchSeq = i
    BY <1>9 DEF OnClosed, Current
  <2>2. TypeOK'
    BY <1>9, <1>t, <2>1, FinishType DEF OnClosed, TypeOK
  <2> QED
    BY <1>9, <2>1, <2>2, FinishInv DEF OnClosed, IInv, AnswersRemembered, TimeoutXorAnswer
<1>10. ASSUME NEW i \in Ids, OnStarted(i) PROVE IInv'
  <2>1. /\ i = dispatchSeq /\ <<"wait", i>> \in cmds /\ chan[i] # <<>>
        /\ chan' = [chan EXCEPT ![i] = Tail(@)] /\ answered' = answered \cup {i} /\ replyReceived' = TRUE
        /\ cmds' = (cmds \ {<<"wait", i>>}) \cup {<<"wait", replyCh>>}
    BY <1>10 DEF OnStarted, Current, Read, Deliver
  <2>2. cmds' = cmds
    BY <2>1 DEF IInv, ReadsItsChannel
  <2>3. chan' \in [Ids -> Seq(Replies)]
    BY <1>t, <2>1, TailOfReplies DEF TypeOK
  <2>4. TypeOK'
    BY <1>10, <1>t, <1>n, <2>1, <2>2, <2>3 DEF OnStarted, TypeOK
  <2> QED
    BY <1>10, <2>1, <2>2, <2>4, FrameInv DEF OnStarted
<1>11. ASSUME NEW i \in Ids, OnTerminal(i) PROVE IInv'
  <2>1. /\ i = dispatchSeq /\ finishOp /\ chan[i] # <<>>
        /\ chan' = [chan EXCEPT ![i] = Tail(@)] /\ answered' = answered \cup {i}
    BY <1>11 DEF OnTerminal, Current, Read
  <2>2. chan' \in [Ids -> Seq(Replies)]
    BY <1>t, <2>1, TailOfReplies DEF TypeOK
  <2>3. /\ cmds' \subseteq cmds \cup {<<"quit", None>>}
        /\ quitting' \in BOOLEAN
    BY <1>11, <1>t DEF OnTerminal, TypeOK
  <2>4. TypeOK'
    BY <1>11, <1>t, <2>1, <2>2, <2>3, FinishType DEF OnTerminal, TypeOK
  <2>5. \A k \in Kinds, j \in Ids : <<k, j>> \in cmds' => <<k, j>> \in cmds
    BY <2>3, KindsDiffer
  <2>6. TimeoutXorAnswer' /\ timedOut' = timedOut
    BY <1>11, <2>1 DEF OnTerminal, IInv, AnswersRemembered, TimeoutXorAnswer
  <2> QED
    BY <1>11, <2>1, <2>4, <2>5, <2>6, FinishInv DEF OnTerminal
<1>12. ASSUME NEW i \in Ids, OnRetransmit(i) PROVE IInv'
  <2>1. TypeOK'
    <3>1. OpTyped' /\ MessagesTyped' /\ DispatchesTyped' /\ HistoryTyped'
      BY <1>12, <1>p, PartsStay DEF OnRetransmit
    <3>2. UiTyped'
      BY <1>12, <1>p DEF OnRetransmit, UiTyped
    <3> QED
      BY <3>1, <3>2, TypeParts
  <2> QED
    BY <1>12, <2>1, FrameInv DEF OnRetransmit
<1>13. ASSUME NEW i \in Ids, OnTimeout(i) PROVE IInv'
  <2>1. i = dispatchSeq /\ cmds' = cmds \ {<<"timeout", i>>}
    BY <1>13 DEF OnTimeout
  <2>2. CASE Unanswered
    <3>1. finishOp /\ timedOut' = timedOut \cup {i}
      BY <1>13, <2>2 DEF OnTimeout
    <3>2. TypeOK'
      BY <1>13, <1>t, <2>1, <2>2, <3>1, FinishType DEF OnTimeout, TypeOK
    <3>3. TimeoutXorAnswer' /\ answered' = answered
      BY <1>13, <2>1, <2>2, <3>1 DEF OnTimeout, Unanswered, IInv, AnswersRemembered, TimeoutXorAnswer
    <3> QED
      BY <1>13, <2>1, <3>1, <3>2, <3>3, FinishInv DEF OnTimeout
  <2>3. CASE ~Unanswered
    <3>1. UNCHANGED <<op, status, timedOut>>
      BY <1>13, <2>3 DEF OnTimeout
    <3>2. TypeOK'
      <4>1. UNCHANGED <<op, ui, tea, dispatches, history, msgs>> /\ cmds' \subseteq cmds
        BY <1>13, <2>1, <3>1 DEF OnTimeout
      <4> QED
        BY <1>p, <4>1, PartsStay, TypeParts
    <3> QED
      BY <1>13, <2>1, <3>1, <3>2, FrameInv DEF OnTimeout
  <2> QED
    BY <2>2, <2>3
<1>14. CASE OnQuit
  <2>1. TypeOK'
    <3>1. OpTyped' /\ MessagesTyped' /\ DispatchesTyped' /\ HistoryTyped'
      BY <1>14, <1>p, PartsStay DEF OnQuit
    <3>2. UiTyped'
      BY <1>14, <1>p DEF OnQuit, UiTyped
    <3> QED
      BY <3>1, <3>2, TypeParts
  <2> QED
    BY <1>14, <2>1, FrameInv DEF OnQuit
<1>15. ASSUME NEW i \in Ids, Close(i) PROVE IInv'
  <2>1. TypeOK'
    <3>1. OpTyped' /\ UiTyped' /\ MessagesTyped' /\ HistoryTyped'
      BY <1>15, <1>p, PartsStay DEF Close
    <3>2. DispatchesTyped'
      BY <1>15, <1>p DEF Close, DispatchesTyped
    <3> QED
      BY <3>1, <3>2, TypeParts
  <2> QED
    BY <1>15, <2>1, FrameInv DEF Close
<1>16. ASSUME NEW i \in Ids, NEW verb \in Verbs, RunDispatch(verb, i) PROVE IInv'
  <2>1. msgs' \subseteq [id : Ids, verb : Verbs, ok : BOOLEAN] /\ live \subseteq live' /\ live' \subseteq Ids
    <3>1. PICK ok \in BOOLEAN : /\ live' = IF ok THEN live \cup {i} ELSE live
                              /\ msgs' = msgs \cup {dispatchStartedMsg(i, verb, ok)}
      BY <1>16 DEF RunDispatch
    <3>2. msgs \subseteq [id : Ids, verb : Verbs, ok : BOOLEAN] /\ live \subseteq Ids
      BY <1>t, Zenon DEF TypeOK
    <3>3. dispatchStartedMsg(i, verb, ok) \in [id : Ids, verb : Verbs, ok : BOOLEAN]
      BY DEF dispatchStartedMsg
    <3> QED
      BY <3>1, <3>2, <3>3
  <2>2. TypeOK'
    <3>1. OpTyped' /\ UiTyped' /\ HistoryTyped'
      BY <1>16, <1>p, PartsStay DEF RunDispatch
    <3>2. MessagesTyped' /\ DispatchesTyped'
      BY <1>16, <1>p, <2>1 DEF RunDispatch, MessagesTyped, DispatchesTyped
    <3> QED
      BY <3>1, <3>2, TypeParts
  <2> QED
    BY <1>16, <2>2, RunDispatchInv
<1>17. ASSUME NEW i \in Ids, NEW k \in Replies, PutReply(i, k) PROVE IInv'
  <2>1. chan' \in [Ids -> Seq(Replies)] /\ stream' \in [Ids -> Seq(Replies)]
    BY <1>17, <1>t, AppendToReplies DEF PutReply, TypeOK
  <2>2. TypeOK'
    <3>1. OpTyped' /\ UiTyped' /\ MessagesTyped' /\ HistoryTyped'
      BY <1>17, <1>p, PartsStay DEF PutReply
    <3>2. DispatchesTyped'
      BY <1>17, <1>p, <2>1 DEF PutReply, DispatchesTyped
    <3> QED
      BY <3>1, <3>2, TypeParts
  <2> QED
    BY <1>17, <2>2, FrameInv DEF PutReply
<1>18. CASE UNCHANGED vars
  <2>1. TypeOK'
    BY <1>18, <1>p, PartsStay, TypeParts DEF vars
  <2> QED
    BY <1>18, <2>1, FrameInv DEF vars
<1> QED
  BY <1>1, <1>2, <1>3, <1>4, <1>5, <1>6, <1>7, <1>8, <1>9, <1>10, <1>11, <1>12, <1>13, <1>14, <1>15, <1>16, <1>17, <1>18
     DEF Next, Keys, Update, Background

(* The invariant of the picker.                                            *)
THEOREM Invariance == Spec => []IInv
<1>1. Init => IInv
  BY InitInv
<1>2. IInv /\ [Next]_vars => IInv'
  BY StepInv
<1> QED
  BY <1>1, <1>2, PTL DEF Spec

(* Every field of the model keeps its type, and the numbers of operations  *)
(* never run past the one after the last.                                  *)
THEOREM TypeCorrect == Spec => []TypeOK
<1>1. IInv => TypeOK
  BY DEF IInv
<1> QED
  BY <1>1, Invariance, PTL

(* startDispatch and finishOp leave no dispatch that nothing can cancel,   *)
(* however keys, messages and Cmds follow each other.                      *)
THEOREM NoneLeftAlive == Spec => []NoDispatchAbandoned
<1>1. IInv => NoDispatchAbandoned
  BY DEF IInv, TypeOK, NoneAbandoned, Engaged, NoDispatchAbandoned
<1> QED
  BY <1>1, Invariance, PTL

(* An operation that the user was told has timed out has had no reply      *)
(* handled, and has none handled afterwards.                               *)
THEOREM OneVerdict == Spec => []TimeoutXorAnswer
<1>1. IInv => TimeoutXorAnswer
  BY DEF IInv, AnswersRemembered
<1> QED
  BY <1>1, Invariance, PTL
=============================================================================
