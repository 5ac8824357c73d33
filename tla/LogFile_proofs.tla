--------------------------- MODULE LogFile_proofs ---------------------------
(***************************************************************************)
(* Theorems about the log files, for any processes, sizes and scenes: how  *)
(* many lines, crashes and rotations there are is not bounded here.        *)
(*                                                                         *)
(* Four parts are inductive together (LogInv).  PlacesInv: an older        *)
(* generation is of an earlier file, and no process writes in a file that  *)
(* is earlier than one it has written in.  ContentInv: what a process has  *)
(* yet to write out follows what is in the files.  UnreadInv: what a       *)
(* reader has yet to read follows what it has read.  SeenInv: so do the    *)
(* window and what is printed.  That nothing is written out twice, that a  *)
(* rotation only renames, and that tail opens the path anew each hold only *)
(* with the others.                                                        *)
(***************************************************************************)
EXTENDS LogFile, FiniteSetTheorems, SequenceTheorems, TLAPS

Authors == Procs \cup {Plugin, Before}
Logged == [by : Authors, no : Int, warn : BOOLEAN]
Half == Logged \X {1, 2}
By(h) == h[1].by
Key(h) == 2 * h[1].no + h[2]

(* Lines, or halves of lines, each author's in the order it wrote them.    *)
Rising(w) == \A i, j \in DOMAIN w : i < j /\ w[i].by = w[j].by => w[i].no < w[j].no
RisingHalves(s) == \A i, j \in DOMAIN s : i < j /\ By(s[i]) = By(s[j]) => Key(s[i]) < Key(s[j])
Follows(s, t) == \A i \in DOMAIN s, j \in DOMAIN t : By(s[i]) = By(t[j]) => Key(s[i]) < Key(t[j])

LEMMA HalfType == \A h \in Half : /\ h[1] \in Logged /\ By(h) \in Authors /\ h[1].no \in Int /\ h[2] \in {1, 2} /\ Key(h) \in Int
BY DEF Half, Logged, By, Key

-----------------------------------------------------------------------------
(* Sorting: the place of a line is the number of those that are earlier.   *)
LEMMA LinesOf ==
  ASSUME NEW w \in Seq(Logged)
  PROVE  /\ DOMAIN w = 1..Len(w) /\ Len(w) \in Nat
         /\ \A k \in DOMAIN w : w[k] \in Logged /\ w[k].no \in Int
<1>1. DOMAIN w = 1..Len(w) /\ Len(w) \in Nat
  BY LenProperties
<1>2. \A k \in 1..Len(w) : w[k] \in Logged
  BY ElementOfSeq
<1>. QED BY <1>1, <1>2 DEF Logged

LEMMA Counted == \A n \in Nat : IsFiniteSet(1..n) /\ Cardinality(1..n) = n /\ IsFiniteSet(0..(n - 1)) /\ Cardinality(0..(n - 1)) = n
<1> SUFFICES ASSUME NEW n \in Nat PROVE IsFiniteSet(1..n) /\ Cardinality(1..n) = n /\ IsFiniteSet(0..(n - 1)) /\ Cardinality(0..(n - 1)) = n
  OBVIOUS
<1>1. IsFiniteSet(1..n) /\ Cardinality(1..n) = IF 1 > n THEN 0 ELSE n - 1 + 1
  BY FS_Interval
<1>2. IsFiniteSet(0..(n - 1)) /\ Cardinality(0..(n - 1)) = IF 0 > n - 1 THEN 0 ELSE (n - 1) - 0 + 1
  BY FS_Interval
<1>. QED BY <1>1, <1>2

LEMMA RankOfAny ==
  ASSUME NEW w \in Seq(Logged), NEW k \in DOMAIN w
  PROVE  Rank(w, k) \in 0..(Len(w) - 1)
<1> DEFINE E == {l \in DOMAIN w : Earlier(w, l, k)}
<1>0. DOMAIN w = 1..Len(w) /\ Len(w) \in Nat /\ \A l \in DOMAIN w : w[l].no \in Int
  BY LinesOf
<1>1. IsFiniteSet(DOMAIN w) /\ Cardinality(DOMAIN w) = Len(w)
  BY <1>0, Counted
<1>2. E \in SUBSET DOMAIN w /\ k \notin E
  BY <1>0 DEF Earlier
<1>3. IsFiniteSet(E) /\ Cardinality(E) <= Len(w) /\ Cardinality(E) # Len(w)
  BY <1>1, <1>2, FS_Subset
<1>4. Cardinality(E) \in Nat
  BY <1>3, FS_CardinalityType
<1>. QED BY <1>0, <1>3, <1>4 DEF Rank

LEMMA RanksDiffer ==
  ASSUME NEW w \in Seq(Logged), NEW i \in DOMAIN w, NEW j \in DOMAIN w, Earlier(w, i, j)
  PROVE  /\ Rank(w, i) \in 0..(Len(w) - 1) /\ Rank(w, j) \in 0..(Len(w) - 1)
         /\ Rank(w, i) < Rank(w, j)
<1> DEFINE E(k) == {l \in DOMAIN w : Earlier(w, l, k)}
<1>0. DOMAIN w = 1..Len(w) /\ Len(w) \in Nat /\ \A k \in DOMAIN w : w[k].no \in Int
  BY LinesOf
<1>1. IsFiniteSet(DOMAIN w)
  BY <1>0, Counted
<1>2. /\ IsFiniteSet(E(j)) /\ Rank(w, i) = Cardinality(E(i)) /\ Rank(w, j) = Cardinality(E(j))
      /\ Rank(w, i) \in 0..(Len(w) - 1) /\ Rank(w, j) \in 0..(Len(w) - 1)
  <2>1. E(j) \in SUBSET DOMAIN w
    OBVIOUS
  <2>2. IsFiniteSet(E(j))
    BY <1>1, <2>1, FS_Subset
  <2>. QED BY <2>2, RankOfAny DEF Rank
<1>3. E(i) \in SUBSET E(j) /\ i \in E(j) /\ i \notin E(i)
  BY <1>0 DEF Earlier
<1>4. Cardinality(E(i)) <= Cardinality(E(j)) /\ Cardinality(E(i)) # Cardinality(E(j))
  <2>1. E(i) # E(j)
    BY <1>3
  <2> HIDE DEF E
  <2>. QED BY <1>2, <1>3, <2>1, FS_Subset
<1>. QED BY <1>2, <1>4

LEMMA RanksAreTaken ==
  ASSUME NEW w \in Seq(Logged), NEW k \in DOMAIN w
  PROVE  \E i \in DOMAIN w : Rank(w, i) = k - 1
<1>0. DOMAIN w = 1..Len(w) /\ Len(w) \in Nat /\ \A l \in DOMAIN w : w[l].no \in Int
  BY LinesOf
<1> DEFINE r == [i \in 1..Len(w) |-> Rank(w, i)]
           T == 0..(Len(w) - 1)
<1>1. r \in [1..Len(w) -> T]
  BY <1>0, RankOfAny
<1>2. ASSUME NEW i \in 1..Len(w), NEW j \in 1..Len(w), i # j PROVE r[i] # r[j]
  <2>1. Earlier(w, i, j) \/ Earlier(w, j, i)
    BY <1>0, <1>2 DEF Earlier
  <2>2. Rank(w, i) \in Int /\ Rank(w, j) \in Int
    BY <1>0, RankOfAny
  <2>3. Rank(w, i) < Rank(w, j) \/ Rank(w, j) < Rank(w, i)
    BY <1>0, <2>1, RanksDiffer
  <2>. QED BY <2>2, <2>3
<1>3. r \in Injection(1..Len(w), T)
  BY <1>1, <1>2 DEF Injection, IsInjective
<1>4. IsFiniteSet(T) /\ Cardinality(1..Len(w)) = Cardinality(T)
  BY <1>0, Counted
<1>5. r \in Surjection(1..Len(w), T)
  <2> HIDE DEF r, T
  <2>. QED BY <1>3, <1>4, FS_Injection
<1>6. k - 1 \in T
  BY <1>0
<1>7. \E i \in 1..Len(w) : r[i] = k - 1
  BY <1>5, <1>6 DEF Surjection
<1>. QED BY <1>0, <1>7

(* Sorting loses none and keeps the lines of each author in their order.   *)
LEMMA SortedByTime ==
  ASSUME NEW w \in Seq(Logged), Rising(w)
  PROVE  /\ ByTime(w) \in Seq(Logged) /\ Len(ByTime(w)) = Len(w) /\ DOMAIN ByTime(w) = DOMAIN w
         /\ \A k \in DOMAIN w : \E i \in DOMAIN w : ByTime(w)[k] = w[i]
         /\ Rising(ByTime(w))
<1>0. DOMAIN w = 1..Len(w) /\ Len(w) \in Nat /\ \A l \in DOMAIN w : w[l] \in Logged /\ w[l].no \in Int
  BY LinesOf
<1>1. ASSUME NEW k \in DOMAIN w
      PROVE  \E i \in DOMAIN w : Rank(w, i) = k - 1 /\ ByTime(w)[k] = w[i]
  BY <1>1, RanksAreTaken DEF ByTime
<1>2. DOMAIN ByTime(w) = 1..Len(w)
  BY <1>0 DEF ByTime
<1>3. ByTime(w) \in [1..Len(w) -> Logged]
  <2>1. ByTime(w) = [k \in 1..Len(w) |-> ByTime(w)[k]]
    BY <1>0 DEF ByTime
  <2>. QED BY <1>0, <1>1, <2>1
<1>4. ByTime(w) \in Seq(Logged) /\ Len(ByTime(w)) = Len(w)
  BY <1>0, <1>2, <1>3
<1>5. ASSUME NEW k \in DOMAIN w, NEW l \in DOMAIN w, k < l, ByTime(w)[k].by = ByTime(w)[l].by
      PROVE  ByTime(w)[k].no < ByTime(w)[l].no
  <2>1. PICK i \in DOMAIN w : Rank(w, i) = k - 1 /\ ByTime(w)[k] = w[i]
    BY <1>1
  <2>2. PICK j \in DOMAIN w : Rank(w, j) = l - 1 /\ ByTime(w)[l] = w[j]
    BY <1>1
  <2>3. ~Earlier(w, j, i) /\ i # j
    BY <1>0, <1>5, <2>1, <2>2, RanksDiffer
  <2>4. i < j \/ j < i
    BY <1>0, <2>3
  <2>. QED BY <1>0, <1>5, <2>1, <2>2, <2>3, <2>4 DEF Earlier, Rising
<1>. QED BY <1>0, <1>1, <1>2, <1>4, <1>5 DEF Rising

-----------------------------------------------------------------------------
Stages == {"off", "starting", "rotating", "ready", "drop", "look 1", "look 2", "shift 1", "shift 2", "close", "rename",
           "reopen", "write", "flush"}
Logging == {"drop", "look 1", "look 2", "shift 1", "shift 2", "close", "rename", "reopen", "write"}
MayBeShut == {"off", "rename", "reopen", "write"}

(* What p has logged and not written out.                                  *)
Pending(p) == IF at[p] \in Logging THEN buf[p] \o Halves(line[p]) ELSE buf[p]
Seen == Range(printed) \cup Range(window) \cup Range(chan)

LogType ==
  /\ body \in Seq(Seq(Half)) /\ lines \in Nat
  /\ path \in [Paths -> 0..Len(body)] /\ file \in [Procs -> 0..Len(body)]
  /\ at \in [Procs -> Stages] /\ buf \in [Procs -> Seq(Half)] /\ line \in [Procs -> Logged]
  /\ \A p \in Procs : /\ file[p] = Absent => at[p] \in MayBeShut /\ buf[p] = <<>>
                      /\ Len(buf[p]) <= BufferSize

TailType ==
  /\ reader \in [Sources -> [at : {"open", "read", "sleep", "done"}, file : 0..Len(body), off : Nat, partial : Seq(Half)]]
  /\ mode \in [scene : Scenes, run : {"running", "cancelled", "over"}]
  /\ printed \in Seq(Logged) /\ window \in Seq(Logged) /\ chan \in Seq(Logged)

(* The halves of each author's lines are in their order, in one file and   *)
(* from an earlier file to a later one.                                    *)
HalvesInv ==
  \A i, j \in DOMAIN body : \A k \in DOMAIN body[i], l \in DOMAIN body[j] :
    (i < j \/ (i = j /\ k < l)) /\ By(body[i][k]) = By(body[j][l]) => Key(body[i][k]) < Key(body[j][l])

\* After a step, file f has s at its end.
Base(f) == IF f \in DOMAIN body THEN Len(body[f]) ELSE 0
Grows(f, s) ==
  /\ body' \in Seq(Seq(Half)) /\ f \in DOMAIN body' /\ DOMAIN body \subseteq DOMAIN body' /\ Len(body) <= Len(body')
  /\ \A i \in DOMAIN body' : i # f => i \in DOMAIN body /\ body'[i] = body[i]
  /\ \A i \in DOMAIN body' : \A k \in DOMAIN body'[i] :
       \/ i \in DOMAIN body /\ k \in DOMAIN body[i] /\ body'[i][k] = body[i][k]
       \/ i = f /\ \E l \in DOMAIN s : body'[i][k] = s[l] /\ k = Base(f) + l
  /\ \A i \in DOMAIN body : Len(body[i]) <= Len(body'[i]) /\ \A k \in DOMAIN body[i] : k \in DOMAIN body'[i] /\ body'[i][k] = body[i][k]

LEMMA BodyOf ==
  ASSUME NEW b \in Seq(Seq(Half))
  PROVE  /\ DOMAIN b = 1..Len(b) /\ Len(b) \in Nat
         /\ \A i \in DOMAIN b : /\ b[i] \in Seq(Half) /\ DOMAIN b[i] = 1..Len(b[i]) /\ Len(b[i]) \in Nat
                                /\ \A k \in DOMAIN b[i] : b[i][k] \in Half
<1>1. DOMAIN b = 1..Len(b) /\ Len(b) \in Nat
  BY LenProperties
<1>2. ASSUME NEW i \in DOMAIN b PROVE b[i] \in Seq(Half) /\ DOMAIN b[i] = 1..Len(b[i]) /\ Len(b[i]) \in Nat
  <2>1. b[i] \in Seq(Half)
    BY <1>1, ElementOfSeq
  <2>. QED BY <2>1, LenProperties
<1>3. ASSUME NEW i \in DOMAIN b, NEW k \in DOMAIN b[i] PROVE b[i][k] \in Half
  BY <1>2, ElementOfSeq
<1>. QED BY <1>1, <1>2, <1>3

LEMMA HalvesOf ==
  ASSUME NEW s \in Seq(Half)
  PROVE  /\ DOMAIN s = 1..Len(s) /\ Len(s) \in Nat
         /\ \A k \in DOMAIN s : s[k] \in Half /\ Key(s[k]) \in Int /\ s[k][1].no \in Int
<1>1. DOMAIN s = 1..Len(s) /\ Len(s) \in Nat
  BY LenProperties
<1>2. \A k \in 1..Len(s) : s[k] \in Half
  BY ElementOfSeq
<1>. QED BY <1>1, <1>2, HalfType

LEMMA Concatenated ==
  ASSUME NEW S, NEW s \in Seq(S), NEW t \in Seq(S)
  PROVE  /\ s \o t \in Seq(S) /\ Len(s \o t) = Len(s) + Len(t) /\ DOMAIN (s \o t) = 1..(Len(s) + Len(t))
         /\ \A k \in DOMAIN s : k \in DOMAIN (s \o t) /\ (s \o t)[k] = s[k]
         /\ \A l \in DOMAIN t : Len(s) + l \in DOMAIN (s \o t) /\ (s \o t)[Len(s) + l] = t[l]
         /\ \A k \in DOMAIN (s \o t) : \/ k \in DOMAIN s /\ (s \o t)[k] = s[k]
                                       \/ \E l \in DOMAIN t : k = Len(s) + l /\ (s \o t)[k] = t[l]
<1>1. DOMAIN s = 1..Len(s) /\ Len(s) \in Nat /\ DOMAIN t = 1..Len(t) /\ Len(t) \in Nat
  BY LenProperties
<1>2. s \o t \in Seq(S) /\ Len(s \o t) = Len(s) + Len(t)
  BY ConcatProperties
<1>3. DOMAIN (s \o t) = 1..(Len(s) + Len(t))
  BY <1>2, LenProperties
<1>4. \A i \in 1..(Len(s) + Len(t)) : (s \o t)[i] = IF i <= Len(s) THEN s[i] ELSE t[i - Len(s)]
  BY ConcatProperties
<1>5. ASSUME NEW k \in DOMAIN (s \o t), k \notin DOMAIN s
      PROVE  \E l \in DOMAIN t : k = Len(s) + l /\ (s \o t)[k] = t[l]
  <2>1. k - Len(s) \in DOMAIN t /\ k = Len(s) + (k - Len(s)) /\ (s \o t)[k] = t[k - Len(s)]
    BY <1>1, <1>3, <1>4, <1>5
  <2>. QED BY <2>1
<1>6. ASSUME NEW l \in DOMAIN t PROVE Len(s) + l \in DOMAIN (s \o t) /\ (s \o t)[Len(s) + l] = t[l]
  BY <1>1, <1>3, <1>4
<1>7. ASSUME NEW k \in DOMAIN s PROVE k \in DOMAIN (s \o t) /\ (s \o t)[k] = s[k]
  BY <1>1, <1>3, <1>4
<1>8. ASSUME NEW k \in DOMAIN (s \o t), k \in DOMAIN s PROVE (s \o t)[k] = s[k]
  BY <1>7, <1>8
<1>. QED BY <1>2, <1>3, <1>5, <1>6, <1>7, <1>8

(* Halves of lines one after the other.                                    *)
LEMMA InEither ==
  ASSUME NEW s \in Seq(Half), NEW t \in Seq(Half)
  PROVE  \A k \in DOMAIN (s \o t) : (k \in DOMAIN s /\ (s \o t)[k] = s[k]) \/ \E l \in DOMAIN t : k = Len(s) + l /\ (s \o t)[k] = t[l]
BY Concatenated

LEMMA Joined ==
  ASSUME NEW s \in Seq(Half), NEW t \in Seq(Half), RisingHalves(s), RisingHalves(t), Follows(s, t)
  PROVE  /\ s \o t \in Seq(Half) /\ RisingHalves(s \o t)
         /\ \A k \in DOMAIN (s \o t) : \/ \E i \in DOMAIN s : (s \o t)[k] = s[i]
                                       \/ \E i \in DOMAIN t : (s \o t)[k] = t[i]
<1> DEFINE u == s \o t
<1>1. /\ u \in Seq(Half)
      /\ \A k \in DOMAIN u : \/ k \in DOMAIN s /\ u[k] = s[k]
                             \/ \E l \in DOMAIN t : k = Len(s) + l /\ u[k] = t[l]
  BY Concatenated
<1>2. DOMAIN s = 1..Len(s) /\ Len(s) \in Nat /\ DOMAIN t = 1..Len(t) /\ Len(t) \in Nat
  BY HalvesOf
<1> HIDE DEF u
<1>3. RisingHalves(u)
  <2> SUFFICES ASSUME NEW i \in DOMAIN u, NEW j \in DOMAIN u, i < j, By(u[i]) = By(u[j]) PROVE Key(u[i]) < Key(u[j])
    BY DEF RisingHalves
  <2>1. CASE i \in DOMAIN s /\ u[i] = s[i] /\ j \in DOMAIN s /\ u[j] = s[j]
    BY <2>1 DEF RisingHalves
  <2>2. ASSUME i \in DOMAIN s, u[i] = s[i], NEW l \in DOMAIN t, u[j] = t[l] PROVE Key(u[i]) < Key(u[j])
    BY <2>2 DEF Follows
  <2>3. ASSUME NEW l \in DOMAIN t, i = Len(s) + l, u[i] = t[l], NEW m \in DOMAIN t, j = Len(s) + m, u[j] = t[m]
        PROVE  Key(u[i]) < Key(u[j])
    <3>1. l < m
      BY <1>2, <2>3
    <3>. QED BY <2>3, <3>1 DEF RisingHalves
  <2>4. ASSUME NEW l \in DOMAIN t, i = Len(s) + l, j \in DOMAIN s PROVE FALSE
    BY <1>2, <2>4
  <2>. QED BY <1>1, <2>1, <2>2, <2>3, <2>4
<1>. QED BY <1>1, <1>3 DEF u

LEMMA Appended ==
  ASSUME body \in Seq(Seq(Half)), NEW f \in DOMAIN body, NEW s \in Seq(Half), body' = [body EXCEPT ![f] = @ \o s]
  PROVE  Grows(f, s)
<1>1. DOMAIN body = 1..Len(body) /\ Len(body) \in Nat /\ \A i \in DOMAIN body : body[i] \in Seq(Half) /\ Len(body[i]) \in Nat
  BY BodyOf
<1> DEFINE h == body[f]
           t == h \o s
<1>0. h \in Seq(Half)
  BY <1>1
<1> HIDE DEF h
<1>2. /\ t \in Seq(Half) /\ Len(t) = Len(h) + Len(s)
      /\ \A k \in DOMAIN h : k \in DOMAIN t /\ t[k] = h[k]
      /\ \A k \in DOMAIN t : \/ k \in DOMAIN h /\ t[k] = h[k]
                             \/ \E l \in DOMAIN s : k = Len(h) + l /\ t[k] = s[l]
  <2>1. t \in Seq(Half) /\ Len(t) = Len(h) + Len(s)
    BY <1>0, Concatenated
  <2>2. \A k \in DOMAIN h : k \in DOMAIN t /\ t[k] = h[k]
    BY <1>0, Concatenated
  <2>3. \A k \in DOMAIN t : (k \in DOMAIN h /\ t[k] = h[k]) \/ \E l \in DOMAIN s : k = Len(h) + l /\ t[k] = s[l]
    BY <1>0, InEither
  <2>. QED BY <2>1, <2>2, <2>3
<1>3. Len(s) \in Nat
  BY HalvesOf
<1>4. body' = [body EXCEPT ![f] = t] /\ h = body[f]
  BY DEF h
<1> HIDE DEF t
<1>5. f \in 1..Len(body)
  BY <1>1
<1>6. /\ body' \in Seq(Seq(Half)) /\ Len(body') = Len(body)
      /\ \A j \in 1..Len(body) : body'[j] = IF j = f THEN t ELSE body[j]
  <2>1. \A j \in 1..Len(body) : [body EXCEPT ![f] = t][j] = IF j = f THEN t ELSE body[j]
    BY <1>1
  <2>2. [body EXCEPT ![f] = t] \in Seq(Seq(Half)) /\ Len([body EXCEPT ![f] = t]) = Len(body)
    BY <1>2, <1>5, ExceptSeq
  <2>. QED BY <1>4, <2>1, <2>2
<1>7. DOMAIN body' = DOMAIN body
  BY <1>1, <1>6, LenProperties
<1>8. Base(f) = Len(h)
  BY <1>4 DEF Base
<1>9. body'[f] = t /\ \A i \in DOMAIN body' : i # f => i \in DOMAIN body /\ body'[i] = body[i]
  BY <1>1, <1>5, <1>6, <1>7
<1>10. \A i \in DOMAIN body' : \A k \in DOMAIN body'[i] :
         \/ i \in DOMAIN body /\ k \in DOMAIN body[i] /\ body'[i][k] = body[i][k]
         \/ i = f /\ \E l \in DOMAIN s : body'[i][k] = s[l] /\ k = Base(f) + l
  <2> SUFFICES ASSUME NEW i \in DOMAIN body', NEW k \in DOMAIN body'[i]
               PROVE  \/ i \in DOMAIN body /\ k \in DOMAIN body[i] /\ body'[i][k] = body[i][k]
                      \/ i = f /\ \E l \in DOMAIN s : body'[i][k] = s[l] /\ k = Base(f) + l
    OBVIOUS
  <2>1. CASE i = f
    BY <1>2, <1>4, <1>8, <1>9, <2>1
  <2>2. CASE i # f
    BY <1>9, <2>2
  <2>. QED BY <2>1, <2>2
<1>11. Len(h) <= Len(t) /\ Len(h) \in Nat
  BY <1>1, <1>2, <1>3, <1>4
<1>12. \A i \in DOMAIN body : Len(body[i]) <= Len(body'[i]) /\ \A k \in DOMAIN body[i] : k \in DOMAIN body'[i] /\ body'[i][k] = body[i][k]
  <2> SUFFICES ASSUME NEW i \in DOMAIN body
               PROVE  Len(body[i]) <= Len(body'[i]) /\ \A k \in DOMAIN body[i] : k \in DOMAIN body'[i] /\ body'[i][k] = body[i][k]
    OBVIOUS
  <2>1. CASE i = f
    BY <1>2, <1>4, <1>9, <1>11, <2>1
  <2>2. CASE i # f
    BY <1>1, <1>7, <1>9, <2>2
  <2>. QED BY <2>1, <2>2
<1>13. Len(body) <= Len(body')
  BY <1>1, <1>6
<1>. QED BY <1>6, <1>7, <1>9, <1>10, <1>12, <1>13 DEF Grows

LEMMA Started ==
  ASSUME body \in Seq(Seq(Half)), NEW s \in Seq(Half), body' = Append(body, s)
  PROVE  Grows(Created, s)
<1>1. DOMAIN body = 1..Len(body) /\ Len(body) \in Nat /\ \A i \in DOMAIN body : Len(body[i]) \in Nat
  BY BodyOf
<1>2. /\ body' \in Seq(Seq(Half)) /\ Len(body') = Len(body) + 1 /\ body'[Len(body) + 1] = s
      /\ \A i \in 1..Len(body) : body'[i] = body[i]
  BY AppendProperties
<1>3. DOMAIN body' = 1..(Len(body) + 1)
  BY <1>2, LenProperties
<1>4. Base(Created) = 0 /\ Created = Len(body) + 1
  BY <1>1 DEF Base, Created
<1>5. DOMAIN s = 1..Len(s) /\ Len(s) \in Nat
  BY HalvesOf
<1>6. \A k \in DOMAIN s : k = 0 + k
  BY <1>5
<1>7. \A i \in DOMAIN body' : (i \in DOMAIN body /\ body'[i] = body[i]) \/ (i = Len(body) + 1 /\ body'[i] = s)
  BY <1>1, <1>2, <1>3
<1>. QED BY <1>1, <1>2, <1>3, <1>4, <1>6, <1>7 DEF Grows

LEMMA HalvesGrow ==
  ASSUME body \in Seq(Seq(Half)), HalvesInv, NEW f, NEW s \in Seq(Half), Grows(f, s), RisingHalves(s),
         \A i \in DOMAIN body : \A k \in DOMAIN body[i], l \in DOMAIN s :
           By(body[i][k]) = By(s[l]) => i <= f /\ Key(body[i][k]) < Key(s[l])
  PROVE  HalvesInv'
<1> SUFFICES ASSUME NEW i \in DOMAIN body', NEW j \in DOMAIN body', NEW k \in DOMAIN body'[i], NEW l \in DOMAIN body'[j],
                    i < j \/ (i = j /\ k < l), By(body'[i][k]) = By(body'[j][l])
             PROVE  Key(body'[i][k]) < Key(body'[j][l])
  BY DEF HalvesInv
<1>0. /\ DOMAIN body = 1..Len(body) /\ Len(body) \in Nat
      /\ \A a \in DOMAIN body : DOMAIN body[a] = 1..Len(body[a]) /\ Len(body[a]) \in Nat
      /\ DOMAIN body' = 1..Len(body') /\ Len(body') \in Nat
      /\ \A a \in DOMAIN body' : DOMAIN body'[a] = 1..Len(body'[a]) /\ Len(body'[a]) \in Nat
      /\ DOMAIN s = 1..Len(s) /\ Len(s) \in Nat
  BY BodyOf, HalvesOf DEF Grows
<1> DEFINE Kept(a, x) == a \in DOMAIN body /\ x \in DOMAIN body[a] /\ body'[a][x] = body[a][x]
           Added(a, x) == a = f /\ \E y \in DOMAIN s : body'[a][x] = s[y] /\ x = Base(f) + y
<1>1. (Kept(i, k) \/ Added(i, k)) /\ (Kept(j, l) \/ Added(j, l))
  BY DEF Grows
<1>2. CASE Kept(i, k) /\ Kept(j, l)
  BY <1>2 DEF HalvesInv
<1>3. CASE Kept(i, k) /\ Added(j, l)
  BY <1>3
<1>4. CASE Added(i, k) /\ Added(j, l)
  <2>1. PICK y \in DOMAIN s : body'[i][k] = s[y] /\ k = Base(f) + y
    BY <1>4
  <2>2. PICK z \in DOMAIN s : body'[j][l] = s[z] /\ l = Base(f) + z
    BY <1>4
  <2>3. Base(f) \in Nat
    BY <1>0 DEF Base
  <2>4. y < z
    <3>1. i = j /\ k < l
      BY <1>0, <1>4
    <3>2. y \in Nat /\ z \in Nat
      BY <1>0
    <3>. QED BY <2>1, <2>2, <2>3, <3>1, <3>2
  <2>. QED BY <2>1, <2>2, <2>4 DEF RisingHalves
<1>5. CASE Added(i, k) /\ Kept(j, l)
  <2>1. PICK y \in DOMAIN s : body'[i][k] = s[y] /\ k = Base(f) + y
    BY <1>5
  <2>2. j <= f
    BY <1>5, <2>1
  <2>3. j = i /\ k < l
    BY <1>0, <1>5, <2>2
  <2>4. Base(f) = Len(body[j]) /\ l <= Len(body[j])
    BY <1>0, <1>5, <2>3 DEF Base
  <2>. QED BY <1>0, <2>1, <2>3, <2>4
<1>. QED BY <1>1, <1>2, <1>3, <1>4, <1>5

-----------------------------------------------------------------------------
(* Which paths name what, and who writes and reads there: a file is of one *)
(* of the two logs, as its path, its writers and its readers are.          *)
KindsOf(K) ==
  /\ K \in [DOMAIN body -> Sources]
  /\ \A x \in Paths : path[x] # Absent => K[path[x]] = x[1]
  /\ \A p \in Procs : file[p] # Absent => K[file[p]] = "binary"
  /\ \A s \in Sources : reader[s].file # Absent => K[reader[s].file] = s
  /\ \A i \in DOMAIN body : \A k \in DOMAIN body[i] : By(body[i][k]) = Plugin <=> K[i] = "plugin"
KindsInv == \E K : KindsOf(K)

(* An older generation is of an earlier file.                              *)
Generation(a) == path[<<"binary", a>>]
PathsInv ==
  /\ \A a, b \in Slots : a < b /\ Generation(a) # Absent /\ Generation(b) # Absent => Generation(b) < Generation(a)
  /\ path[<<"plugin", 1>>] = path[pluginLog] => path[pluginLog] = Absent

(* Nobody writes in an earlier file once it has written in a later one.    *)
AgesInv ==
  /\ \A p \in Procs : path[active] # Absent => file[p] <= path[active]
  /\ \A s \in Sources : path[<<s, 0>>] # Absent => reader[s].file <= path[<<s, 0>>]
  /\ \A i \in DOMAIN body : \A k \in DOMAIN body[i] : LET b == By(body[i][k]) IN
       /\ b \in Procs /\ file[b] # Absent => i <= file[b]
       /\ b # Plugin /\ path[active] # Absent => i <= path[active]
       /\ b = Plugin /\ path[pluginLog] # Absent => i <= path[pluginLog]

PlacesInv == PathsInv /\ KindsInv /\ AgesInv

LEMMA PathsOf ==
  /\ active = <<"binary", 0>> /\ pluginLog = <<"plugin", 0>>
  /\ \A a \in Slots : <<"binary", a>> \in Paths
  /\ {active, pluginLog, <<"plugin", 1>>} \subseteq Paths /\ \A s \in Sources : <<s, 0>> \in Paths
  /\ \A x \in Paths : x[1] \in Sources /\ (\/ \E a \in Slots : x = <<"binary", a>>
                                           \/ x = pluginLog \/ x = <<"plugin", 1>>)
BY DEF active, pluginLog, Paths, Slots, Sources

LEMMA PathsAreApart ==
  ASSUME LogType, PlacesInv
  PROVE  \A x, y \in Paths : path[x] = path[y] => x = y \/ path[x] = Absent
<1>1. PICK K : KindsOf(K)
  BY DEF PlacesInv, KindsInv
<1> SUFFICES ASSUME NEW x \in Paths, NEW y \in Paths, path[x] = path[y], path[x] # Absent PROVE x = y
  OBVIOUS
<1>2. x[1] = y[1]
  BY <1>1 DEF KindsOf
<1>3. CASE x[1] = "binary"
  <2>1. PICK a \in Slots, b \in Slots : x = <<"binary", a>> /\ y = <<"binary", b>>
    BY <1>2, <1>3, PathsOf
  <2>2. path[x] \in Int /\ a \in Int /\ b \in Int
    BY PathsOf DEF LogType, Slots
  <2>3. ~(a < b) /\ ~(b < a)
    BY <2>1, <2>2 DEF PlacesInv, PathsInv, Generation
  <2>. QED BY <2>1, <2>2, <2>3
<1>4. CASE x[1] # "binary"
  BY <1>2, <1>4, PathsOf DEF PlacesInv, PathsInv
<1>. QED BY <1>3, <1>4

LEMMA Renamed ==
  ASSUME NEW S, NEW T, NEW f \in [S -> T], NEW x \in S, NEW y \in S, x # y, NEW v \in T
  PROVE  LET g == [f EXCEPT ![y] = f[x], ![x] = v] IN
           g \in [S -> T] /\ g[x] = v /\ g[y] = f[x] /\ \A z \in S \ {x, y} : g[z] = f[z]
OBVIOUS

LEMMA RenamedBack ==
  ASSUME NEW S, NEW T, NEW f \in [S -> T], NEW x \in S, NEW y \in S, x # y, NEW v \in T
  PROVE  LET g == [f EXCEPT ![x] = v, ![y] = f[x]] IN
           g \in [S -> T] /\ g[x] = v /\ g[y] = f[x] /\ \A z \in S \ {x, y} : g[z] = f[z]
OBVIOUS

(* A generation goes, or takes the place of the next older one.            *)
Shifted(a) ==
  /\ a \in {0, 1, 2} /\ path[<<"binary", a>>] # Absent
  /\ path' = [path EXCEPT ![<<"binary", a + 1>>] = path[<<"binary", a>>], ![<<"binary", a>>] = Absent]

Moves == \/ path' = [path EXCEPT ![<<"binary", 3>>] = Absent]
         \/ \E a : Shifted(a)
         \/ path' = [path EXCEPT ![pluginLog] = Absent, ![<<"plugin", 1>>] = path[pluginLog]]

LEMMA PathsMove ==
  ASSUME LogType, TailType, PlacesInv, UNCHANGED <<body, file, reader>>, Moves
  PROVE  /\ path' \in [Paths -> 0..Len(body)] /\ PlacesInv'
         /\ \A s \in Sources : path'[<<s, 0>>] \in {path[<<s, 0>>], Absent}
<1>0. Absent = 0 /\ Len(body) \in Nat /\ path \in [Paths -> 0..Len(body)]
  BY BodyOf DEF LogType, Absent
<1>1. /\ path' \in [Paths -> 0..Len(body)] /\ PathsInv' /\ \A s \in Sources : path'[<<s, 0>>] \in {path[<<s, 0>>], Absent}
      /\ \A x \in Paths : path'[x] # Absent => \E y \in Paths : y[1] = x[1] /\ path'[x] = path[y]
  <2>1. CASE path' = [path EXCEPT ![<<"binary", 3>>] = Absent]
    BY <1>0, <2>1, PathsOf DEF PlacesInv, PathsInv, Generation, Slots, Sources
  <2>2. ASSUME NEW a, Shifted(a)
        PROVE  /\ path' \in [Paths -> 0..Len(body)] /\ PathsInv'
               /\ \A s \in Sources : path'[<<s, 0>>] \in {path[<<s, 0>>], Absent}
               /\ \A x \in Paths : path'[x] # Absent => \E y \in Paths : y[1] = x[1] /\ path'[x] = path[y]
    <3>0. a \in Slots /\ a + 1 \in Slots /\ a \in Int
      BY <2>2 DEF Shifted, Slots
    <3>1. /\ path' \in [Paths -> 0..Len(body)]
          /\ path'[<<"binary", a>>] = Absent /\ path'[<<"binary", a + 1>>] = path[<<"binary", a>>]
          /\ \A x \in Paths \ {<<"binary", a>>, <<"binary", a + 1>>} : path'[x] = path[x]
      <4> DEFINE x == <<"binary", a>>
                 y == <<"binary", a + 1>>
      <4>1. x \in Paths /\ y \in Paths /\ x # y
        BY <3>0, PathsOf
      <4>2. path' = [path EXCEPT ![y] = path[x], ![x] = Absent] /\ Absent \in 0..Len(body)
        BY <1>0, <2>2 DEF Shifted
      <4> HIDE DEF x, y
      <4>3. /\ path' \in [Paths -> 0..Len(body)] /\ path'[x] = Absent /\ path'[y] = path[x]
            /\ \A z \in Paths \ {x, y} : path'[z] = path[z]
        BY <1>0, <4>1, <4>2, Renamed
      <4>. QED BY <4>3 DEF x, y
    <3>2. \A b \in Slots : b = a \/ b = a + 1 \/ path'[<<"binary", b>>] = path[<<"binary", b>>]
      BY <3>1, PathsOf
    <3>3. PathsInv'
      <4>1. ASSUME NEW b \in Slots, NEW c \in Slots, b < c, Generation(b)' # Absent, Generation(c)' # Absent
            PROVE  Generation(c)' < Generation(b)'
        <5>0. b \in Int /\ c \in Int /\ path[<<"binary", a>>] # Absent
          BY <2>2 DEF Slots, Shifted
        <5>1. b # a /\ c # a
          BY <3>1, <4>1 DEF Generation
        <5>2. CASE b = a + 1
          BY <3>0, <3>1, <3>2, <4>1, <5>0, <5>1, <5>2 DEF PlacesInv, PathsInv, Generation
        <5>3. CASE c = a + 1
          <6>1. b < a
            BY <3>0, <4>1, <5>0, <5>1, <5>3
          <6>. QED BY <3>0, <3>1, <3>2, <4>1, <5>0, <5>1, <5>3, <6>1 DEF PlacesInv, PathsInv, Generation
        <5>4. CASE b # a + 1 /\ c # a + 1
          BY <3>2, <4>1, <5>1, <5>4 DEF PlacesInv, PathsInv, Generation
        <5>. QED BY <5>2, <5>3, <5>4
      <4>2. path'[<<"plugin", 1>>] = path[<<"plugin", 1>>] /\ path'[pluginLog] = path[pluginLog]
        BY <3>1, PathsOf
      <4>. QED BY <4>1, <4>2 DEF PlacesInv, PathsInv
    <3>4. ASSUME NEW s \in Sources PROVE path'[<<s, 0>>] \in {path[<<s, 0>>], Absent}
      BY <2>2, <3>1, PathsOf DEF Shifted
    <3>5. ASSUME NEW x \in Paths, path'[x] # Absent PROVE \E y \in Paths : y[1] = x[1] /\ path'[x] = path[y]
      BY <3>0, <3>1, <3>5, PathsOf
    <3>. QED BY <3>1, <3>3, <3>4, <3>5
  <2>3. CASE path' = [path EXCEPT ![pluginLog] = Absent, ![<<"plugin", 1>>] = path[pluginLog]]
    <3>1. /\ path' \in [Paths -> 0..Len(body)] /\ path'[pluginLog] = Absent /\ path'[<<"plugin", 1>>] = path[pluginLog]
          /\ \A x \in Paths \ {pluginLog, <<"plugin", 1>>} : path'[x] = path[x]
      <4> DEFINE y == <<"plugin", 1>>
      <4>1. pluginLog \in Paths /\ y \in Paths /\ pluginLog # y
        BY PathsOf
      <4>2. path' = [path EXCEPT ![pluginLog] = Absent, ![y] = path[pluginLog]] /\ Absent \in 0..Len(body)
        BY <1>0, <2>3
      <4> HIDE DEF y
      <4>3. /\ path' \in [Paths -> 0..Len(body)] /\ path'[pluginLog] = Absent /\ path'[y] = path[pluginLog]
            /\ \A z \in Paths \ {pluginLog, y} : path'[z] = path[z]
        BY <1>0, <4>1, <4>2, RenamedBack
      <4>. QED BY <4>3 DEF y
    <3>2. PathsInv'
      BY <3>1, PathsOf DEF PlacesInv, PathsInv, Generation
    <3>3. ASSUME NEW x \in Paths, path'[x] # Absent PROVE \E y \in Paths : y[1] = x[1] /\ path'[x] = path[y]
      BY <3>1, <3>3, PathsOf
    <3>. QED BY <3>1, <3>2, <3>3, PathsOf DEF Sources
  <2>. QED BY <2>1, <2>2, <2>3 DEF Moves
<1>2. KindsInv'
  <2>1. PICK K : KindsOf(K)
    BY DEF PlacesInv, KindsInv
  <2>2. KindsOf(K)'
    BY <1>1, <2>1 DEF KindsOf
  <2>. QED BY <2>2 DEF KindsInv
<1>3. AgesInv'
  <2>1. path'[active] \in {path[active], Absent} /\ path'[pluginLog] \in {path[pluginLog], Absent}
    BY <1>1, PathsOf DEF Sources
  <2>. QED BY <1>1, <2>1 DEF PlacesInv, AgesInv
<1>. QED BY <1>1, <1>2, <1>3 DEF PlacesInv

-----------------------------------------------------------------------------
(* A file grows at its end: the places stay in order when it is one that   *)
(* is written where it should be.                                          *)
LEMMA KindsGrow ==
  ASSUME LogType, TailType, NEW K, KindsOf(K), NEW s \in Seq(Half), NEW kind \in Sources,
         NEW f, (f \in DOMAIN body /\ K[f] = kind) \/ f = Created, Grows(f, s),
         \A l \in DOMAIN s : By(s[l]) = Plugin <=> kind = "plugin",
         \A x \in Paths : path'[x] = path[x] \/ path'[x] = Absent \/ (path'[x] = f /\ x[1] = kind),
         \A p \in Procs : file'[p] = file[p] \/ file'[p] = Absent \/ (file'[p] = f /\ kind = "binary"),
         UNCHANGED reader
  PROVE  KindsInv'
<1> DEFINE L == [i \in DOMAIN body' |-> IF i = f THEN kind ELSE K[i]]
<1>0. /\ Absent = 0 /\ Len(body) \in Nat /\ DOMAIN body = 1..Len(body) /\ f \in DOMAIN body'
      /\ \A i \in DOMAIN body' : i # f => i \in DOMAIN body /\ body'[i] = body[i]
      /\ DOMAIN body \subseteq DOMAIN body'
  BY BodyOf DEF LogType, Absent, Grows
<1>1. L \in [DOMAIN body' -> Sources]
  BY <1>0 DEF KindsOf
<1>2. L[f] = kind /\ \A i \in DOMAIN body : L[i] = K[i]
  BY <1>0 DEF Created
<1>3. \A x \in Paths : path'[x] # Absent => L[path'[x]] = x[1]
  <2> SUFFICES ASSUME NEW x \in Paths, path'[x] # Absent PROVE L[path'[x]] = x[1]
    OBVIOUS
  <2>1. CASE path'[x] = path[x]
    <3>1. path[x] \in DOMAIN body
      BY <1>0, <2>1 DEF LogType
    <3>. QED BY <1>2, <2>1, <3>1 DEF KindsOf
  <2>2. CASE path'[x] = f /\ x[1] = kind
    BY <1>2, <2>2
  <2>. QED BY <2>1, <2>2
<1>4. \A p \in Procs : file'[p] # Absent => L[file'[p]] = "binary"
  <2> SUFFICES ASSUME NEW p \in Procs, file'[p] # Absent PROVE L[file'[p]] = "binary"
    OBVIOUS
  <2>1. CASE file'[p] = file[p]
    <3>1. file[p] \in DOMAIN body
      BY <1>0, <2>1 DEF LogType
    <3>. QED BY <1>2, <2>1, <3>1 DEF KindsOf
  <2>2. CASE file'[p] = f /\ kind = "binary"
    BY <1>2, <2>2
  <2>. QED BY <2>1, <2>2
<1>5. \A r \in Sources : reader'[r].file # Absent => L[reader'[r].file] = r
  <2> SUFFICES ASSUME NEW r \in Sources, reader[r].file # Absent PROVE L[reader[r].file] = r
    OBVIOUS
  <2>1. reader[r].file \in DOMAIN body
    BY <1>0 DEF TailType
  <2>. QED BY <1>2, <2>1 DEF KindsOf
<1>6. ASSUME NEW i \in DOMAIN body', NEW k \in DOMAIN body'[i] PROVE By(body'[i][k]) = Plugin <=> L[i] = "plugin"
  <2>1. CASE i \in DOMAIN body /\ k \in DOMAIN body[i] /\ body'[i][k] = body[i][k]
    BY <1>2, <2>1 DEF KindsOf
  <2>2. CASE i = f /\ \E l \in DOMAIN s : body'[i][k] = s[l]
    BY <1>2, <2>2
  <2>. QED BY <2>1, <2>2 DEF Grows
<1> HIDE DEF L
<1>7. PICK M : M = L
  OBVIOUS
<1>8. KindsOf(M)'
  BY <1>1, <1>3, <1>4, <1>5, <1>6, <1>7 DEF KindsOf
<1>. QED BY <1>8 DEF KindsInv

LEMMA AgesGrow ==
  ASSUME LogType, AgesInv, NEW s \in Seq(Half), NEW f, Grows(f, s), UNCHANGED reader,
         \A p \in Procs : path'[active] # Absent => file'[p] <= path'[active],
         \A r \in Sources : path'[<<r, 0>>] # Absent => reader[r].file <= path'[<<r, 0>>],
         \A x \in {active, pluginLog} : path'[x] = path[x] \/ path'[x] = Absent \/ (path'[x] = Created /\ f = Created),
         \A p \in Procs : \/ file'[p] = file[p] \/ file'[p] = Absent
                          \/ file'[p] = path'[active],
         \A l \in DOMAIN s : LET b == By(s[l]) IN
           /\ b \in Procs /\ file'[b] # Absent => f <= file'[b]
           /\ b # Plugin /\ path'[active] # Absent => f <= path'[active]
           /\ b = Plugin /\ path'[pluginLog] # Absent => f <= path'[pluginLog]
  PROVE  AgesInv'
<1>0. Len(body) \in Nat /\ DOMAIN body = 1..Len(body) /\ Plugin \notin Procs
  BY BodyOf, WritersAreApart DEF LogType
<1> SUFFICES ASSUME NEW i \in DOMAIN body', NEW k \in DOMAIN body'[i]
             PROVE  LET b == By(body'[i][k]) IN
                      /\ b \in Procs /\ file'[b] # Absent => i <= file'[b]
                      /\ b # Plugin /\ path'[active] # Absent => i <= path'[active]
                      /\ b = Plugin /\ path'[pluginLog] # Absent => i <= path'[pluginLog]
  BY DEF AgesInv
<1>1. CASE i = f /\ \E l \in DOMAIN s : body'[i][k] = s[l]
  BY <1>1
<1>2. CASE i \in DOMAIN body /\ k \in DOMAIN body[i] /\ body'[i][k] = body[i][k]
  <2> DEFINE b == By(body[i][k])
  <2>1. i <= Created
    BY <1>0, <1>2 DEF Created
  <2>2. b # Plugin /\ path'[active] # Absent => i <= path'[active]
    BY <1>2, <2>1 DEF AgesInv
  <2>3. b = Plugin /\ path'[pluginLog] # Absent => i <= path'[pluginLog]
    BY <1>2, <2>1 DEF AgesInv
  <2>4. ASSUME b \in Procs, file'[b] # Absent PROVE i <= file'[b]
    <3>1. CASE file'[b] = file[b]
      BY <1>2, <2>4, <3>1 DEF AgesInv
    <3>2. CASE file'[b] = path'[active]
      BY <1>0, <2>2, <2>4, <3>2
    <3>. QED BY <2>4, <3>1, <3>2
  <2>. QED BY <1>2, <2>2, <2>3, <2>4
<1>. QED BY <1>1, <1>2 DEF Grows

LEMMA FileOf ==
  ASSUME LogType
  PROVE  /\ Absent = 0 /\ Len(body) \in Nat /\ DOMAIN body = 1..Len(body)
         /\ \A x \in Paths : path[x] \in 0..Len(body) /\ (path[x] # Absent => path[x] \in DOMAIN body)
         /\ \A p \in Procs : file[p] \in 0..Len(body) /\ (file[p] # Absent => file[p] \in DOMAIN body)
BY BodyOf DEF LogType, Absent

(* A process opens wezsesh.log.                                            *)
LEMMA OpensWell ==
  ASSUME LogType, TailType, PlacesInv, NEW p \in Procs, OpenLog(p), UNCHANGED reader
  PROVE  /\ PlacesInv' /\ path' \in [Paths -> 0..Len(body')] /\ file' \in [Procs -> 0..Len(body')] /\ file'[p] # Absent
         /\ UNCHANGED body \/ Grows(Created, <<>>)
         /\ \A r \in Sources : path'[<<r, 0>>] = path[<<r, 0>>] \/ (path[<<r, 0>>] = Absent /\ path'[<<r, 0>>] = Created)
<1>0. /\ Absent = 0 /\ Len(body) \in Nat /\ DOMAIN body = 1..Len(body) /\ active \in Paths
      /\ \A x \in Paths : path[x] \in 0..Len(body) /\ (path[x] # Absent => path[x] \in DOMAIN body)
      /\ \A q \in Procs : file[q] \in 0..Len(body) /\ (file[q] # Absent => file[q] \in DOMAIN body)
      /\ path \in [Paths -> 0..Len(body)] /\ file \in [Procs -> 0..Len(body)]
  BY FileOf, PathsOf DEF LogType
<1>1. PICK K : KindsOf(K)
  BY DEF PlacesInv, KindsInv
<1>2. CASE path[active] # Absent
  <2>1. path' = path /\ body' = body /\ file' = [file EXCEPT ![p] = path[active]]
    <3>1. path' = [path EXCEPT ![active] = path[active]] /\ body' = body /\ file' = [file EXCEPT ![p] = path[active]]
      BY <1>2 DEF OpenLog
    <3>. QED BY <1>0, <3>1
  <2>2. file' \in [Procs -> 0..Len(body)] /\ file'[p] = path[active] /\ \A q \in Procs \ {p} : file'[q] = file[q]
    BY <1>0, <2>1
  <2>3. K[path[active]] = "binary"
    BY <1>0, <1>1, <1>2, PathsOf DEF KindsOf
  <2>4. KindsOf(K)'
    BY <1>1, <2>1, <2>2, <2>3 DEF KindsOf
  <2>5. AgesInv'
    <3>1. \A q \in Procs : path[active] # Absent => file'[q] <= path[active]
      BY <1>0, <2>2 DEF PlacesInv, AgesInv
    <3>2. Plugin \notin Procs
      BY WritersAreApart
    <3>3. ASSUME NEW i \in DOMAIN body, NEW k \in DOMAIN body[i], By(body[i][k]) \in Procs, file'[By(body[i][k])] # Absent
          PROVE  i <= file'[By(body[i][k])]
      <4>1. CASE By(body[i][k]) = p
        BY <1>2, <2>2, <3>2, <4>1 DEF PlacesInv, AgesInv
      <4>2. CASE By(body[i][k]) # p
        BY <2>2, <3>3, <4>2 DEF PlacesInv, AgesInv
      <4>. QED BY <4>1, <4>2
    <3>. QED BY <2>1, <3>1, <3>3 DEF PlacesInv, AgesInv
  <2>. QED BY <1>0, <1>2, <2>1, <2>2, <2>4, <2>5 DEF PlacesInv, PathsInv, KindsInv, Generation
<1>3. CASE path[active] = Absent
  <2>1. path' = [path EXCEPT ![active] = Created] /\ body' = Append(body, <<>>) /\ file' = [file EXCEPT ![p] = Created]
    BY <1>3 DEF OpenLog
  <2>2. Grows(Created, <<>>) /\ Len(body') = Len(body) + 1
    <3>1. <<>> \in Seq(Half) /\ body \in Seq(Seq(Half))
      BY EmptySeq DEF LogType
    <3>2. Len(Append(body, <<>>)) = Len(body) + 1
      BY <3>1, AppendProperties
    <3>. QED BY <2>1, <3>1, <3>2, Started
  <2>3. Created = Len(body) + 1
    BY DEF Created
  <2>4. /\ path' \in [Paths -> 0..Len(body')] /\ file' \in [Procs -> 0..Len(body')]
        /\ path'[active] = Created /\ \A x \in Paths \ {active} : path'[x] = path[x]
        /\ file'[p] = Created /\ \A q \in Procs \ {p} : file'[q] = file[q]
    BY <1>0, <2>1, <2>2, <2>3
  <2>5. <<>> \in Seq(Half) /\ DOMAIN <<>> = {}
    BY EmptySeq
  <2>6. KindsInv'
    <3>1. active[1] = "binary" /\ "binary" \in Sources
      BY PathsOf DEF Sources
    <3>. QED BY <1>1, <2>2, <2>4, <2>5, <3>1, KindsGrow
  <2>7. AgesInv'
    <3>0. \A i \in 0..Len(body) : i <= Created /\ Created \in Nat
      BY <1>0, <2>3
    <3>1. \A q \in Procs : file'[q] <= path'[active]
      <4>1. \A q \in Procs : file'[q] = Created \/ file'[q] \in 0..Len(body)
        BY <1>0, <2>4
      <4>. QED BY <1>0, <2>3, <2>4, <3>0, <4>1
    <3>2. ASSUME NEW r \in Sources, path'[<<r, 0>>] # Absent PROVE reader[r].file <= path'[<<r, 0>>]
      <4>1. reader[r].file \in 0..Len(body) /\ <<r, 0>> \in Paths
        BY PathsOf DEF TailType
      <4>2. CASE <<r, 0>> = active
        BY <2>4, <3>0, <4>1, <4>2
      <4>3. CASE <<r, 0>> # active
        BY <2>4, <3>2, <4>1, <4>3 DEF PlacesInv, AgesInv
      <4>. QED BY <4>2, <4>3
    <3>3. \A x \in {active, pluginLog} : path'[x] = path[x] \/ path'[x] = Absent \/ (path'[x] = Created)
      BY <2>4, PathsOf
    <3>. QED BY <2>2, <2>4, <2>5, <3>1, <3>2, <3>3, AgesGrow DEF PlacesInv
  <2>8. PathsInv'
    <3>1. \A a \in Slots : <<"binary", a>> \in Paths /\ (a # 0 => <<"binary", a>> # active) /\ a \in Int
      BY PathsOf DEF Slots
    <3>2. \A a \in Slots : a # 0 => Generation(a)' = Generation(a) /\ Generation(a) < Created
      BY <1>0, <2>3, <2>4, <3>1 DEF Generation
    <3>3. Generation(0)' = Created
      BY <2>4, PathsOf DEF Generation
    <3>4. \A a, b \in Slots : a < b => b # 0
      BY DEF Slots
    <3>5. path'[<<"plugin", 1>>] = path[<<"plugin", 1>>] /\ path'[pluginLog] = path[pluginLog]
      BY <2>4, PathsOf
    <3>. QED BY <3>2, <3>3, <3>4, <3>5 DEF PlacesInv, PathsInv
  <2>9. \A r \in Sources : path'[<<r, 0>>] = path[<<r, 0>>] \/ (path[<<r, 0>>] = Absent /\ path'[<<r, 0>>] = Created)
    BY <1>3, <2>4, PathsOf
  <2>10. file'[p] # Absent
    BY <1>0, <2>3, <2>4
  <2>. QED BY <2>2, <2>4, <2>6, <2>7, <2>8, <2>9, <2>10 DEF PlacesInv
<1>. QED BY <1>2, <1>3

(* A process writes to its file, or lets go of it, or both.                *)
LEMMA WritesWell ==
  ASSUME LogType, TailType, PlacesInv, NEW p \in Procs, NEW s \in Seq(Half), \A l \in DOMAIN s : By(s[l]) = p,
         UNCHANGED body \/ (file[p] # Absent /\ Grows(file[p], s)),
         file' = file \/ file' = [file EXCEPT ![p] = Absent], UNCHANGED <<path, reader>>
  PROVE  PlacesInv' /\ path' \in [Paths -> 0..Len(body')] /\ file' \in [Procs -> 0..Len(body')]
<1>0. /\ Absent = 0 /\ Len(body) \in Nat /\ DOMAIN body = 1..Len(body) /\ active \in Paths
      /\ \A q \in Procs : file[q] \in 0..Len(body) /\ (file[q] # Absent => file[q] \in DOMAIN body)
      /\ path \in [Paths -> 0..Len(body)] /\ file \in [Procs -> 0..Len(body)]
      /\ path[active] \in Nat
  <2>1. /\ Absent = 0 /\ Len(body) \in Nat /\ DOMAIN body = 1..Len(body)
        /\ \A q \in Procs : file[q] \in 0..Len(body) /\ (file[q] # Absent => file[q] \in DOMAIN body)
        /\ \A x \in Paths : path[x] \in 0..Len(body)
    BY FileOf
  <2>2. active \in Paths
    BY PathsOf
  <2>3. path[active] \in Nat
    BY <2>1, <2>2
  <2>. QED BY <2>1, <2>2, <2>3 DEF LogType
<1>1. PICK K : KindsOf(K)
  BY DEF PlacesInv, KindsInv
<1>2. file' \in [Procs -> 0..Len(body)] /\ \A q \in Procs : file'[q] = file[q] \/ file'[q] = Absent
  BY <1>0
<1>3. Plugin \notin Procs
  BY WritersAreApart
<1>4. \A q \in Procs : path'[active] # Absent => file'[q] <= path'[active]
  BY <1>0, <1>2 DEF PlacesInv, AgesInv
<1>5. PathsInv'
  BY DEF PlacesInv, PathsInv, Generation
<1>6. CASE UNCHANGED body
  <2>1. KindsOf(K)'
    BY <1>1, <1>2, <1>6 DEF KindsOf
  <2>2. AgesInv'
    BY <1>2, <1>3, <1>4, <1>6 DEF PlacesInv, AgesInv
  <2>. QED BY <1>0, <1>2, <1>5, <1>6, <2>1, <2>2 DEF PlacesInv, KindsInv
<1>7. CASE file[p] # Absent /\ Grows(file[p], s)
  <2>1. Len(body) <= Len(body') /\ Len(body') \in Nat
    BY <1>7, BodyOf DEF Grows
  <2>2. KindsInv'
    <3>1. file[p] \in DOMAIN body /\ K[file[p]] = "binary" /\ "binary" \in Sources /\ "binary" # "plugin"
      BY <1>0, <1>1, <1>7 DEF KindsOf, Sources
    <3>2. \A l \in DOMAIN s : By(s[l]) = Plugin <=> "binary" = "plugin"
      BY <1>3
    <3>. QED BY <1>1, <1>2, <1>7, <3>1, <3>2, KindsGrow
  <2>3. AgesInv'
    <3>1. \A x \in {active, pluginLog} : path'[x] = path[x]
      OBVIOUS
    <3>2. \A r \in Sources : path'[<<r, 0>>] # Absent => reader[r].file <= path'[<<r, 0>>]
      BY DEF PlacesInv, AgesInv
    <3>3. path'[active] # Absent => file[p] <= path'[active]
      BY DEF PlacesInv, AgesInv
    <3>4. file'[p] # Absent => file[p] <= file'[p]
      BY <1>0, <1>2
    <3>. QED BY <1>2, <1>3, <1>4, <1>7, <3>1, <3>2, <3>3, <3>4, AgesGrow DEF PlacesInv
  <2>4. path' \in [Paths -> 0..Len(body')] /\ file' \in [Procs -> 0..Len(body')]
    BY <1>0, <1>2, <2>1
  <2>. QED BY <1>5, <2>2, <2>3, <2>4 DEF PlacesInv
<1>. QED BY <1>6, <1>7

(* The plugin writes a line.                                               *)
LEMMA PluginWritesWell ==
  ASSUME LogType, TailType, PlacesInv, NEW s \in Seq(Half), \A l \in DOMAIN s : By(s[l]) = Plugin, NEW f, Grows(f, s),
         \/ path[pluginLog] # Absent /\ f = path[pluginLog] /\ UNCHANGED path
         \/ path[pluginLog] = Absent /\ f = Created /\ Len(body') = Len(body) + 1 /\ path' = [path EXCEPT ![pluginLog] = Created],
         UNCHANGED <<file, reader>>
  PROVE  /\ PlacesInv' /\ path' \in [Paths -> 0..Len(body')] /\ file' \in [Procs -> 0..Len(body')]
         /\ \A r \in Sources : path'[<<r, 0>>] = path[<<r, 0>>] \/ (path[<<r, 0>>] = Absent /\ path'[<<r, 0>>] = Created)
<1>0. /\ Absent = 0 /\ Len(body) \in Nat /\ DOMAIN body = 1..Len(body) /\ active \in Paths /\ pluginLog \in Paths
      /\ active # pluginLog
      /\ \A q \in Procs : file[q] \in 0..Len(body) /\ (file[q] # Absent => file[q] \in DOMAIN body)
      /\ \A x \in Paths : path[x] \in 0..Len(body) /\ (path[x] # Absent => path[x] \in DOMAIN body)
      /\ path \in [Paths -> 0..Len(body)] /\ file \in [Procs -> 0..Len(body)]
  BY FileOf, PathsOf DEF LogType
<1>1. PICK K : KindsOf(K)
  BY DEF PlacesInv, KindsInv
<1>2. Plugin \notin Procs /\ "plugin" \in Sources /\ Created = Len(body) + 1
  BY WritersAreApart DEF Sources, Created
<1>3. Len(body) <= Len(body') /\ Len(body') \in Nat
  BY BodyOf DEF Grows
<1>4. /\ path' \in [Paths -> 0..Len(body')] /\ path'[pluginLog] = f /\ f # Absent
      /\ \A x \in Paths \ {pluginLog} : path'[x] = path[x]
      /\ (path[pluginLog] = f /\ f \in DOMAIN body) \/ (path[pluginLog] = Absent /\ f = Created)
  <2>1. CASE path[pluginLog] # Absent /\ f = path[pluginLog] /\ UNCHANGED path
    <3>1. path \in [Paths -> 0..Len(body')]
      BY <1>0, <1>3
    <3>. QED BY <1>0, <2>1, <3>1
  <2>2. CASE path[pluginLog] = Absent /\ f = Created /\ Len(body') = Len(body) + 1 /\ path' = [path EXCEPT ![pluginLog] = Created]
    BY <1>0, <1>2, <2>2
  <2>. QED BY <2>1, <2>2
<1>5. KindsInv'
  <2>1. f \in DOMAIN body => K[f] = "plugin"
    BY <1>0, <1>1, <1>2, <1>4, PathsOf DEF KindsOf
  <2>2. pluginLog[1] = "plugin"
    BY PathsOf
  <2>. QED BY <1>1, <1>2, <1>4, <2>1, <2>2, KindsGrow
<1>6. AgesInv'
  <2>1. path'[active] = path[active]
    BY <1>0, <1>4
  <2>2. \A x \in {active, pluginLog} : path'[x] = path[x] \/ (path'[x] = Created /\ f = Created)
    BY <1>4, <2>1
  <2>3. ASSUME NEW r \in Sources, path'[<<r, 0>>] # Absent PROVE reader[r].file <= path'[<<r, 0>>]
    <3>1. reader[r].file \in 0..Len(body) /\ <<r, 0>> \in Paths
      BY PathsOf DEF TailType
    <3>2. CASE path'[<<r, 0>>] = path[<<r, 0>>]
      BY <2>3, <3>2 DEF PlacesInv, AgesInv
    <3>3. CASE <<r, 0>> = pluginLog /\ f = Created
      <4>1. path'[<<r, 0>>] = Len(body) + 1
        BY <1>2, <1>4, <3>3
      <4>. QED BY <1>0, <3>1, <4>1
    <3>. QED BY <1>4, <3>1, <3>2, <3>3
  <2>4. \A p \in Procs : path'[active] # Absent => file'[p] <= path'[active]
    BY <2>1 DEF PlacesInv, AgesInv
  <2>5. f <= path'[pluginLog]
    BY <1>0, <1>2, <1>4
  <2>. QED BY <1>2, <2>2, <2>3, <2>4, <2>5, AgesGrow DEF PlacesInv
<1>7. PathsInv'
  <2>1. \A a \in Slots : Generation(a)' = Generation(a)
    BY <1>4, PathsOf DEF Generation
  <2>2. path'[<<"plugin", 1>>] = path[<<"plugin", 1>>] /\ path[<<"plugin", 1>>] \in 0..Len(body)
    BY <1>0, <1>4, PathsOf
  <2>3. path'[<<"plugin", 1>>] = path'[pluginLog] => path'[pluginLog] = Absent
    <3>1. CASE path[pluginLog] = f
      BY <1>4, <2>2, <3>1 DEF PlacesInv, PathsInv
    <3>2. CASE f = Created
      BY <1>0, <1>2, <1>4, <2>2, <3>2
    <3>. QED BY <1>4, <3>1, <3>2
  <2>. QED BY <2>1, <2>3 DEF PlacesInv, PathsInv
<1>8. \A r \in Sources : path'[<<r, 0>>] = path[<<r, 0>>] \/ (path[<<r, 0>>] = Absent /\ path'[<<r, 0>>] = Created)
  BY <1>4, PathsOf
<1>. QED BY <1>0, <1>3, <1>4, <1>5, <1>6, <1>7, <1>8 DEF PlacesInv

-----------------------------------------------------------------------------
(* What a process has yet to write out is in order, and is later than what *)
(* it has written and what tail has read of it.                            *)
Queue(p) ==
  /\ RisingHalves(Pending(p))
  /\ \A l \in DOMAIN Pending(p) : By(Pending(p)[l]) = p /\ Pending(p)[l][1].no <= lines
  /\ \A i \in DOMAIN body : \A k \in DOMAIN body[i], l \in DOMAIN Pending(p) :
       By(body[i][k]) = p => Key(body[i][k]) < Key(Pending(p)[l])
  /\ \A x \in Seen : \A l \in DOMAIN Pending(p) : x.by = p => x.no < Pending(p)[l][1].no

ContentInv ==
  /\ HalvesInv
  /\ \A i \in DOMAIN body : \A k \in DOMAIN body[i] : body[i][k][1].no <= lines
  /\ \A x \in Seen : x.no <= lines
  /\ \A p \in Procs : Queue(p)

LEMMA KeyOf == \A h \in Half : /\ h[1].no \in Int /\ h[2] \in {1, 2} /\ Key(h) = 2 * h[1].no + h[2] /\ Key(h) \in Int
                               /\ 2 * h[1].no < Key(h) /\ Key(h) <= 2 * (h[1].no + 1)
<1> SUFFICES ASSUME NEW h \in Half PROVE /\ h[1].no \in Int /\ h[2] \in {1, 2} /\ Key(h) = 2 * h[1].no + h[2]
                                         /\ Key(h) \in Int /\ 2 * h[1].no < Key(h) /\ Key(h) <= 2 * (h[1].no + 1)
  OBVIOUS
<1>1. h[1].no \in Int /\ h[2] \in {1, 2} /\ Key(h) = 2 * h[1].no + h[2]
  BY HalfType DEF Key
<1>. QED BY <1>1

LEMMA WrittenHalves ==
  ASSUME LogType
  PROVE  \A i \in DOMAIN body : \A k \in DOMAIN body[i] : body[i][k] \in Half /\ body[i][k][1].no \in Int /\ Key(body[i][k]) \in Int
<1>1. \A i \in DOMAIN body : \A k \in DOMAIN body[i] : body[i][k] \in Half
  BY BodyOf DEF LogType
<1>. QED BY <1>1, KeyOf

LEMMA HalvesOfLine ==
  ASSUME NEW l \in Logged
  PROVE  /\ Halves(l) \in Seq(Half) /\ DOMAIN Halves(l) = {1, 2} /\ Len(Halves(l)) = 2
         /\ Halves(l)[1] = <<l, 1>> /\ Halves(l)[2] = <<l, 2>>
         /\ \A k \in {1, 2} : By(Halves(l)[k]) = l.by /\ Halves(l)[k][1] = l
         /\ RisingHalves(Halves(l))
<1>1. <<l, 1>> \in Half /\ <<l, 2>> \in Half
  BY DEF Half
<1>2. Halves(l) \in Seq(Half) /\ DOMAIN Halves(l) = {1, 2} /\ Len(Halves(l)) = 2
      /\ Halves(l)[1] = <<l, 1>> /\ Halves(l)[2] = <<l, 2>>
  BY <1>1 DEF Halves
<1>3. Key(<<l, 1>>) < Key(<<l, 2>>)
  BY <1>1 DEF Key, Half, Logged
<1>4. RisingHalves(Halves(l))
  <2> SUFFICES ASSUME NEW i \in DOMAIN Halves(l), NEW j \in DOMAIN Halves(l), i < j PROVE Key(Halves(l)[i]) < Key(Halves(l)[j])
    BY DEF RisingHalves
  <2>1. i = 1 /\ j = 2
    BY <1>2
  <2>. QED BY <1>2, <1>3, <2>1
<1>. QED BY <1>2, <1>4 DEF By

LEMMA PendingOf ==
  ASSUME LogType
  PROVE  \A p \in Procs : Pending(p) \in Seq(Half)
<1> SUFFICES ASSUME NEW p \in Procs PROVE Pending(p) \in Seq(Half)
  OBVIOUS
<1>1. buf[p] \in Seq(Half) /\ Halves(line[p]) \in Seq(Half)
  BY HalvesOfLine DEF LogType
<1>. QED BY <1>1, Concatenated DEF Pending

LEMMA SeenOf ==
  ASSUME TailType
  PROVE  /\ \A x \in Seen : x \in Logged /\ x.no \in Int
         /\ Seen = Range(printed) \cup Range(window) \cup Range(chan)
<1>1. Range(printed) \subseteq Logged /\ Range(window) \subseteq Logged /\ Range(chan) \subseteq Logged
  BY RangeOfSeq DEF TailType
<1>. QED BY <1>1 DEF Seen, Logged

(* The part of a process's queue that comes first goes to the end of its   *)
(* file.                                                                   *)
LEMMA ContentWritten ==
  ASSUME LogType, TailType, AgesInv, ContentInv, NEW p \in Procs, NEW s \in Seq(Half), NEW t \in Seq(Half),
         file[p] # Absent, Grows(file[p], s), Pending(p) = s \o t, Pending(p)' = t,
         \A q \in Procs \ {p} : Pending(q)' = Pending(q), UNCHANGED <<lines, Seen>>
  PROVE  ContentInv' /\ \A l \in DOMAIN s : By(s[l]) = p
<1>0. /\ DOMAIN s = 1..Len(s) /\ Len(s) \in Nat /\ DOMAIN t = 1..Len(t) /\ Len(t) \in Nat
      /\ DOMAIN Pending(p) = 1..Len(Pending(p))
      /\ \A k \in DOMAIN s : Key(s[k]) \in Int
  BY HalvesOf, PendingOf
<1>1. /\ \A k \in DOMAIN s : k \in DOMAIN Pending(p) /\ Pending(p)[k] = s[k]
      /\ \A k \in DOMAIN t : Len(s) + k \in DOMAIN Pending(p) /\ Pending(p)[Len(s) + k] = t[k]
  BY Concatenated
<1>2. \A l \in DOMAIN s : By(s[l]) = p /\ s[l][1].no <= lines
  BY <1>1 DEF ContentInv, Queue
<1>3. RisingHalves(s) /\ RisingHalves(t)
  <2>1. \A i, j \in DOMAIN t : i < j => Len(s) + i < Len(s) + j
    BY <1>0
  <2>2. RisingHalves(Pending(p))
    BY DEF ContentInv, Queue
  <2>3. RisingHalves(s)
    BY <1>1, <2>2 DEF RisingHalves
  <2>4. ASSUME NEW i \in DOMAIN t, NEW j \in DOMAIN t, i < j, By(t[i]) = By(t[j]) PROVE Key(t[i]) < Key(t[j])
    <3>1. Len(s) + i < Len(s) + j /\ Len(s) + i \in DOMAIN Pending(p) /\ Len(s) + j \in DOMAIN Pending(p)
      BY <1>1, <2>1, <2>4
    <3>2. Pending(p)[Len(s) + i] = t[i] /\ Pending(p)[Len(s) + j] = t[j]
      BY <1>1
    <3>. QED BY <2>2, <2>4, <3>1, <3>2 DEF RisingHalves
  <2>. QED BY <2>3, <2>4 DEF RisingHalves
<1>4. HalvesInv'
  <2>1. \A i \in DOMAIN body : \A k \in DOMAIN body[i], l \in DOMAIN s :
          By(body[i][k]) = By(s[l]) => i <= file[p] /\ Key(body[i][k]) < Key(s[l])
    BY <1>1, <1>2 DEF ContentInv, Queue, AgesInv
  <2>. QED BY <1>3, <2>1, HalvesGrow DEF LogType, ContentInv
<1>5. \A i \in DOMAIN body' : \A k \in DOMAIN body'[i] : body'[i][k][1].no <= lines
  <2> SUFFICES ASSUME NEW i \in DOMAIN body', NEW k \in DOMAIN body'[i] PROVE body'[i][k][1].no <= lines
    OBVIOUS
  <2>1. CASE i \in DOMAIN body /\ k \in DOMAIN body[i] /\ body'[i][k] = body[i][k]
    BY <2>1 DEF ContentInv
  <2>2. CASE \E m \in DOMAIN s : body'[i][k] = s[m]
    BY <1>2, <2>2
  <2>. QED BY <2>1, <2>2 DEF Grows
<1>6. Queue(p)'
  <2>1. \A l \in DOMAIN t : By(t[l]) = p /\ t[l][1].no <= lines
    BY <1>1 DEF ContentInv, Queue
  <2>2. ASSUME NEW i \in DOMAIN body', NEW k \in DOMAIN body'[i], NEW l \in DOMAIN t, By(body'[i][k]) = p
        PROVE  Key(body'[i][k]) < Key(t[l])
    <3>1. CASE i \in DOMAIN body /\ k \in DOMAIN body[i] /\ body'[i][k] = body[i][k]
      BY <1>1, <2>2, <3>1 DEF ContentInv, Queue
    <3>2. ASSUME NEW m \in DOMAIN s, body'[i][k] = s[m] PROVE Key(body'[i][k]) < Key(t[l])
      <4>1. m < Len(s) + l
        BY <1>0
      <4>2. By(s[m]) = p /\ By(t[l]) = p
        BY <1>2, <2>1
      <4>3. m \in DOMAIN Pending(p) /\ Len(s) + l \in DOMAIN Pending(p) /\ Pending(p)[m] = s[m] /\ Pending(p)[Len(s) + l] = t[l]
        BY <1>1
      <4>. QED BY <3>2, <4>1, <4>2, <4>3 DEF ContentInv, Queue, RisingHalves
    <3>. QED BY <3>1, <3>2 DEF Grows
  <2>3. \A x \in Seen : \A l \in DOMAIN t : x.by = p => x.no < t[l][1].no
    BY <1>1 DEF ContentInv, Queue
  <2>. QED BY <1>3, <2>1, <2>2, <2>3 DEF Queue
<1>7. ASSUME NEW q \in Procs \ {p} PROVE Queue(q)'
  <2>1. \A i \in DOMAIN body' : \A k \in DOMAIN body'[i], l \in DOMAIN Pending(q) :
          By(body'[i][k]) = q => Key(body'[i][k]) < Key(Pending(q)[l])
    <3> SUFFICES ASSUME NEW i \in DOMAIN body', NEW k \in DOMAIN body'[i], NEW l \in DOMAIN Pending(q), By(body'[i][k]) = q
                 PROVE  Key(body'[i][k]) < Key(Pending(q)[l])
      OBVIOUS
    <3>1. CASE i \in DOMAIN body /\ k \in DOMAIN body[i] /\ body'[i][k] = body[i][k]
      BY <3>1 DEF ContentInv, Queue
    <3>2. CASE \E m \in DOMAIN s : body'[i][k] = s[m]
      BY <1>2, <3>2
    <3>. QED BY <3>1, <3>2 DEF Grows
  <2>. QED BY <1>7, <2>1 DEF ContentInv, Queue
<1>. QED BY <1>2, <1>4, <1>5, <1>6, <1>7 DEF ContentInv

(* Nothing is written: a new file, a queue that is lost, lines that have   *)
(* been printed.                                                           *)
LEMMA ContentKept ==
  ASSUME LogType, ContentInv, UNCHANGED body \/ Grows(Created, <<>>), UNCHANGED lines, Seen' \subseteq Seen,
         \A q \in Procs : Pending(q)' = Pending(q) \/ Pending(q)' = <<>>
  PROVE  ContentInv'
<1>0. /\ \A i \in DOMAIN body' : \A k \in DOMAIN body'[i] : i \in DOMAIN body /\ k \in DOMAIN body[i] /\ body'[i][k] = body[i][k]
      /\ DOMAIN <<>> = {}
  BY DEF Grows
<1>1. HalvesInv'
  BY <1>0 DEF ContentInv, HalvesInv
<1>2. ASSUME NEW q \in Procs PROVE Queue(q)'
  <2>1. CASE Pending(q)' = Pending(q)
    BY <1>0, <2>1 DEF ContentInv, Queue
  <2>2. CASE Pending(q)' = <<>>
    BY <1>0, <2>2 DEF Queue, RisingHalves
  <2>. QED BY <2>1, <2>2
<1>. QED BY <1>0, <1>1, <1>2 DEF ContentInv

(* A line is logged.                                                       *)
LEMMA ContentLogged ==
  ASSUME LogType, TailType, ContentInv, NEW p \in Procs, NEW l \in Logged, l.by = p, l.no = lines + 1, lines' = lines + 1,
         Pending(p)' = Pending(p) \o Halves(l), \A q \in Procs \ {p} : Pending(q)' = Pending(q), UNCHANGED <<body, Seen>>
  PROVE  ContentInv'
<1> DEFINE s == Pending(p)
           h == Halves(l)
           t == s \o h
<1>0. /\ s \in Seq(Half) /\ h \in Seq(Half) /\ lines \in Nat
      /\ \A k \in DOMAIN s : Key(s[k]) \in Int /\ s[k][1].no \in Int /\ Key(s[k]) <= 2 * (s[k][1].no + 1)
      /\ \A k \in DOMAIN h : h[k][1] = l /\ h[k][2] \in {1, 2}
      /\ DOMAIN s = 1..Len(s) /\ Len(s) \in Nat /\ DOMAIN h = {1, 2} /\ RisingHalves(h)
  <2>1. s \in Seq(Half) /\ h \in Seq(Half) /\ lines \in Nat /\ DOMAIN h = {1, 2} /\ RisingHalves(h)
    BY PendingOf, HalvesOfLine DEF LogType
  <2>2. \A k \in DOMAIN h : h[k][1] = l /\ h[k][2] \in {1, 2}
    BY HalvesOfLine
  <2> HIDE DEF s, h
  <2>3. DOMAIN s = 1..Len(s) /\ Len(s) \in Nat /\ \A k \in DOMAIN s : s[k] \in Half
    BY <2>1, HalvesOf
  <2>. QED BY <2>1, <2>2, <2>3, KeyOf
<1>1. \A k \in DOMAIN h : Key(h[k]) \in Int
  BY <1>0 DEF Key, Logged
<1>2. \A k \in DOMAIN h : By(h[k]) = p /\ h[k][1].no = lines + 1 /\ Key(h[k]) > 2 * (lines + 1)
  BY <1>0 DEF By, Key
<1>3. \A k \in DOMAIN s : By(s[k]) = p /\ s[k][1].no <= lines /\ Key(s[k]) <= 2 * (lines + 1)
  <2>1. \A k \in DOMAIN s : By(s[k]) = p /\ s[k][1].no <= lines
    BY DEF ContentInv, Queue
  <2> HIDE DEF s
  <2>2. ASSUME NEW k \in DOMAIN s PROVE Key(s[k]) <= 2 * (lines + 1)
    <3>1. s[k][1].no \in Int /\ lines \in Int /\ s[k][1].no <= lines /\ Key(s[k]) \in Int /\ Key(s[k]) <= 2 * (s[k][1].no + 1)
      BY <1>0, <2>1
    <3>. QED BY <3>1
  <2>. QED BY <2>1, <2>2
<1> HIDE DEF s, h, t
<1>4. /\ t \in Seq(Half) /\ RisingHalves(t)
      /\ \A k \in DOMAIN t : \/ \E i \in DOMAIN s : t[k] = s[i]
                             \/ \E i \in DOMAIN h : t[k] = h[i]
  <2>1. RisingHalves(s)
    BY DEF s, ContentInv, Queue
  <2>2. \A i \in DOMAIN s, j \in DOMAIN h : Key(s[i]) < Key(h[j])
    BY <1>0, <1>1, <1>2, <1>3
  <2>3. Follows(s, h)
    BY <2>2 DEF Follows
  <2>. QED BY <1>0, <2>1, <2>3, Joined DEF t
<1>5. Queue(p)'
  <2>1. \A k \in DOMAIN t : By(t[k]) = p /\ t[k][1].no <= lines + 1
    <3> SUFFICES ASSUME NEW k \in DOMAIN t PROVE By(t[k]) = p /\ t[k][1].no <= lines + 1
      OBVIOUS
    <3>1. CASE \E i \in DOMAIN s : t[k] = s[i]
      BY <1>0, <1>3, <3>1
    <3>2. CASE \E m \in DOMAIN h : t[k] = h[m]
      BY <1>0, <1>2, <3>2
    <3>. QED BY <1>4, <3>1, <3>2
  <2>2. ASSUME NEW i \in DOMAIN body, NEW k \in DOMAIN body[i], NEW m \in DOMAIN t, By(body[i][k]) = p
        PROVE  Key(body[i][k]) < Key(t[m])
    <3>0. body[i][k] \in Half /\ body[i][k][1].no <= lines
      BY BodyOf DEF LogType, ContentInv
    <3>1. Key(body[i][k]) <= 2 * (lines + 1) /\ Key(body[i][k]) \in Int
      <4>1. lines \in Nat /\ body[i][k][1].no \in Int /\ Key(body[i][k]) <= 2 * (body[i][k][1].no + 1) /\ Key(body[i][k]) \in Int
        BY <1>0, <3>0, KeyOf
      <4>. QED BY <3>0, <4>1
    <3>2. CASE \E n \in DOMAIN s : t[m] = s[n]
      BY <2>2, <3>2 DEF s, ContentInv, Queue
    <3>3. ASSUME NEW n \in DOMAIN h, t[m] = h[n] PROVE Key(body[i][k]) < Key(t[m])
      <4>1. Key(h[n]) \in Int /\ Key(h[n]) > 2 * (lines + 1)
        BY <1>1, <1>2
      <4>. QED BY <1>0, <3>1, <3>3, <4>1
    <3>. QED BY <1>4, <3>2, <3>3
  <2>3. ASSUME NEW x \in Seen, NEW m \in DOMAIN t, x.by = p PROVE x.no < t[m][1].no
    <3>1. x.no <= lines /\ x.no \in Int
      BY SeenOf DEF ContentInv
    <3>2. CASE \E n \in DOMAIN s : t[m] = s[n]
      BY <2>3, <3>2 DEF s, ContentInv, Queue
    <3>3. ASSUME NEW n \in DOMAIN h, t[m] = h[n] PROVE x.no < t[m][1].no
      BY <1>0, <1>2, <3>1, <3>3
    <3>. QED BY <1>4, <3>2, <3>3
  <2>4. Pending(p)' = t
    BY DEF t, s, h
  <2>. QED BY <1>4, <2>1, <2>2, <2>3, <2>4 DEF Queue
<1>6. ASSUME NEW q \in Procs \ {p} PROVE Queue(q)'
  <2>1. \A k \in DOMAIN Pending(q) : Pending(q)[k][1].no <= lines + 1
    BY <1>0, PendingOf, HalvesOf DEF ContentInv, Queue
  <2>. QED BY <1>6, <2>1 DEF ContentInv, Queue
<1>7. \A i \in DOMAIN body : \A k \in DOMAIN body[i] : body[i][k][1].no <= lines + 1
  <2>1. \A i \in DOMAIN body : \A k \in DOMAIN body[i] : body[i][k][1].no <= lines
    BY DEF ContentInv
  <2>. QED BY <1>0, <2>1, WrittenHalves
<1>8. \A x \in Seen : x.no <= lines + 1
  BY <1>0, SeenOf DEF ContentInv
<1>. QED BY <1>5, <1>6, <1>7, <1>8 DEF ContentInv, HalvesInv

(* The plugin writes a line.                                               *)
LEMMA ContentOfPlugin ==
  ASSUME LogType, TailType, AgesInv, ContentInv, NEW l \in Logged, l.by = Plugin, l.no = lines + 1, lines' = lines + 1,
         NEW f, (path[pluginLog] # Absent /\ f = path[pluginLog]) \/ f = Created, Grows(f, Halves(l)),
         \A q \in Procs : Pending(q)' = Pending(q), UNCHANGED Seen
  PROVE  ContentInv'
<1> DEFINE h == Halves(l)
<1>0. /\ h \in Seq(Half) /\ lines \in Nat /\ Plugin \notin Procs /\ RisingHalves(h)
      /\ \A k \in DOMAIN h : h[k][1] = l /\ h[k][2] \in {1, 2} /\ By(h[k]) = Plugin
  <2>1. h \in Seq(Half) /\ lines \in Nat /\ Plugin \notin Procs /\ RisingHalves(h)
    BY HalvesOfLine, WritersAreApart DEF LogType
  <2>2. \A k \in DOMAIN h : h[k][1] = l /\ h[k][2] \in {1, 2} /\ By(h[k]) = Plugin
    BY HalvesOfLine
  <2>. QED BY <2>1, <2>2
<1>1. \A k \in DOMAIN h : h[k][1].no = lines + 1 /\ Key(h[k]) > 2 * (lines + 1) /\ Key(h[k]) \in Int
  BY <1>0 DEF Key
<1>2. \A i \in DOMAIN body : \A k \in DOMAIN body[i] :
        body[i][k][1].no \in Int /\ body[i][k][1].no <= lines /\ Key(body[i][k]) <= 2 * (lines + 1) /\ Key(body[i][k]) \in Int
  <2> SUFFICES ASSUME NEW i \in DOMAIN body, NEW k \in DOMAIN body[i]
               PROVE  body[i][k][1].no \in Int /\ body[i][k][1].no <= lines /\ Key(body[i][k]) <= 2 * (lines + 1) /\ Key(body[i][k]) \in Int
    OBVIOUS
  <2>1. body[i][k] \in Half /\ body[i][k][1].no <= lines
    BY BodyOf DEF LogType, ContentInv
  <2>. QED BY <1>0, <2>1, KeyOf
<1> HIDE DEF h
<1>3. HalvesInv'
  <2>1. \A i \in DOMAIN body : \A k \in DOMAIN body[i], m \in DOMAIN h :
          By(body[i][k]) = By(h[m]) => i <= f /\ Key(body[i][k]) < Key(h[m])
    <3> SUFFICES ASSUME NEW i \in DOMAIN body, NEW k \in DOMAIN body[i], NEW m \in DOMAIN h, By(body[i][k]) = By(h[m])
                 PROVE  i <= f /\ Key(body[i][k]) < Key(h[m])
      OBVIOUS
    <3>1. i <= f
      BY <1>0, BodyOf DEF LogType, AgesInv, Created
    <3>. QED BY <1>0, <1>1, <1>2, <3>1
  <2>. QED BY <1>0, <2>1, HalvesGrow DEF h, LogType, ContentInv
<1>4. ASSUME NEW i \in DOMAIN body', NEW k \in DOMAIN body'[i]
      PROVE  /\ body'[i][k][1].no <= lines + 1
             /\ \/ i \in DOMAIN body /\ k \in DOMAIN body[i] /\ body'[i][k] = body[i][k]
                \/ By(body'[i][k]) = Plugin
  <2>1. CASE i \in DOMAIN body /\ k \in DOMAIN body[i] /\ body'[i][k] = body[i][k]
    BY <1>0, <1>2, <2>1
  <2>2. CASE \E m \in DOMAIN h : body'[i][k] = h[m]
    BY <1>0, <1>1, <2>2
  <2>. QED BY <2>1, <2>2 DEF Grows, h
<1>5. ASSUME NEW q \in Procs PROVE Queue(q)'
  <2>1. \A m \in DOMAIN Pending(q) : Pending(q)[m][1].no <= lines + 1
    BY <1>0, PendingOf, HalvesOf DEF ContentInv, Queue
  <2>2. \A i \in DOMAIN body' : \A k \in DOMAIN body'[i], m \in DOMAIN Pending(q) :
          By(body'[i][k]) = q => Key(body'[i][k]) < Key(Pending(q)[m])
    BY <1>0, <1>4 DEF ContentInv, Queue
  <2>. QED BY <2>1, <2>2 DEF ContentInv, Queue
<1>6. \A x \in Seen : x.no <= lines + 1
  BY <1>0, SeenOf DEF ContentInv
<1>. QED BY <1>3, <1>4, <1>5, <1>6 DEF ContentInv

(* tail reads a line, which ends where it has read to.                     *)
LEMMA ContentRead ==
  ASSUME LogType, TailType, ContentInv, NEW i \in DOMAIN body, NEW k \in DOMAIN body[i], body[i][k][2] = 2,
         Seen' \subseteq Seen \cup {body[i][k][1]}, UNCHANGED <<body, lines>>, \A q \in Procs : Pending(q)' = Pending(q)
  PROVE  ContentInv'
<1> DEFINE l == body[i][k][1]
<1>0. body[i][k] \in Half /\ l.no \in Int /\ Key(body[i][k]) = 2 * l.no + 2
  BY WrittenHalves, KeyOf
<1>1. ASSUME NEW q \in Procs PROVE Queue(q)'
  <2>1. ASSUME NEW m \in DOMAIN Pending(q), l.by = q PROVE l.no < Pending(q)[m][1].no
    <3>1. Key(body[i][k]) < Key(Pending(q)[m])
      BY <2>1 DEF ContentInv, Queue, By
    <3>2. Pending(q)[m] \in Half
      BY PendingOf, HalvesOf
    <3>. QED BY <1>0, <3>1, <3>2, HalfType DEF Key
  <2>2. \A x \in Seen' : \A m \in DOMAIN Pending(q) : x.by = q => x.no < Pending(q)[m][1].no
    BY <2>1 DEF ContentInv, Queue
  <2>. QED BY <2>2 DEF ContentInv, Queue
<1>2. \A x \in Seen' : x.no <= lines
  BY DEF ContentInv
<1>. QED BY <1>1, <1>2 DEF ContentInv, HalvesInv

-----------------------------------------------------------------------------
(* What a reader of s, in the state r, has yet to read.                    *)
Ahead(s, r, i, k) ==
  \/ r.file # Absent /\ (i > r.file \/ (i = r.file /\ k > r.off))
  \/ r.at = "open" /\ path[<<s, 0>>] # Absent /\ i >= path[<<s, 0>>]
Sound(r) ==
  /\ r.at \in {"read", "sleep"} => r.file # Absent
  /\ r.at = "open" => r.file = Absent
  /\ r.file # Absent => r.off <= Len(body[r.file])

(* Of the lines of one author, those that tail has read are earlier than   *)
(* those it has yet to.                                                    *)
UnreadInv ==
  \A s \in Sources :
    /\ Sound(reader[s])
    /\ \A i \in DOMAIN body : \A k \in DOMAIN body[i] :
         (By(body[i][k]) = Plugin <=> s = "plugin") /\ Ahead(s, reader[s], i, k) =>
           \A x \in Seen : x.by = By(body[i][k]) => x.no < body[i][k][1].no

(* And those it has printed are earlier than those in its window, and they *)
(* than those on their way there.                                          *)
Precedes(v, w) == \A i \in DOMAIN v, j \in DOMAIN w : v[i].by = w[j].by => v[i].no < w[j].no
SeenInv ==
  /\ Rising(printed) /\ Rising(window) /\ Rising(chan)
  /\ Precedes(printed, window) /\ Precedes(printed, chan) /\ Precedes(window, chan)

TailInv == TailType /\ UnreadInv /\ SeenInv

LEMMA TypesGrow ==
  ASSUME TailType, Len(body') \in Nat, Len(body) \in Nat, Len(body) <= Len(body'), UNCHANGED tail
  PROVE  TailType'
<1>1. 0..Len(body) \subseteq 0..Len(body')
  OBVIOUS
<1> DEFINE Recs(n) == [at : {"open", "read", "sleep", "done"}, file : 0..n, off : Nat, partial : Seq(Half)]
<1>2. Recs(Len(body)) \subseteq Recs(Len(body'))
  BY <1>1
<1>3. reader \in [Sources -> Recs(Len(body'))]
  BY <1>2 DEF TailType
<1>. QED BY <1>3 DEF TailType, tail

(* The readers stay while the files grow and their paths change.           *)
LEMMA UnreadGrows ==
  ASSUME LogType, TailType, UnreadInv, UNCHANGED reader, Seen' \subseteq Seen,
         NEW f, NEW s \in Seq(Half), UNCHANGED body \/ Grows(f, s),
         \A l \in DOMAIN s : \A x \in Seen : x.by = By(s[l]) => x.no < s[l][1].no,
         \A r \in Sources : \/ path'[<<r, 0>>] \in {path[<<r, 0>>], Absent}
                            \/ path[<<r, 0>>] = Absent /\ path'[<<r, 0>>] = Created
  PROVE  UnreadInv'
<1>0. Absent = 0 /\ Len(body) \in Nat /\ DOMAIN body = 1..Len(body) /\ Created = Len(body) + 1
  BY BodyOf DEF LogType, Absent, Created
<1> SUFFICES ASSUME NEW r \in Sources
             PROVE  /\ Sound(reader[r])'
                    /\ \A i \in DOMAIN body' : \A k \in DOMAIN body'[i] :
                         (By(body'[i][k]) = Plugin <=> r = "plugin") /\ Ahead(r, reader[r], i, k)' =>
                           \A x \in Seen : x.by = By(body'[i][k]) => x.no < body'[i][k][1].no
  BY DEF UnreadInv
<1>1. Sound(reader[r])'
  <2>1. Sound(reader[r]) /\ reader'[r] = reader[r] /\ reader[r].off \in Nat
    BY DEF UnreadInv, TailType
  <2>2. ASSUME reader[r].file # Absent PROVE reader[r].off <= Len(body'[reader[r].file])
    <3>1. reader[r].file \in DOMAIN body /\ reader[r].off <= Len(body[reader[r].file])
      BY <1>0, <2>1, <2>2 DEF TailType, Sound
    <3>2. CASE UNCHANGED body
      BY <3>1, <3>2
    <3>3. CASE Grows(f, s)
      <4>1. Len(body[reader[r].file]) <= Len(body'[reader[r].file]) /\ reader[r].file \in DOMAIN body'
        BY <3>1, <3>3 DEF Grows
      <4>2. Len(body[reader[r].file]) \in Nat
        BY <3>1, BodyOf DEF LogType
      <4>3. Len(body'[reader[r].file]) \in Nat
        BY <3>3, <4>1, BodyOf DEF Grows
      <4>. QED BY <2>1, <3>1, <4>1, <4>2, <4>3
    <3>. QED BY <3>2, <3>3
  <2>. QED BY <2>1, <2>2 DEF Sound
<1>2. ASSUME NEW i \in DOMAIN body', NEW k \in DOMAIN body'[i], By(body'[i][k]) = Plugin <=> r = "plugin",
             Ahead(r, reader[r], i, k)', NEW x \in Seen, x.by = By(body'[i][k])
      PROVE  x.no < body'[i][k][1].no
  <2>1. CASE i \in DOMAIN body /\ k \in DOMAIN body[i] /\ body'[i][k] = body[i][k]
    <3>1. i <= Len(body)
      BY <1>0, <2>1
    <3>2. Ahead(r, reader[r], i, k)
      BY <1>0, <1>2, <2>1, <3>1 DEF Ahead
    <3>. QED BY <1>2, <2>1, <3>2 DEF UnreadInv
  <2>2. CASE \E l \in DOMAIN s : body'[i][k] = s[l]
    BY <1>2, <2>2
  <2>. QED BY <2>1, <2>2 DEF Grows
<1>. QED BY <1>1, <1>2

LEMMA ReadersPlaced ==
  ASSUME LogType, TailType, PlacesInv, NEW s \in Sources, NEW r,
         reader' = [reader EXCEPT ![s] = r],
         r.file \in {reader[s].file, Absent} \/ (r.file = path[<<s, 0>>] /\ r.file # Absent),
         UNCHANGED <<path, body, file>>
  PROVE  PlacesInv'
<1>0. <<s, 0>> \in Paths /\ path[<<s, 0>>] \in Nat /\ Absent = 0
  BY PathsOf, FileOf
<1>1. reader'[s] = r /\ \A t \in Sources \ {s} : reader'[t] = reader[t]
  BY DEF TailType
<1>2. PICK K : KindsOf(K)
  BY DEF PlacesInv, KindsInv
<1>3. KindsOf(K)'
  <2>1. r.file # Absent => K[r.file] = s
    BY <1>0, <1>2 DEF KindsOf
  <2>. QED BY <1>1, <1>2, <2>1 DEF KindsOf
<1>4. AgesInv'
  <2>1. path[<<s, 0>>] # Absent => r.file <= path[<<s, 0>>]
    BY <1>0 DEF PlacesInv, AgesInv
  <2>. QED BY <1>1, <2>1 DEF PlacesInv, AgesInv
<1>. QED BY <1>3, <1>4 DEF PlacesInv, PathsInv, Generation, KindsInv

(* A reader goes on without a line read.                                   *)
LEMMA ReaderTurns ==
  ASSUME LogType, TailInv, PlacesInv, ContentInv, NEW s \in Sources, NEW r,
         r \in [at : {"open", "read", "sleep", "done"}, file : 0..Len(body), off : Nat, partial : Seq(Half)],
         reader' = [reader EXCEPT ![s] = r],
         r.file \in {reader[s].file, Absent} \/ (r.file = path[<<s, 0>>] /\ r.file # Absent),
         Sound(r), \A i \in DOMAIN body : \A k \in DOMAIN body[i] : Ahead(s, r, i, k) => Ahead(s, reader[s], i, k),
         UNCHANGED <<chan, path, body, writers, window, printed, mode, lines>>
  PROVE  TailInv' /\ PlacesInv' /\ ContentInv'
<1>1. reader'[s] = r /\ \A t \in Sources \ {s} : reader'[t] = reader[t]
  BY DEF TailInv, TailType
<1>2. TailType'
  BY DEF TailInv, TailType
<1>3. UnreadInv'
  <2>1. Seen' = Seen
    BY DEF Seen
  <2>2. ASSUME NEW t \in Sources
        PROVE  /\ Sound(reader[t])'
               /\ \A i \in DOMAIN body : \A k \in DOMAIN body[i] : Ahead(t, reader[t], i, k)' => Ahead(t, reader[t], i, k)
    <3>1. CASE t = s
      BY <1>1, <3>1 DEF Sound, Ahead
    <3>2. CASE t # s
      BY <1>1, <2>2, <3>2 DEF Sound, Ahead, TailInv, UnreadInv
    <3>. QED BY <3>1, <3>2
  <2>. QED BY <2>1, <2>2 DEF TailInv, UnreadInv
<1>4. SeenInv'
  BY DEF TailInv, SeenInv, Rising, Precedes
<1>5. PlacesInv'
  BY ReadersPlaced DEF TailInv, writers
<1>6. ContentInv'
  <2>1. Seen' = Seen
    BY DEF Seen
  <2>2. \A q \in Procs : Pending(q)' = Pending(q)
    BY DEF Pending, writers
  <2>. QED BY <2>1, <2>2, ContentKept
<1>. QED BY <1>2, <1>3, <1>4, <1>5, <1>6 DEF TailInv

LEMMA SeenAppended ==
  ASSUME TailType, SeenInv, NEW l \in Logged, \A x \in Seen : x.by = l.by => x.no < l.no,
         chan' = Append(chan, l), UNCHANGED <<window, printed>>
  PROVE  SeenInv' /\ chan' \in Seq(Logged) /\ Seen' = Seen \cup {l}
<1>1. /\ chan' \in Seq(Logged) /\ DOMAIN chan = 1..Len(chan) /\ DOMAIN chan' = 1..(Len(chan) + 1) /\ Len(chan) \in Nat
      /\ \A i \in 1..Len(chan) : chan'[i] = chan[i]
      /\ chan'[Len(chan) + 1] = l
  <2>1. chan \in Seq(Logged)
    BY DEF TailType
  <2>2. chan' \in Seq(Logged) /\ Len(chan') = Len(chan) + 1 /\ chan'[Len(chan) + 1] = l /\ \A i \in 1..Len(chan) : chan'[i] = chan[i]
    BY <2>1, AppendProperties
  <2>3. DOMAIN chan = 1..Len(chan) /\ Len(chan) \in Nat /\ DOMAIN chan' = 1..Len(chan')
    BY <2>1, <2>2, LenProperties
  <2>. QED BY <2>2, <2>3
<1>2. \A j \in DOMAIN chan' : (j \in DOMAIN chan /\ chan'[j] = chan[j]) \/ (j = Len(chan) + 1 /\ chan'[j] = l)
  BY <1>1
<1>3. /\ \A i \in DOMAIN chan : chan[i] \in Seen
      /\ \A i \in DOMAIN window : window[i] \in Seen
      /\ \A i \in DOMAIN printed : printed[i] \in Seen
  BY DEF Seen, Range
<1>4. Rising(chan')
  <2> SUFFICES ASSUME NEW i \in DOMAIN chan', NEW j \in DOMAIN chan', i < j, chan'[i].by = chan'[j].by
               PROVE  chan'[i].no < chan'[j].no
    BY DEF Rising
  <2>1. i \in DOMAIN chan /\ chan'[i] = chan[i]
    BY <1>1, <1>2
  <2>2. CASE j \in DOMAIN chan /\ chan'[j] = chan[j]
    BY <2>1, <2>2 DEF SeenInv, Rising
  <2>3. CASE chan'[j] = l
    BY <1>3, <2>1, <2>3
  <2>. QED BY <1>2, <2>2, <2>3
<1>5. Precedes(printed, chan') /\ Precedes(window, chan')
  BY <1>2, <1>3 DEF SeenInv, Precedes
<1>6. Seen' = Seen \cup {l}
  <2>1. Range(chan') = Range(chan) \cup {l}
    <3>1. \A j \in DOMAIN chan' : chan'[j] \in Range(chan) \cup {l}
      BY <1>2 DEF Range
    <3>2. \A j \in DOMAIN chan : chan[j] \in Range(chan')
      BY <1>1 DEF Range
    <3>3. l \in Range(chan')
      BY <1>1 DEF Range
    <3>. QED BY <3>1, <3>2, <3>3 DEF Range
  <2>. QED BY <2>1 DEF Seen
<1>. QED BY <1>1, <1>4, <1>5, <1>6 DEF SeenInv

-----------------------------------------------------------------------------
LEMMA ReaderOf ==
  ASSUME LogType, TailInv, NEW s \in Sources
  PROVE  /\ reader[s] \in [at : {"open", "read", "sleep", "done"}, file : 0..Len(body), off : Nat, partial : Seq(Half)]
         /\ Sound(reader[s]) /\ (reader[s].file # Absent => reader[s].file \in DOMAIN body)
         /\ Closed \in [at : {"open", "read", "sleep", "done"}, file : 0..Len(body), off : Nat, partial : Seq(Half)]
         /\ Sound(Closed) /\ Closed.file = Absent /\ Closed.at = "open"
<1>1. <<>> \in Seq(Half)
  BY EmptySeq
<1>2. Absent = 0 /\ Len(body) \in Nat /\ DOMAIN body = 1..Len(body)
  BY FileOf
<1>. QED BY <1>1, <1>2 DEF Closed, Sound, TailInv, TailType, UnreadInv

Rest == <<path, body, writers, window, printed, mode, lines>>

LEMMA FileOpened ==
  ASSUME LogType, TailInv, PlacesInv, ContentInv, NEW s \in Sources, OpenFile(s) PROVE TailInv' /\ PlacesInv' /\ ContentInv'
<1> DEFINE Recs == [at : {"open", "read", "sleep", "done"}, file : 0..Len(body), off : Nat, partial : Seq(Half)]
<1>0. /\ Absent = 0 /\ Len(body) \in Nat /\ path[<<s, 0>>] \in 0..Len(body) /\ <<>> \in Seq(Half)
      /\ \A i \in DOMAIN body : i \in Nat /\ \A k \in DOMAIN body[i] : k \in Nat /\ k > 0
      /\ \A i \in DOMAIN body : Len(body[i]) \in Nat
      /\ (path[<<s, 0>>] # Absent => path[<<s, 0>>] \in DOMAIN body)
  <2>1. /\ Absent = 0 /\ Len(body) \in Nat /\ path[<<s, 0>>] \in 0..Len(body)
        /\ (path[<<s, 0>>] # Absent => path[<<s, 0>>] \in DOMAIN body)
    BY FileOf, PathsOf
  <2>2. /\ DOMAIN body = 1..Len(body)
        /\ \A i \in DOMAIN body : DOMAIN body[i] = 1..Len(body[i]) /\ Len(body[i]) \in Nat
    BY BodyOf DEF LogType
  <2>3. <<>> \in Seq(Half)
    BY EmptySeq
  <2>. QED BY <2>1, <2>2, <2>3
<1>1. reader[s].at = "open" /\ UNCHANGED chan /\ UNCHANGED Rest
  BY DEF OpenFile, Reads, Rest
<1>2. CASE path[<<s, 0>>] = Absent
  <2> DEFINE r == [Closed EXCEPT !.at = "done"]
  <2>1. r \in Recs /\ r.file = Absent /\ Sound(r) /\ r.at = "done"
    BY ReaderOf DEF Sound, Closed
  <2>2. reader' = [reader EXCEPT ![s] = r]
    BY <1>2 DEF OpenFile, Set, Done
  <2> HIDE DEF r
  <2>3. \A i \in DOMAIN body : \A k \in DOMAIN body[i] : ~Ahead(s, r, i, k)
    BY <2>1 DEF Ahead
  <2>. QED BY <1>1, <2>1, <2>2, <2>3, ReaderTurns DEF Rest
<1>3. CASE path[<<s, 0>>] # Absent
  <2> DEFINE r == [at |-> "read", file |-> path[<<s, 0>>], off |-> 0, partial |-> <<>>]
  <2>1. r \in Recs /\ r.file = path[<<s, 0>>] /\ r.off = 0 /\ Sound(r) /\ r.at = "read"
    BY <1>0, <1>3 DEF Sound
  <2>2. reader' = [reader EXCEPT ![s] = r]
    BY <1>3 DEF OpenFile, Set
  <2> HIDE DEF r
  <2>3. ASSUME NEW i \in DOMAIN body, NEW k \in DOMAIN body[i], Ahead(s, r, i, k) PROVE Ahead(s, reader[s], i, k)
    BY <1>0, <1>1, <1>3, <2>1, <2>3 DEF Ahead
  <2>. QED BY <1>1, <1>3, <2>1, <2>2, <2>3, ReaderTurns DEF Rest
<1>. QED BY <1>2, <1>3

LEMMA Woken ==
  ASSUME LogType, TailInv, PlacesInv, ContentInv, NEW s \in Sources, Wake(s) PROVE TailInv' /\ PlacesInv' /\ ContentInv'
<1>0. /\ Absent = 0 /\ Len(body) \in Nat /\ path[<<s, 0>>] \in Nat /\ \A i \in DOMAIN body : i \in Nat
  BY FileOf, PathsOf, BodyOf DEF LogType
<1>1. reader[s].at = "sleep" /\ UNCHANGED chan /\ UNCHANGED Rest
  BY DEF Wake, Reads, Rest
<1>2. reader[s].file # Absent /\ reader[s].file \in Nat
  BY <1>1, ReaderOf, FileOf DEF Sound
<1>3. CASE Rotated(s)
  <2>1. reader' = [reader EXCEPT ![s] = Closed]
    BY <1>3 DEF Wake, Set
  <2>2. ASSUME NEW i \in DOMAIN body, NEW k \in DOMAIN body[i], Ahead(s, Closed, i, k) PROVE Ahead(s, reader[s], i, k)
    <3>1. path[<<s, 0>>] # Absent /\ i >= path[<<s, 0>>]
      BY <2>2, ReaderOf DEF Ahead
    <3>2. reader[s].file < path[<<s, 0>>]
      BY <1>0, <1>2, <1>3, <3>1 DEF PlacesInv, AgesInv, Rotated
    <3>. QED BY <1>0, <1>2, <3>1, <3>2 DEF Ahead
  <2>. QED BY <1>1, <2>1, <2>2, ReaderOf, ReaderTurns DEF Rest
<1>4. CASE ~Rotated(s)
  <2> DEFINE r == [reader[s] EXCEPT !.at = "read"]
  <2>1. reader' = [reader EXCEPT ![s] = r]
    BY <1>4 DEF Wake, Set
  <2>2. /\ r \in [at : {"open", "read", "sleep", "done"}, file : 0..Len(body), off : Nat, partial : Seq(Half)]
        /\ r.at = "read" /\ r.file = reader[s].file /\ r.off = reader[s].off
    BY ReaderOf
  <2>3. Sound(r)
    BY <1>2, <2>2, ReaderOf DEF Sound
  <2> HIDE DEF r
  <2>4. \A i \in DOMAIN body : \A k \in DOMAIN body[i] : Ahead(s, r, i, k) => Ahead(s, reader[s], i, k)
    BY <2>2 DEF Ahead
  <2>. QED BY <1>1, <2>1, <2>2, <2>3, <2>4, ReaderTurns DEF Rest
<1>. QED BY <1>3, <1>4

(* A reader that is done holds no file and has nothing ahead of it.        *)
LEMMA ReaderDone ==
  ASSUME LogType, TailInv, PlacesInv, ContentInv, NEW s \in Sources, Set(s, Done), UNCHANGED chan, UNCHANGED Rest
  PROVE  TailInv' /\ PlacesInv' /\ ContentInv'
<1> DEFINE r == Done
<1>1. /\ r \in [at : {"open", "read", "sleep", "done"}, file : 0..Len(body), off : Nat, partial : Seq(Half)]
      /\ r.file = Absent /\ Sound(r) /\ r.at = "done"
  BY ReaderOf DEF Sound, Closed, Done
<1>2. reader' = [reader EXCEPT ![s] = r]
  BY DEF Set
<1> HIDE DEF r
<1>3. \A i \in DOMAIN body : \A k \in DOMAIN body[i] : ~Ahead(s, r, i, k)
  BY <1>1 DEF Ahead
<1>. QED BY <1>1, <1>2, <1>3, ReaderTurns DEF Rest

LEMMA ReaderEnded ==
  ASSUME LogType, TailInv, PlacesInv, ContentInv, NEW s \in Sources, ReaderEnds(s) PROVE TailInv' /\ PlacesInv' /\ ContentInv'
<1>1. Set(s, Done) /\ UNCHANGED chan /\ UNCHANGED Rest
  BY DEF ReaderEnds, Reads, Rest
<1>. QED BY <1>1, ReaderDone

(* A line that is whole is the one that ends where it has been read to.    *)
LEMMA WholeEndsHere ==
  ASSUME NEW b \in Seq(Half), NEW partial \in Seq(Half), NEW off \in Nat, NEW end \in (off + 1)..Len(b),
         Whole(partial \o SubSeq(b, off + 1, end))
  PROVE  (partial \o SubSeq(b, off + 1, end))[1][1] = b[end][1]
<1> DEFINE t == SubSeq(b, off + 1, end)
           n == end - off
<1>1. Len(b) \in Nat /\ \A i \in (off + 1)..end : b[i] \in Half
  BY HalvesOf
<1>2. end \in Int /\ off + 1 \in Int /\ off + 1 <= end
  BY <1>1
<1>3. t \in Seq(Half) /\ Len(t) = n /\ \A i \in 1..n : t[i] = b[off + 1 + i - 1]
  <2>1. /\ SubSeq(b, off + 1, end) \in Seq(Half)
        /\ Len(SubSeq(b, off + 1, end)) = IF off + 1 <= end THEN end - (off + 1) + 1 ELSE 0
        /\ \A i \in 1..(end - (off + 1) + 1) : SubSeq(b, off + 1, end)[i] = b[off + 1 + i - 1]
    BY <1>1, <1>2, SubSeqProperties
  <2>. QED BY <1>2, <2>1
<1>4. n \in 1..n /\ off + 1 + n - 1 = end /\ n \in Nat
  BY <1>2
<1>5. t[n] = b[end]
  BY <1>3, <1>4
<1> HIDE DEF t
<1>6. Len(partial) \in Nat /\ Len(partial \o t) = Len(partial) + n /\ (partial \o t)[Len(partial) + n] = t[n]
  <2>1. Len(partial) \in Nat
    BY HalvesOf
  <2>2. DOMAIN t = 1..Len(t)
    BY <1>3, LenProperties
  <2>3. n \in DOMAIN t
    BY <1>3, <1>4, <2>2
  <2>4. Len(partial \o t) = Len(partial) + Len(t)
    BY <1>3, Concatenated
  <2>5. (partial \o t)[Len(partial) + n] = t[n]
    BY <1>3, <2>3, Concatenated
  <2>. QED BY <1>3, <2>1, <2>4, <2>5
<1>7. Len(partial \o t) = 2 /\ (partial \o t)[1][1] = (partial \o t)[2][1]
  BY DEF Whole, t
<1>. QED BY <1>5, <1>6, <1>7 DEF t

LEMMA LineRead ==
  ASSUME LogType, TailInv, PlacesInv, ContentInv, NEW s \in Sources, ReadLine(s) PROVE TailInv' /\ PlacesInv' /\ ContentInv'
<1> DEFINE r == reader[s]
           f == r.file
           ends == {k \in (r.off + 1)..Size(f) : Newline(f, k)}
           UpTo(k) == r.partial \o SubSeq(body[f], r.off + 1, k)
           Recs == [at : {"open", "read", "sleep", "done"}, file : 0..Len(body), off : Nat, partial : Seq(Half)]
<1>0. /\ r.at = "read" /\ f # Absent /\ f \in DOMAIN body /\ Sound(r) /\ r \in Recs /\ body[f] \in Seq(Half)
      /\ r.off \in Nat /\ r.off <= Len(body[f]) /\ Len(body[f]) \in Nat /\ DOMAIN body[f] = 1..Len(body[f])
      /\ \A k \in DOMAIN body[f] : body[f][k] \in Half
  <2>1. r.at = "read"
    BY DEF ReadLine
  <2>. QED BY <2>1, ReaderOf, BodyOf DEF LogType, Sound
<1>1. UNCHANGED Rest
  BY DEF ReadLine, Reads, Rest
<1>2. CASE ends = {}
  <2> DEFINE u == [r EXCEPT !.at = AtEOF, !.off = Size(f), !.partial = UpTo(Size(f))]
  <2>1. reader' = [reader EXCEPT ![s] = u] /\ UNCHANGED chan
    BY <1>2 DEF ReadLine, Set
  <2>2. UpTo(Size(f)) \in Seq(Half)
    <3>1. SubSeq(body[f], r.off + 1, Size(f)) \in Seq(Half)
      BY <1>0, SubSeqProperties DEF Size
    <3>. QED BY <1>0, <3>1, Concatenated
  <2>3. u \in Recs /\ u.at \in {"sleep", "done"} /\ u.file = f /\ u.off = Len(body[f])
    <3> DEFINE w == UpTo(Size(f))
               a == AtEOF
               n == Size(f)
    <3>1. a \in {"sleep", "done"} /\ n = Len(body[f]) /\ n \in Nat /\ w \in Seq(Half)
      BY <1>0, <2>2 DEF Size, AtEOF
    <3> HIDE DEF a, n, w
    <3>2. u = [r EXCEPT !.at = a, !.off = n, !.partial = w]
      BY DEF a, n, w
    <3>. QED BY <1>0, <3>1, <3>2
  <2> HIDE DEF u
  <2>4. Sound(u)
    BY <1>0, <2>3 DEF Sound
  <2>5. ASSUME NEW i \in DOMAIN body, NEW k \in DOMAIN body[i], Ahead(s, u, i, k) PROVE Ahead(s, r, i, k)
    <3>1. i > f \/ (i = f /\ k > Len(body[f]))
      BY <2>3, <2>5 DEF Ahead
    <3>2. i > f
      BY <1>0, <3>1
    <3>. QED BY <1>0, <3>2 DEF Ahead
  <2>. QED BY <1>0, <1>1, <2>1, <2>3, <2>4, <2>5, ReaderTurns DEF Rest
<1>3. ASSUME NEW end \in ends, reader' = [reader EXCEPT ![s] = [r EXCEPT !.off = end, !.partial = <<>>]],
             chan' = IF Whole(UpTo(end)) THEN Append(chan, UpTo(end)[1][1]) ELSE chan
      PROVE  TailInv' /\ PlacesInv' /\ ContentInv'
  <2> DEFINE u == [r EXCEPT !.off = end, !.partial = <<>>]
             l == body[f][end][1]
  <2>1. end \in (r.off + 1)..Len(body[f]) /\ end \in DOMAIN body[f] /\ body[f][end][2] = 2
    BY <1>0 DEF Size, Newline
  <2>2. u \in Recs /\ u.at = "read" /\ u.file = f /\ u.off = end
    <3>1. <<>> \in Seq(Half) /\ end \in Nat
      BY <1>0, <2>1, EmptySeq
    <3>. QED BY <1>0, <3>1
  <2>3. reader' = [reader EXCEPT ![s] = u]
    BY <1>3
  <2> HIDE DEF u
  <2>4. Sound(u) /\ \A i \in DOMAIN body : \A k \in DOMAIN body[i] : Ahead(s, u, i, k) => Ahead(s, r, i, k)
    BY <1>0, <2>1, <2>2, BodyOf DEF Sound, Ahead, LogType
  <2>5. CASE UNCHANGED chan
    BY <1>0, <1>1, <2>2, <2>3, <2>4, <2>5, ReaderTurns DEF Rest
  <2>6. CASE chan' = Append(chan, l)
    <3>1. l \in Logged /\ l.by = By(body[f][end]) /\ l.no \in Int
      BY <1>0, <2>1, HalfType DEF By
    <3>2. l.by = Plugin <=> s = "plugin"
      <4>1. PICK K : KindsOf(K)
        BY DEF PlacesInv, KindsInv
      <4>2. K[f] = s
        BY <1>0, <4>1 DEF KindsOf
      <4>. QED BY <1>0, <2>1, <3>1, <4>1, <4>2 DEF KindsOf
    <3>3. \A x \in Seen : x.by = l.by => x.no < l.no
      <4>1. Ahead(s, r, f, end)
        BY <1>0, <2>1 DEF Ahead
      <4>. QED BY <1>0, <2>1, <3>1, <3>2, <4>1 DEF TailInv, UnreadInv
    <3>4. SeenInv' /\ chan' \in Seq(Logged) /\ Seen' = Seen \cup {l}
      BY <1>1, <2>6, <3>1, <3>3, SeenAppended DEF Rest, TailInv
    <3>5. TailType'
      BY <1>1, <2>2, <2>3, <3>4 DEF TailType, TailInv, Rest
    <3>6. reader'[s] = u /\ \A t \in Sources \ {s} : reader'[t] = reader[t]
      BY <2>3 DEF TailInv, TailType
    <3>7. \A t \in Sources : Sound(reader[t])'
      BY <1>1, <2>4, <3>6 DEF Sound, TailInv, UnreadInv, Rest
    <3>8. ASSUME NEW t \in Sources, NEW i \in DOMAIN body, NEW k \in DOMAIN body[i],
                 By(body[i][k]) = Plugin <=> t = "plugin", Ahead(t, reader[t], i, k)', NEW x \in Seen \cup {l}, x.by = By(body[i][k])
          PROVE  x.no < body[i][k][1].no
      <4>1. Ahead(t, reader[t], i, k)
        BY <1>1, <2>4, <3>6, <3>8 DEF Ahead, Rest
      <4>2. CASE x \in Seen
        BY <3>8, <4>1, <4>2 DEF TailInv, UnreadInv
      <4>3. CASE x = l
        <5>1. t = s
          BY <3>2, <3>8, <4>3 DEF Sources
        <5>2. i > f \/ (i = f /\ k > end)
          BY <2>2, <3>6, <3>8, <5>1 DEF Ahead
        <5>3. Key(body[f][end]) < Key(body[i][k])
          BY <1>0, <2>1, <3>1, <3>8, <4>3, <5>2, BodyOf DEF ContentInv, HalvesInv, LogType
        <5>4. Key(body[f][end]) = 2 * l.no + 2 /\ l.no \in Int
          BY <1>0, <2>1, KeyOf
        <5>5. body[i][k] \in Half
          BY WrittenHalves
        <5>. QED BY <4>3, <5>3, <5>4, <5>5, KeyOf
      <4>. QED BY <3>8, <4>2, <4>3
    <3>9. UnreadInv'
      BY <1>1, <3>4, <3>7, <3>8 DEF UnreadInv, Rest
    <3>10. PlacesInv'
      BY <1>1, <2>2, <2>3, ReadersPlaced DEF Rest, writers, TailInv
    <3>11. ContentInv'
      <4>1. \A q \in Procs : Pending(q)' = Pending(q)
        BY <1>1 DEF Pending, writers, Rest
      <4>2. UNCHANGED <<body, lines>>
        BY <1>1 DEF Rest
      <4>. QED BY <1>0, <2>1, <3>4, <4>1, <4>2, ContentRead DEF TailInv
    <3>. QED BY <3>4, <3>5, <3>9, <3>10, <3>11 DEF TailInv
  <2>7. CASE Whole(UpTo(end))
    <3>1. UpTo(end)[1][1] = l
      BY <1>0, <2>1, <2>7, WholeEndsHere
    <3>. QED BY <1>3, <2>6, <2>7, <3>1
  <2>. QED BY <1>3, <2>5, <2>7
<1>4. CASE Set(s, Done) /\ UNCHANGED chan
  BY <1>1, <1>4, ReaderDone
<1>5. \/ ends = {}
      \/ Set(s, Done) /\ UNCHANGED chan
      \/ \E end \in ends :
           /\ reader' = [reader EXCEPT ![s] = [r EXCEPT !.off = end, !.partial = <<>>]]
           /\ chan' = IF Whole(UpTo(end)) THEN Append(chan, UpTo(end)[1][1]) ELSE chan
  BY DEF ReadLine, Set
<1>. QED BY <1>2, <1>3, <1>4, <1>5

-----------------------------------------------------------------------------
(* Lines only move on, from the channel to the window and from there to    *)
(* what is printed.                                                        *)
LEMMA LinesMove ==
  ASSUME LogType, TailInv, PlacesInv, ContentInv, SeenInv', Seen' \subseteq Seen,
         {printed, window, chan}' \subseteq Seq(Logged), mode' \in [scene : Scenes, run : {"running", "cancelled", "over"}],
         UNCHANGED <<path, body, writers, reader, lines>>
  PROVE  TailInv' /\ PlacesInv' /\ ContentInv'
<1>1. TailType'
  BY DEF TailInv, TailType
<1>2. UnreadInv'
  <2>1. \A s \in Sources : Sound(reader[s])' /\ \A i, k : Ahead(s, reader[s], i, k)' => Ahead(s, reader[s], i, k)
    BY DEF TailInv, UnreadInv, Sound, Ahead
  <2>. QED BY <2>1 DEF TailInv, UnreadInv
<1>3. PlacesInv'
  BY DEF PlacesInv, PathsInv, KindsInv, KindsOf, AgesInv, Generation, writers
<1>4. ContentInv'
  <2>1. \A q \in Procs : Pending(q)' = Pending(q)
    BY DEF Pending, writers
  <2>. QED BY <2>1, ContentKept
<1>. QED BY <1>1, <1>2, <1>3, <1>4 DEF TailInv

LEMMA FirstAndRest ==
  ASSUME NEW w \in Seq(Logged), w # <<>>, Rising(w)
  PROVE  /\ Head(w) \in Logged /\ Head(w) \in Range(w) /\ Tail(w) \in Seq(Logged) /\ Range(Tail(w)) \subseteq Range(w)
         /\ Rising(Tail(w)) /\ \A k \in DOMAIN Tail(w) : Head(w).by = Tail(w)[k].by => Head(w).no < Tail(w)[k].no
<1>1. Len(w) \in Nat /\ Len(w) # 0 /\ DOMAIN w = 1..Len(w)
  BY EmptySeq, LenProperties
<1>2. Head(w) \in Logged /\ Tail(w) \in Seq(Logged) /\ Len(Tail(w)) = Len(w) - 1 /\ \A i \in 1..Len(Tail(w)) : Tail(w)[i] = w[i + 1]
  BY HeadTailProperties
<1>3. Head(w) = w[1] /\ 1 \in DOMAIN w
  BY <1>1
<1>4. DOMAIN Tail(w) = 1..Len(Tail(w))
  BY <1>2, LenProperties
<1>5. \A k \in DOMAIN Tail(w) : k \in Int /\ k > 0 /\ k + 1 \in DOMAIN w /\ Tail(w)[k] = w[k + 1]
  BY <1>1, <1>2, <1>4
<1>6. Range(Tail(w)) \subseteq Range(w) /\ Head(w) \in Range(w)
  BY <1>3, <1>5 DEF Range
<1>7. \A i, j \in DOMAIN Tail(w) : i < j => i + 1 < j + 1
  BY <1>5
<1>8. Rising(Tail(w))
  BY <1>5, <1>7 DEF Rising
<1>9. \A k \in DOMAIN Tail(w) : 1 < k + 1
  BY <1>5
<1>. QED BY <1>2, <1>3, <1>5, <1>6, <1>8, <1>9 DEF Rising

LEMMA AddedLine ==
  ASSUME NEW w \in Seq(Logged), NEW l \in Logged, Rising(w), \A i \in DOMAIN w : w[i].by = l.by => w[i].no < l.no
  PROVE  /\ Append(w, l) \in Seq(Logged) /\ Rising(Append(w, l)) /\ Range(Append(w, l)) = Range(w) \cup {l}
         /\ \A k \in DOMAIN Append(w, l) : (k \in DOMAIN w /\ Append(w, l)[k] = w[k]) \/ Append(w, l)[k] = l
<1> DEFINE v == Append(w, l)
<1>1. v \in Seq(Logged) /\ Len(v) = Len(w) + 1 /\ v[Len(w) + 1] = l /\ \A i \in 1..Len(w) : v[i] = w[i]
  BY AppendProperties
<1>2. DOMAIN w = 1..Len(w) /\ Len(w) \in Nat
  BY LenProperties
<1> HIDE DEF v
<1>3. DOMAIN v = 1..(Len(w) + 1)
  BY <1>1, LenProperties
<1>4. \A k \in DOMAIN v : (k \in DOMAIN w /\ v[k] = w[k]) \/ (k = Len(w) + 1 /\ v[k] = l)
  BY <1>1, <1>2, <1>3
<1>5. Rising(v)
  <2> SUFFICES ASSUME NEW i \in DOMAIN v, NEW j \in DOMAIN v, i < j, v[i].by = v[j].by PROVE v[i].no < v[j].no
    BY DEF Rising
  <2>1. i \in DOMAIN w /\ v[i] = w[i]
    BY <1>2, <1>3, <1>4
  <2>. QED BY <1>4, <2>1 DEF Rising
<1>6. Range(v) = Range(w) \cup {l}
  <2>1. \A k \in DOMAIN v : v[k] \in Range(w) \cup {l}
    BY <1>4 DEF Range
  <2>2. \A k \in DOMAIN w : k \in DOMAIN v /\ v[k] = w[k]
    BY <1>1, <1>2, <1>3
  <2>3. Len(w) + 1 \in DOMAIN v
    BY <1>2, <1>3
  <2>4. Range(v) \subseteq Range(w) \cup {l}
    BY <2>1 DEF Range
  <2>5. Range(w) \subseteq Range(v)
    BY <2>2 DEF Range
  <2>6. l \in Range(v)
    BY <1>1, <2>3 DEF Range
  <2>. QED BY <2>4, <2>5, <2>6
<1>. QED BY <1>1, <1>4, <1>5, <1>6 DEF v

(* One author's lines are in order from one sequence to the other.         *)
LEMMA PrecedesByRange ==
  ASSUME NEW v, NEW w
  PROVE  Precedes(v, w) <=> \A x \in Range(v), y \in Range(w) : x.by = y.by => x.no < y.no
BY DEF Precedes, Range

LEMMA SeenNow ==
  ASSUME Rising(printed'), Rising(window'), Rising(chan'),
         Precedes(printed', window'), Precedes(printed', chan'), Precedes(window', chan')
  PROVE  SeenInv'
BY DEF SeenInv, Rising, Precedes

LEMMA LineReceived ==
  ASSUME LogType, TailInv, PlacesInv, ContentInv, Receive PROVE TailInv' /\ PlacesInv' /\ ContentInv'
<1>0. /\ chan # <<>> /\ chan' = Tail(chan) /\ UNCHANGED <<printed, mode, path, body, writers, reader, lines>>
      /\ window' = IF Matches(Head(chan)) THEN Append(window, Head(chan)) ELSE window
  BY DEF Receive, Printing
<1>1. /\ printed \in Seq(Logged) /\ window \in Seq(Logged) /\ chan \in Seq(Logged)
      /\ mode' \in [scene : Scenes, run : {"running", "cancelled", "over"}]
  BY <1>0 DEF TailInv, TailType
<1>2. /\ Rising(printed) /\ Rising(window) /\ Rising(chan)
      /\ Precedes(printed, window) /\ Precedes(printed, chan) /\ Precedes(window, chan)
  BY DEF TailInv, SeenInv
<1> DEFINE l == Head(chan)
<1>3. /\ l \in Logged /\ l \in Range(chan) /\ chan' \in Seq(Logged) /\ Range(chan') \subseteq Range(chan) /\ Rising(chan')
      /\ \A k \in DOMAIN chan' : l.by = chan'[k].by => l.no < chan'[k].no
  BY <1>0, <1>1, <1>2, FirstAndRest
<1>4. \A y \in Range(chan') : l.by = y.by => l.no < y.no
  BY <1>3 DEF Range
<1> HIDE DEF l
<1>5. Rising(window') /\ window' \in Seq(Logged) /\ Range(window') \subseteq Range(window) \cup {l}
  <2>1. CASE window' = window
    BY <1>1, <1>2, <2>1
  <2>2. CASE window' = Append(window, l)
    <3>1. \A x \in Range(window) : x.by = l.by => x.no < l.no
      BY <1>2, <1>3, PrecedesByRange
    <3>2. \A i \in DOMAIN window : window[i].by = l.by => window[i].no < l.no
      BY <3>1 DEF Range
    <3>. QED BY <1>1, <1>2, <1>3, <2>2, <3>2, AddedLine
  <2>. QED BY <1>0, <2>1, <2>2 DEF l
<1>6. Precedes(printed, window') /\ Precedes(printed, chan') /\ Precedes(window', chan')
  <2>1. \A x \in Range(printed), y \in Range(window') : x.by = y.by => x.no < y.no
    BY <1>2, <1>3, <1>5, PrecedesByRange
  <2>2. \A x \in Range(printed), y \in Range(chan') : x.by = y.by => x.no < y.no
    BY <1>2, <1>3, PrecedesByRange
  <2>3. \A x \in Range(window'), y \in Range(chan') : x.by = y.by => x.no < y.no
    BY <1>2, <1>3, <1>4, <1>5, PrecedesByRange
  <2>. QED BY <2>1, <2>2, <2>3, PrecedesByRange
<1>7. SeenInv'
  <2>1. Rising(printed') /\ Precedes(printed', window') /\ Precedes(printed', chan')
    BY <1>0, <1>2, <1>6
  <2>. QED BY <1>3, <1>5, <1>6, <2>1, SeenNow
<1>8. Seen' \subseteq Seen
  BY <1>0, <1>3, <1>5 DEF Seen
<1>. QED BY <1>0, <1>1, <1>3, <1>5, <1>7, <1>8, LinesMove

LEMMA Sorted ==
  ASSUME TailInv
  PROVE  /\ ByTime(window) \in Seq(Logged) /\ Rising(ByTime(window)) /\ Range(ByTime(window)) \subseteq Range(window)
         /\ window # <<>> => ByTime(window) # <<>>
<1>1. window \in Seq(Logged) /\ Rising(window)
  BY DEF TailInv, TailType, SeenInv
<1>2. /\ ByTime(window) \in Seq(Logged) /\ Len(ByTime(window)) = Len(window) /\ DOMAIN ByTime(window) = DOMAIN window
      /\ \A k \in DOMAIN window : \E i \in DOMAIN window : ByTime(window)[k] = window[i]
      /\ Rising(ByTime(window))
  BY <1>1, SortedByTime
<1>3. window # <<>> => ByTime(window) # <<>>
  BY <1>1, <1>2, EmptySeq
<1>4. Range(ByTime(window)) \subseteq Range(window)
  BY <1>2 DEF Range
<1>. QED BY <1>2, <1>3, <1>4

LEMMA OldestPrinted ==
  ASSUME LogType, TailInv, PlacesInv, ContentInv, FlushOldest PROVE TailInv' /\ PlacesInv' /\ ContentInv'
<1> DEFINE w == ByTime(window)
<1>0. /\ window # <<>> /\ printed' = Append(printed, Head(w)) /\ window' = Tail(w)
      /\ UNCHANGED <<chan, mode, path, body, writers, reader, lines>>
  BY DEF FlushOldest, Printing
<1>1. /\ printed \in Seq(Logged) /\ window \in Seq(Logged) /\ chan \in Seq(Logged)
      /\ mode' \in [scene : Scenes, run : {"running", "cancelled", "over"}]
  BY <1>0 DEF TailInv, TailType
<1>2. /\ Rising(printed) /\ Rising(window) /\ Rising(chan)
      /\ Precedes(printed, window) /\ Precedes(printed, chan) /\ Precedes(window, chan)
  BY DEF TailInv, SeenInv
<1>3. w \in Seq(Logged) /\ Rising(w) /\ Range(w) \subseteq Range(window) /\ w # <<>>
  BY <1>0, Sorted
<1> HIDE DEF w
<1> DEFINE l == Head(w)
<1>4. /\ l \in Logged /\ l \in Range(w) /\ window' \in Seq(Logged) /\ Range(window') \subseteq Range(w) /\ Rising(window')
      /\ \A k \in DOMAIN window' : l.by = window'[k].by => l.no < window'[k].no
  BY <1>0, <1>3, FirstAndRest
<1>5. \A y \in Range(window') : l.by = y.by => l.no < y.no
  BY <1>4 DEF Range
<1> HIDE DEF l
<1>6. Rising(printed') /\ printed' \in Seq(Logged) /\ Range(printed') = Range(printed) \cup {l}
  <2>1. \A x \in Range(printed) : x.by = l.by => x.no < l.no
    BY <1>2, <1>3, <1>4, PrecedesByRange
  <2>2. \A i \in DOMAIN printed : printed[i].by = l.by => printed[i].no < l.no
    BY <2>1 DEF Range
  <2>3. printed' = Append(printed, l)
    BY <1>0 DEF l
  <2>. QED BY <1>1, <1>2, <1>4, <2>2, <2>3, AddedLine
<1>7. Precedes(printed', window') /\ Precedes(printed', chan) /\ Precedes(window', chan)
  <2>1. \A x \in Range(printed'), y \in Range(window') : x.by = y.by => x.no < y.no
    BY <1>2, <1>3, <1>4, <1>5, <1>6, PrecedesByRange
  <2>2. \A x \in Range(printed'), y \in Range(chan) : x.by = y.by => x.no < y.no
    BY <1>2, <1>3, <1>4, <1>6, PrecedesByRange
  <2>3. \A x \in Range(window'), y \in Range(chan) : x.by = y.by => x.no < y.no
    BY <1>2, <1>3, <1>4, PrecedesByRange
  <2>. QED BY <2>1, <2>2, <2>3, PrecedesByRange
<1>8. SeenInv'
  <2>1. Rising(chan') /\ Precedes(printed', chan') /\ Precedes(window', chan')
    BY <1>0, <1>2, <1>7
  <2>. QED BY <1>4, <1>6, <1>7, <2>1, SeenNow
<1>9. Seen' \subseteq Seen
  BY <1>0, <1>3, <1>4, <1>6 DEF Seen
<1>. QED BY <1>0, <1>1, <1>4, <1>6, <1>8, <1>9, LinesMove

LEMMA AllPrinted ==
  ASSUME LogType, TailInv, PlacesInv, ContentInv, FlushAll PROVE TailInv' /\ PlacesInv' /\ ContentInv'
<1> DEFINE w == ByTime(window)
<1>0. /\ printed' = printed \o w /\ window' = <<>> /\ mode' = [mode EXCEPT !.run = "over"]
      /\ UNCHANGED <<chan, path, body, writers, reader, lines>>
  BY DEF FlushAll, Printing
<1>1. /\ printed \in Seq(Logged) /\ window \in Seq(Logged) /\ chan \in Seq(Logged)
      /\ mode' \in [scene : Scenes, run : {"running", "cancelled", "over"}]
  BY <1>0 DEF TailInv, TailType
<1>2. /\ Rising(printed) /\ Rising(window) /\ Rising(chan)
      /\ Precedes(printed, window) /\ Precedes(printed, chan) /\ Precedes(window, chan)
  BY DEF TailInv, SeenInv
<1>3. w \in Seq(Logged) /\ Rising(w) /\ Range(w) \subseteq Range(window)
  BY Sorted
<1> HIDE DEF w
<1>4. /\ printed' \in Seq(Logged)
      /\ \A k \in DOMAIN printed' : \/ k \in DOMAIN printed /\ printed'[k] = printed[k]
                                    \/ \E l \in DOMAIN w : k = Len(printed) + l /\ printed'[k] = w[l]
  BY <1>0, <1>1, <1>3, Concatenated
<1>5. Range(printed') \subseteq Range(printed) \cup Range(w)
  BY <1>4 DEF Range
<1>6. Rising(printed')
  <2> SUFFICES ASSUME NEW i \in DOMAIN printed', NEW j \in DOMAIN printed', i < j, printed'[i].by = printed'[j].by
               PROVE  printed'[i].no < printed'[j].no
    BY DEF Rising
  <2>0. Len(printed) \in Nat /\ DOMAIN printed = 1..Len(printed) /\ Len(w) \in Nat /\ DOMAIN w = 1..Len(w)
    BY <1>1, <1>3, LenProperties
  <2>1. CASE i \in DOMAIN printed /\ j \in DOMAIN printed
    <3>1. printed'[i] = printed[i] /\ printed'[j] = printed[j]
      BY <1>4, <2>0, <2>1
    <3>. QED BY <1>2, <2>1, <3>1 DEF Rising
  <2>2. CASE i \in DOMAIN printed /\ j \notin DOMAIN printed
    <3>1. printed'[i] = printed[i] /\ printed[i] \in Range(printed)
      BY <1>4, <2>0, <2>2 DEF Range
    <3>2. printed'[j] \in Range(window)
      BY <1>3, <1>4, <2>2 DEF Range
    <3>. QED BY <1>2, <3>1, <3>2, PrecedesByRange
  <2>3. CASE i \notin DOMAIN printed
    <3>1. PICK m \in DOMAIN w : i = Len(printed) + m /\ printed'[i] = w[m]
      BY <1>4, <2>3
    <3>2. j \notin DOMAIN printed
      BY <2>0, <2>3, <3>1
    <3>3. PICK n \in DOMAIN w : j = Len(printed) + n /\ printed'[j] = w[n]
      BY <1>4, <3>2
    <3>4. m < n
      BY <2>0, <3>1, <3>3
    <3>. QED BY <1>3, <3>1, <3>3, <3>4 DEF Rising
  <2>. QED BY <2>1, <2>2, <2>3
<1>7. Range(window') = {} /\ window' \in Seq(Logged) /\ Rising(window')
  BY <1>0, EmptySeq DEF Range, Rising
<1>8. Precedes(printed', window') /\ Precedes(printed', chan) /\ Precedes(window', chan)
  <2>1. \A x \in Range(printed'), y \in Range(chan) : x.by = y.by => x.no < y.no
    BY <1>2, <1>3, <1>5, PrecedesByRange
  <2>. QED BY <1>7, <2>1, PrecedesByRange
<1>9. SeenInv'
  <2>1. Rising(chan') /\ Precedes(printed', chan') /\ Precedes(window', chan')
    BY <1>0, <1>2, <1>8
  <2>. QED BY <1>6, <1>7, <1>8, <2>1, SeenNow
<1>10. Seen' \subseteq Seen
  BY <1>0, <1>3, <1>5, <1>7 DEF Seen
<1>. QED BY <1>0, <1>1, <1>4, <1>7, <1>9, <1>10, LinesMove

LEMMA Interrupted ==
  ASSUME LogType, TailInv, PlacesInv, ContentInv, Interrupt PROVE TailInv' /\ PlacesInv' /\ ContentInv'
<1>0. mode' = [mode EXCEPT !.run = "cancelled"] /\ UNCHANGED <<printed, window, chan, path, body, writers, reader, lines>>
  BY DEF Interrupt, Printing
<1>1. /\ {printed, window, chan}' \subseteq Seq(Logged)
      /\ mode' \in [scene : Scenes, run : {"running", "cancelled", "over"}]
  BY <1>0 DEF TailInv, TailType
<1>2. SeenInv' /\ Seen' = Seen
  BY <1>0 DEF TailInv, SeenInv, Rising, Precedes, Seen
<1>. QED BY <1>0, <1>1, <1>2, LinesMove

-----------------------------------------------------------------------------
LogInv == LogType /\ TailInv /\ PlacesInv /\ ContentInv

\* p goes on at l, with b in its buffer and m its line.
Turns(p, l, b, m) == at' = [at EXCEPT ![p] = l] /\ buf' = [buf EXCEPT ![p] = b] /\ line' = [line EXCEPT ![p] = m]

LEMMA AsItWas ==
  ASSUME LogType, NEW p \in Procs
  PROVE  /\ at = [at EXCEPT ![p] = at[p]] /\ buf = [buf EXCEPT ![p] = buf[p]] /\ line = [line EXCEPT ![p] = line[p]]
         /\ at[p] \in Stages /\ buf[p] \in Seq(Half) /\ Len(buf[p]) <= BufferSize /\ line[p] \in Logged /\ NoLine \in Logged
         /\ <<>> \in Seq(Half) /\ Len(<<>>) <= BufferSize
<1>1. at = [at EXCEPT ![p] = at[p]] /\ buf = [buf EXCEPT ![p] = buf[p]] /\ line = [line EXCEPT ![p] = line[p]]
  BY DEF LogType
<1>2. at[p] \in Stages /\ buf[p] \in Seq(Half) /\ Len(buf[p]) <= BufferSize /\ line[p] \in Logged
  BY DEF LogType
<1>3. NoLine \in Logged
  BY DEF NoLine, Logged, Authors
<1>4. <<>> \in Seq(Half) /\ Len(<<>>) = 0 /\ BufferSize \in Nat
  BY EmptySeq, LogBounds
<1>. QED BY <1>1, <1>2, <1>3, <1>4

LEMMA PendingNow ==
  ASSUME LogType, NEW p \in Procs, NEW l, NEW b, NEW m, Turns(p, l, b, m)
  PROVE  /\ Pending(p)' = IF l \in Logging THEN b \o Halves(m) ELSE b
         /\ \A q \in Procs \ {p} : Pending(q)' = Pending(q)
<1>1. /\ at'[p] = l /\ buf'[p] = b /\ line'[p] = m
      /\ \A q \in Procs \ {p} : at'[q] = at[q] /\ buf'[q] = buf[q] /\ line'[q] = line[q]
  BY DEF LogType, Turns
<1>. QED BY <1>1 DEF Pending

LEMMA TypesTurn ==
  ASSUME LogType, body' \in Seq(Seq(Half)), path' \in [Paths -> 0..Len(body')], file' \in [Procs -> 0..Len(body')], lines' \in Nat,
         NEW p \in Procs, NEW l \in Stages, NEW b \in Seq(Half), NEW m \in Logged, Turns(p, l, b, m),
         Len(b) <= BufferSize, file'[p] = Absent => l \in MayBeShut /\ b = <<>>, \A q \in Procs \ {p} : file'[q] = file[q]
  PROVE  LogType'
<1>1. /\ at'[p] = l /\ buf'[p] = b /\ line'[p] = m
      /\ \A q \in Procs \ {p} : at'[q] = at[q] /\ buf'[q] = buf[q] /\ line'[q] = line[q]
      /\ at' \in [Procs -> Stages] /\ buf' \in [Procs -> Seq(Half)] /\ line' \in [Procs -> Logged]
  BY DEF LogType, Turns
<1>2. ASSUME NEW q \in Procs
      PROVE  /\ file'[q] = Absent => at'[q] \in MayBeShut /\ buf'[q] = <<>>
             /\ Len(buf'[q]) <= BufferSize
  BY <1>1 DEF LogType
<1>. QED BY <1>1, <1>2 DEF LogType

(* A process moves files, or nothing.                                      *)
LEMMA ProcessMoves ==
  ASSUME LogInv, NEW p \in Procs, NEW l \in Stages, at' = [at EXCEPT ![p] = l], at[p] \in Logging <=> l \in Logging,
         file[p] = Absent => l \in MayBeShut, UNCHANGED path \/ Moves, UNCHANGED <<body, file, buf, line, tail, lines>>
  PROVE  LogInv'
<1>1. LogType /\ TailType /\ TailInv /\ PlacesInv /\ ContentInv
  BY DEF LogInv, TailInv
<1>2. Turns(p, l, buf[p], line[p])
  BY <1>1, AsItWas DEF Turns
<1>3. /\ path' \in [Paths -> 0..Len(body)] /\ PlacesInv'
      /\ \A s \in Sources : path'[<<s, 0>>] \in {path[<<s, 0>>], Absent}
  <2>1. CASE UNCHANGED path
    <3>1. PlacesInv'
      BY <1>1, <2>1 DEF PlacesInv, PathsInv, KindsInv, KindsOf, AgesInv, Generation, tail
    <3>. QED BY <1>1, <2>1, <3>1 DEF LogType
  <2>2. CASE Moves
    BY <1>1, <2>2, PathsMove DEF tail
  <2>. QED BY <2>1, <2>2
<1>4. LogType'
  <2>1. file[p] = Absent => buf[p] = <<>>
    BY <1>1 DEF LogType
  <2>2. body' \in Seq(Seq(Half)) /\ path' \in [Paths -> 0..Len(body')] /\ file' \in [Procs -> 0..Len(body')] /\ lines' \in Nat
    BY <1>1, <1>3 DEF LogType
  <2>3. buf[p] \in Seq(Half) /\ line[p] \in Logged /\ Len(buf[p]) <= BufferSize
    BY <1>1, AsItWas
  <2>. QED BY <1>1, <1>2, <2>1, <2>2, <2>3, TypesTurn
<1>5. \A q \in Procs : Pending(q)' = Pending(q)
  BY <1>1, <1>2, PendingNow DEF Pending
<1>6. Seen' = Seen
  BY DEF Seen, tail
<1>7. ContentInv'
  BY <1>1, <1>5, <1>6, ContentKept
<1>8. UnreadInv'
  <2>1. <<>> \in Seq(Half) /\ DOMAIN <<>> = {}
    BY EmptySeq
  <2>. QED BY <1>1, <1>3, <1>6, <2>1, UnreadGrows DEF TailInv, tail
<1>9. TailType' /\ SeenInv'
  BY <1>1 DEF TailInv, TailType, SeenInv, Rising, Precedes, tail
<1>. QED BY <1>3, <1>4, <1>7, <1>8, <1>9 DEF LogInv, TailInv

LEMMA Growth ==
  ASSUME LogType, NEW f, NEW s, UNCHANGED body \/ Grows(f, s)
  PROVE  /\ body' \in Seq(Seq(Half)) /\ Len(body) \in Nat /\ Len(body') \in Nat /\ Len(body) <= Len(body')
<1>1. body \in Seq(Seq(Half)) /\ Len(body) \in Nat
  BY BodyOf DEF LogType
<1>2. body' \in Seq(Seq(Half)) /\ Len(body) <= Len(body')
  BY <1>1 DEF Grows
<1>3. Len(body') \in Nat
  BY <1>2, BodyOf
<1>. QED BY <1>1, <1>2, <1>3

(* A process opens its file.                                               *)
LEMMA ProcessOpens ==
  ASSUME LogInv, NEW p \in Procs, NEW l \in Stages, at' = [at EXCEPT ![p] = l], at[p] \in Logging <=> l \in Logging,
         OpenLog(p), UNCHANGED <<buf, line, tail, lines>>
  PROVE  LogInv'
<1>1. LogType /\ TailType /\ TailInv /\ PlacesInv /\ ContentInv
  BY DEF LogInv, TailInv
<1>2. Turns(p, l, buf[p], line[p])
  BY <1>1, AsItWas DEF Turns
<1>3. /\ PlacesInv' /\ path' \in [Paths -> 0..Len(body')] /\ file' \in [Procs -> 0..Len(body')] /\ file'[p] # Absent
      /\ UNCHANGED body \/ Grows(Created, <<>>)
      /\ \A r \in Sources : path'[<<r, 0>>] = path[<<r, 0>>] \/ (path[<<r, 0>>] = Absent /\ path'[<<r, 0>>] = Created)
  BY <1>1, OpensWell DEF tail
<1>4. body' \in Seq(Seq(Half)) /\ Len(body) \in Nat /\ Len(body') \in Nat /\ Len(body) <= Len(body')
  BY <1>1, <1>3, Growth
<1>5. LogType'
  <2>1. \A q \in Procs \ {p} : file'[q] = file[q]
    BY <1>1 DEF OpenLog, LogType
  <2>2. buf[p] \in Seq(Half) /\ line[p] \in Logged /\ Len(buf[p]) <= BufferSize
    BY <1>1, AsItWas
  <2>3. lines' \in Nat
    BY <1>1 DEF LogType
  <2>. QED BY <1>1, <1>2, <1>3, <1>4, <2>1, <2>2, <2>3, TypesTurn
<1>6. \A q \in Procs : Pending(q)' = Pending(q)
  BY <1>1, <1>2, PendingNow DEF Pending
<1>7. Seen' = Seen
  BY DEF Seen, tail
<1>8. ContentInv'
  BY <1>1, <1>3, <1>6, <1>7, ContentKept
<1>9. UnreadInv'
  <2>1. <<>> \in Seq(Half) /\ DOMAIN <<>> = {}
    BY EmptySeq
  <2>. QED BY <1>1, <1>3, <1>7, <2>1, UnreadGrows DEF TailInv, tail
<1>10. TailType' /\ SeenInv'
  <2>1. TailType'
    BY <1>1, <1>4, TypesGrow
  <2>. QED BY <1>1, <2>1 DEF TailInv, SeenInv, Rising, Precedes, tail
<1>. QED BY <1>3, <1>5, <1>8, <1>9, <1>10 DEF LogInv, TailInv

(* A process writes what comes first of its queue.                         *)
LEMMA ProcessWrites ==
  ASSUME LogInv, NEW p \in Procs, NEW l \in Stages, NEW b \in Seq(Half), NEW m \in Logged, Turns(p, l, b, m),
         NEW s \in Seq(Half), NEW t \in Seq(Half), Pending(p) = s \o t, t = IF l \in Logging THEN b \o Halves(m) ELSE b,
         file[p] # Absent, body' = [body EXCEPT ![file[p]] = @ \o s], Len(b) <= BufferSize,
         file' = file \/ (file' = [file EXCEPT ![p] = Absent] /\ l \in MayBeShut /\ b = <<>>),
         UNCHANGED <<path, tail, lines>>
  PROVE  LogInv'
<1>1. LogType /\ TailType /\ TailInv /\ PlacesInv /\ AgesInv /\ ContentInv
  BY DEF LogInv, TailInv, PlacesInv
<1>2. Pending(p)' = t /\ \A q \in Procs \ {p} : Pending(q)' = Pending(q)
  BY <1>1, PendingNow
<1>3. Grows(file[p], s)
  <2>1. file[p] \in DOMAIN body /\ body \in Seq(Seq(Half))
    BY <1>1, FileOf DEF LogType
  <2>. QED BY <2>1, Appended
<1>4. Seen' = Seen
  BY DEF Seen, tail
<1>5. ContentInv' /\ \A k \in DOMAIN s : By(s[k]) = p
  <2>1. UNCHANGED <<lines, Seen>>
    BY <1>4
  <2>. QED BY <1>1, <1>2, <1>3, <2>1, ContentWritten
<1>6. PlacesInv' /\ path' \in [Paths -> 0..Len(body')] /\ file' \in [Procs -> 0..Len(body')]
  <2>1. UNCHANGED <<path, reader>>
    BY DEF tail
  <2>2. file' = file \/ file' = [file EXCEPT ![p] = Absent]
    OBVIOUS
  <2>. QED BY <1>1, <1>3, <1>5, <2>1, <2>2, WritesWell
<1>7. body' \in Seq(Seq(Half)) /\ Len(body) \in Nat /\ Len(body') \in Nat /\ Len(body) <= Len(body')
  BY <1>1, <1>3, Growth
<1>8. LogType'
  <2>1. \A q \in Procs \ {p} : file'[q] = file[q]
    BY <1>1 DEF LogType
  <2>2. file'[p] = Absent => l \in MayBeShut /\ b = <<>>
    OBVIOUS
  <2>3. lines' \in Nat
    BY <1>1 DEF LogType
  <2>. QED BY <1>1, <1>6, <1>7, <2>1, <2>2, <2>3, TypesTurn
<1>9. UnreadInv'
  <2>1. \A k \in DOMAIN s : \A x \in Seen : x.by = By(s[k]) => x.no < s[k][1].no
    <3>1. \A k \in DOMAIN s : k \in DOMAIN Pending(p) /\ Pending(p)[k] = s[k]
      BY Concatenated
    <3>2. \A x \in Seen : \A k \in DOMAIN Pending(p) : x.by = p => x.no < Pending(p)[k][1].no
      BY <1>1 DEF ContentInv, Queue
    <3>. QED BY <1>5, <3>1, <3>2
  <2>2. \A r \in Sources : path'[<<r, 0>>] \in {path[<<r, 0>>], Absent}
    OBVIOUS
  <2>3. UNCHANGED reader /\ UnreadInv /\ Seen' \subseteq Seen
    BY <1>1, <1>4 DEF TailInv, tail
  <2>. QED BY <1>1, <1>3, <2>1, <2>2, <2>3, UnreadGrows
<1>10. TailType' /\ SeenInv'
  <2>1. TailType'
    BY <1>1, <1>7, TypesGrow
  <2>. QED BY <1>1, <2>1 DEF TailInv, SeenInv, Rising, Precedes, tail
<1>. QED BY <1>5, <1>6, <1>8, <1>9, <1>10 DEF LogInv, TailInv

(* A process is gone, with what was in its buffer.                         *)
LEMMA ProcessGone ==
  ASSUME LogInv, NEW p \in Procs, Gone(p), UNCHANGED body
  PROVE  LogInv'
<1>1. LogType /\ TailType /\ TailInv /\ PlacesInv /\ ContentInv
  BY DEF LogInv, TailInv
<1>2. /\ Turns(p, "off", <<>>, NoLine) /\ file' = [file EXCEPT ![p] = Absent] /\ UNCHANGED <<path, tail, lines>>
      /\ "off" \in Stages /\ "off" \in MayBeShut /\ "off" \notin Logging
  BY DEF Gone, Go, Turns, Stages, MayBeShut, Logging
<1>3. <<>> \in Seq(Half) /\ DOMAIN <<>> = {} /\ Len(<<>>) <= BufferSize /\ NoLine \in Logged
  BY <1>1, AsItWas, EmptySeq
<1>4. PlacesInv' /\ path' \in [Paths -> 0..Len(body')] /\ file' \in [Procs -> 0..Len(body')]
  <2>1. \A k \in DOMAIN <<>> : By((<<>>)[k]) = p
    BY <1>3
  <2>2. UNCHANGED <<path, reader>>
    BY <1>2 DEF tail
  <2>. QED BY <1>1, <1>2, <1>3, <2>1, <2>2, WritesWell
<1>5. LogType'
  <2>1. \A q \in Procs \ {p} : file'[q] = file[q]
    BY <1>1, <1>2 DEF LogType
  <2>2. lines' \in Nat /\ body' \in Seq(Seq(Half))
    BY <1>1, <1>2 DEF LogType
  <2>. QED BY <1>1, <1>2, <1>3, <1>4, <2>1, <2>2, TypesTurn
<1>6. \A q \in Procs : Pending(q)' = Pending(q) \/ Pending(q)' = <<>>
  <2>1. Pending(p)' = <<>> /\ \A q \in Procs \ {p} : Pending(q)' = Pending(q)
    BY <1>1, <1>2, PendingNow
  <2>. QED BY <2>1
<1>7. Seen' = Seen
  BY <1>2 DEF Seen, tail
<1>8. ContentInv'
  BY <1>1, <1>2, <1>6, <1>7, ContentKept
<1>9. UnreadInv'
  <2>1. \A r \in Sources : path'[<<r, 0>>] \in {path[<<r, 0>>], Absent}
    BY <1>2
  <2>. QED BY <1>1, <1>2, <1>3, <1>7, <2>1, UnreadGrows DEF TailInv, tail
<1>10. TailType' /\ SeenInv'
  BY <1>1, <1>2 DEF TailInv, TailType, SeenInv, Rising, Precedes, tail
<1>. QED BY <1>4, <1>5, <1>8, <1>9, <1>10 DEF LogInv, TailInv

-----------------------------------------------------------------------------
LEMMA LineLogged ==
  ASSUME LogInv, NEW p \in Procs, NEW warn \in BOOLEAN, Log(p, warn)
  PROVE  LogInv'
<1>1. LogType /\ TailType /\ TailInv /\ PlacesInv /\ ContentInv
  BY DEF LogInv, TailInv
<1> DEFINE m == [by |-> p, no |-> lines + 1, warn |-> warn]
           l == IF written[p] + 2 > rotateThreshold /\ written[p] > 0 THEN "drop" ELSE "write"
<1>2. at[p] = "ready" /\ lines' = lines + 1 /\ UNCHANGED <<path, body, file, buf, written, tail, crashes>>
  BY DEF Log
<1>3. m \in Logged /\ m.by = p /\ m.no = lines + 1 /\ l \in Stages /\ l \in Logging
  <2>1. lines + 1 \in Int
    BY <1>1 DEF LogType
  <2>2. m \in Logged /\ m.by = p /\ m.no = lines + 1
    BY <2>1 DEF Logged, Authors
  <2>3. l \in Stages /\ l \in Logging
    BY DEF Stages, Logging
  <2>. QED BY <2>2, <2>3
<1>4. Turns(p, l, buf[p], m)
  BY <1>1, AsItWas DEF Log, Go, Turns
<1> HIDE DEF m, l
<1>5. Pending(p)' = Pending(p) \o Halves(m) /\ \A q \in Procs \ {p} : Pending(q)' = Pending(q)
  <2>1. Pending(p) = buf[p]
    BY <1>2 DEF Pending, Logging
  <2>. QED BY <1>1, <1>3, <1>4, <2>1, PendingNow
<1>6. Seen' = Seen
  BY <1>2 DEF Seen, tail
<1>7. ContentInv'
  <2>1. UNCHANGED <<body, Seen>>
    BY <1>2, <1>6
  <2>. QED BY <1>1, <1>2, <1>3, <1>5, <2>1, ContentLogged
<1>8. LogType'
  <2>1. file[p] # Absent
    BY <1>1, <1>2 DEF LogType, MayBeShut
  <2>2. buf[p] \in Seq(Half) /\ Len(buf[p]) <= BufferSize
    BY <1>1, AsItWas
  <2>3. body' \in Seq(Seq(Half)) /\ path' \in [Paths -> 0..Len(body')] /\ file' \in [Procs -> 0..Len(body')] /\ lines' \in Nat
    BY <1>1, <1>2 DEF LogType
  <2>. QED BY <1>1, <1>2, <1>3, <1>4, <2>1, <2>2, <2>3, TypesTurn
<1>9. PlacesInv'
  BY <1>1, <1>2 DEF PlacesInv, PathsInv, KindsInv, KindsOf, AgesInv, Generation, tail
<1>10. TailType' /\ SeenInv' /\ UnreadInv'
  <2>1. TailType' /\ SeenInv'
    BY <1>1, <1>2 DEF TailInv, TailType, SeenInv, Rising, Precedes, tail
  <2>2. \A s \in Sources : Sound(reader[s])' /\ \A i, k : Ahead(s, reader[s], i, k)' => Ahead(s, reader[s], i, k)
    BY <1>1, <1>2 DEF TailInv, UnreadInv, Sound, Ahead, tail
  <2>3. UnreadInv'
    BY <1>1, <1>2, <1>6, <2>2 DEF TailInv, UnreadInv
  <2>. QED BY <2>1, <2>3
<1>. QED BY <1>7, <1>8, <1>9, <1>10 DEF LogInv, TailInv

LEMMA PluginLogged ==
  ASSUME LogInv, NEW warn \in BOOLEAN, PluginLog(warn)
  PROVE  LogInv'
<1>1. LogType /\ TailType /\ TailInv /\ PlacesInv /\ AgesInv /\ ContentInv
  BY DEF LogInv, TailInv, PlacesInv
<1> DEFINE m == [by |-> Plugin, no |-> lines + 1, warn |-> warn]
           s == Halves(m)
<1>2. lines' = lines + 1 /\ UNCHANGED <<writers, tail>>
  BY DEF PluginLog
<1>3. m \in Logged /\ m.by = Plugin /\ m.no = lines + 1
  BY <1>1 DEF Logged, Authors, LogType
<1>4. s \in Seq(Half) /\ \A k \in DOMAIN s : By(s[k]) = Plugin /\ s[k][1] = m
  BY <1>3, HalvesOfLine
<1> HIDE DEF m
<1> DEFINE f == IF path[pluginLog] # Absent THEN path[pluginLog] ELSE Created
<1>5. /\ Grows(f, s)
      /\ \/ path[pluginLog] # Absent /\ f = path[pluginLog] /\ UNCHANGED path
         \/ path[pluginLog] = Absent /\ f = Created /\ Len(body') = Len(body) + 1 /\ path' = [path EXCEPT ![pluginLog] = Created]
  <2>0. body \in Seq(Seq(Half)) /\ pluginLog \in Paths
    BY <1>1, PathsOf DEF LogType
  <2>1. CASE path[pluginLog] # Absent
    <3>1. f = path[pluginLog] /\ f \in DOMAIN body /\ UNCHANGED path
      BY <1>1, <2>0, <2>1, FileOf DEF PluginLog
    <3>2. body' = [body EXCEPT ![f] = @ \o s]
      BY <2>1, <3>1 DEF PluginLog, Append2, m
    <3> HIDE DEF s, f
    <3>3. Grows(f, s)
      BY <1>4, <2>0, <3>1, <3>2, Appended
    <3>. QED BY <2>1, <3>1, <3>3
  <2>2. CASE path[pluginLog] = Absent
    <3>1. f = Created /\ path' = [path EXCEPT ![pluginLog] = Created] /\ body' = Append(body, s)
      BY <2>2 DEF PluginLog, m
    <3> HIDE DEF s, f
    <3>2. Grows(Created, s) /\ Len(body') = Len(body) + 1
      BY <1>4, <2>0, <3>1, Started, AppendProperties
    <3>. QED BY <2>2, <3>1, <3>2
  <2>. QED BY <2>1, <2>2
<1> HIDE DEF f
<1>6. Seen' = Seen /\ UNCHANGED <<file, reader>> /\ \A q \in Procs : Pending(q)' = Pending(q)
  BY <1>2 DEF Seen, tail, writers, Pending
<1>7. ContentInv'
  BY <1>1, <1>2, <1>3, <1>5, <1>6, ContentOfPlugin
<1> HIDE DEF s
<1>8. /\ PlacesInv' /\ path' \in [Paths -> 0..Len(body')] /\ file' \in [Procs -> 0..Len(body')]
      /\ \A r \in Sources : path'[<<r, 0>>] = path[<<r, 0>>] \/ (path[<<r, 0>>] = Absent /\ path'[<<r, 0>>] = Created)
  BY <1>1, <1>4, <1>5, <1>6, PluginWritesWell
<1>9. body' \in Seq(Seq(Half)) /\ Len(body) \in Nat /\ Len(body') \in Nat /\ Len(body) <= Len(body')
  BY <1>1, <1>5, Growth
<1>10. LogType'
  BY <1>1, <1>2, <1>8, <1>9 DEF LogType, writers
<1>11. UnreadInv'
  <2>1. \A k \in DOMAIN s : \A x \in Seen : x.by = By(s[k]) => x.no < s[k][1].no
    <3>1. \A x \in Seen : x.no <= lines /\ x.no \in Int
      BY <1>1, SeenOf DEF ContentInv
    <3>. QED BY <1>1, <1>3, <1>4, <3>1 DEF LogType
  <2>. QED BY <1>1, <1>4, <1>5, <1>6, <1>8, <2>1, UnreadGrows DEF TailInv
<1>12. TailType' /\ SeenInv'
  <2>1. TailType'
    BY <1>1, <1>2, <1>9, TypesGrow
  <2>. QED BY <1>1, <1>2, <2>1 DEF TailInv, SeenInv, Rising, Precedes, tail
<1>. QED BY <1>7, <1>8, <1>10, <1>11, <1>12 DEF LogInv, TailInv

(* All of the buffer is written out.                                       *)
LEMMA Drained ==
  ASSUME LogType, NEW p \in Procs
  PROVE  /\ buf[p] \in Seq(Half) /\ <<>> \in Seq(Half) /\ buf[p] = buf[p] \o <<>> /\ Halves(line[p]) \in Seq(Half)
         /\ <<>> \o Halves(line[p]) = Halves(line[p])
<1>1. buf[p] \in Seq(Half) /\ <<>> \in Seq(Half) /\ line[p] \in Logged
  BY AsItWas
<1>2. Halves(line[p]) \in Seq(Half)
  BY <1>1, HalvesOfLine
<1>3. buf[p] \o <<>> = buf[p]
  BY <1>1, ConcatEmptySeq
<1>4. <<>> \o Halves(line[p]) = Halves(line[p])
  BY <1>2, ConcatEmptySeq
<1>. QED BY <1>1, <1>2, <1>3, <1>4

LEMMA FlushSteps ==
  ASSUME LogInv, NEW p \in Procs, CloseActive(p) \/ SyncFlush(p) \/ Tick(p) \/ (Close(p))
  PROVE  LogInv'
<1>1. LogType
  BY DEF LogInv
<1>2. /\ buf[p] \in Seq(Half) /\ <<>> \in Seq(Half) /\ buf[p] = buf[p] \o <<>> /\ Halves(line[p]) \in Seq(Half)
      /\ <<>> \o Halves(line[p]) = Halves(line[p])
  BY <1>1, Drained
<1>3. /\ at = [at EXCEPT ![p] = at[p]] /\ line = [line EXCEPT ![p] = line[p]] /\ line[p] \in Logged /\ NoLine \in Logged
      /\ Len(<<>>) <= BufferSize /\ at[p] \in Stages
  BY <1>1, AsItWas
<1>4. file[p] # Absent \/ at[p] \in MayBeShut
  BY <1>1 DEF LogType
<1>5. CASE CloseActive(p)
  <2>1. /\ Turns(p, "rename", <<>>, line[p]) /\ body' = [body EXCEPT ![file[p]] = @ \o buf[p]]
        /\ file' = [file EXCEPT ![p] = Absent] /\ at[p] = "close" /\ UNCHANGED <<path, tail, lines>>
    BY <1>3, <1>5 DEF CloseActive, Turns, Go, Append2
  <2>2. /\ "rename" \in Stages /\ "rename" \in Logging /\ "rename" \in MayBeShut /\ at[p] \in Logging /\ at[p] \notin MayBeShut
    BY <2>1 DEF Stages, Logging, MayBeShut
  <2>3. Pending(p) = buf[p] \o Halves(line[p])
    BY <2>2 DEF Pending
  <2>. QED BY <1>2, <1>3, <1>4, <2>1, <2>2, <2>3, ProcessWrites
<1>6. CASE SyncFlush(p)
  <2>1. /\ Turns(p, "ready", <<>>, line[p]) /\ body' = [body EXCEPT ![file[p]] = @ \o buf[p]]
        /\ file' = file /\ at[p] = "flush" /\ UNCHANGED <<path, tail, lines>>
    BY <1>3, <1>6 DEF SyncFlush, Flush, Turns, Go, Append2
  <2>2. /\ "ready" \in Stages /\ "ready" \notin Logging /\ at[p] \notin Logging /\ at[p] \notin MayBeShut
    BY <2>1 DEF Stages, Logging, MayBeShut
  <2>3. Pending(p) = buf[p]
    BY <2>2 DEF Pending
  <2>. QED BY <1>2, <1>3, <1>4, <2>1, <2>2, <2>3, ProcessWrites
<1>7. CASE Tick(p)
  <2>1. /\ Turns(p, at[p], <<>>, line[p]) /\ body' = [body EXCEPT ![file[p]] = @ \o buf[p]]
        /\ file' = file /\ at[p] \in {"starting", "rotating", "ready", "flush"} /\ UNCHANGED <<path, tail, lines>>
    BY <1>3, <1>7 DEF Tick, Flush, Turns, Append2
  <2>2. at[p] \notin Logging /\ at[p] \notin MayBeShut
    BY <2>1 DEF Logging, MayBeShut
  <2>3. Pending(p) = buf[p]
    BY <2>2 DEF Pending
  <2>. QED BY <1>2, <1>3, <1>4, <2>1, <2>2, <2>3, ProcessWrites
<1>8. CASE Close(p)
  <2>1. /\ Turns(p, "off", <<>>, NoLine) /\ body' = [body EXCEPT ![file[p]] = @ \o buf[p]]
        /\ file' = [file EXCEPT ![p] = Absent] /\ at[p] = "ready" /\ UNCHANGED <<path, tail, lines>>
    BY <1>8 DEF Close, Gone, Go, Turns, Append2
  <2>2. /\ "off" \in Stages /\ "off" \notin Logging /\ "off" \in MayBeShut /\ at[p] \notin Logging /\ at[p] \notin MayBeShut
    BY <2>1 DEF Stages, Logging, MayBeShut
  <2>3. Pending(p) = buf[p]
    BY <2>2 DEF Pending
  <2>. QED BY <1>2, <1>3, <1>4, <2>1, <2>2, <2>3, ProcessWrites
<1>. QED BY <1>5, <1>6, <1>7, <1>8

(* A line goes into the buffer, and what fills it to the file.             *)
LEMMA BufferWritten ==
  ASSUME LogInv, NEW p \in Procs, WriteBuffer(p)
  PROVE  LogInv'
<1> DEFINE all == buf[p] \o Halves(line[p])
           n == BufferSize
           l == IF line[p].warn THEN "flush" ELSE "ready"
<1>1. LogType
  BY DEF LogInv
<1>2. buf[p] \in Seq(Half) /\ line[p] \in Logged /\ NoLine \in Logged /\ Len(buf[p]) <= n /\ n \in Nat /\ n > 1
  BY <1>1, AsItWas, LogBounds
<1>3. all \in Seq(Half) /\ Len(all) = Len(buf[p]) + 2 /\ Len(buf[p]) \in Nat
  <2>1. Halves(line[p]) \in Seq(Half) /\ Len(Halves(line[p])) = 2
    BY <1>2, HalvesOfLine
  <2>2. all \in Seq(Half) /\ Len(all) = Len(buf[p]) + Len(Halves(line[p]))
    <3> DEFINE a == buf[p]
               h == Halves(line[p])
    <3>1. a \in Seq(Half) /\ h \in Seq(Half)
      BY <1>2, <2>1
    <3> HIDE DEF a, h
    <3>2. a \o h \in Seq(Half) /\ Len(a \o h) = Len(a) + Len(h)
      BY <3>1, Concatenated
    <3>. QED BY <3>2 DEF a, h
  <2>3. Len(buf[p]) \in Nat
    BY <1>2, HalvesOf
  <2>. QED BY <2>1, <2>2, <2>3
<1>4. /\ at[p] = "write" /\ file[p] # Absent /\ UNCHANGED <<path, file, tail, lines>>
      /\ line' = [line EXCEPT ![p] = NoLine] /\ at' = [at EXCEPT ![p] = l] /\ l \in Stages /\ l \notin Logging
  BY DEF WriteBuffer, Go, Stages, Logging
<1>5. Pending(p) = all
  BY <1>4 DEF Pending, Logging
<1>6. CASE Len(all) > n
  <2> DEFINE s == SubSeq(all, 1, n)
             t == SubSeq(all, n + 1, Len(all))
  <2>1. body' = [body EXCEPT ![file[p]] = @ \o s] /\ buf' = [buf EXCEPT ![p] = t]
    BY <1>6 DEF WriteBuffer, Append2
  <2> HIDE DEF all
  <2>2. s \in Seq(Half)
    BY <1>2, <1>3, <1>6, SubSeqProperties
  <2>3. t \in Seq(Half) /\ Len(t) <= n
    <3>1. /\ SubSeq(all, n + 1, Len(all)) \in Seq(Half)
          /\ Len(SubSeq(all, n + 1, Len(all))) = IF n + 1 <= Len(all) THEN Len(all) - (n + 1) + 1 ELSE 0
      BY <1>2, <1>3, <1>6, SubSeqProperties
    <3>. QED BY <1>2, <1>3, <1>6, <3>1
  <2>4. all = s \o t
    <3>1. s \o t = SubSeq(all, 1, Len(all))
      <4>1. 1 \in 1..(Len(all) + 1) /\ n \in (1 - 1)..Len(all) /\ Len(all) \in n..Len(all)
        BY <1>2, <1>3, <1>6
      <4>. QED BY <1>3, <4>1, ConcatAdjacentSubSeq DEF s, t
    <3>. QED BY <1>3, <3>1, SubSeqFull
  <2> HIDE DEF s, t, l
  <2>5. Turns(p, l, t, NoLine)
    BY <1>4, <2>1 DEF Turns
  <2>. QED BY <1>2, <1>4, <1>5, <2>1, <2>2, <2>3, <2>4, <2>5, ProcessWrites
<1>7. CASE Len(all) <= n
  <2>0. ~(Len(all) > n)
    BY <1>2, <1>3, <1>7
  <2>1. UNCHANGED body /\ buf' = [buf EXCEPT ![p] = all]
    BY <2>0 DEF WriteBuffer
  <2> HIDE DEF all, l
  <2>2. <<>> \in Seq(Half) /\ all = <<>> \o all
    BY <1>3, EmptySeq, ConcatEmptySeq
  <2>3. body' = [body EXCEPT ![file[p]] = @ \o <<>>]
    <3>1. file[p] \in DOMAIN body /\ body \in Seq(Seq(Half))
      BY <1>1, <1>4, FileOf DEF LogType
    <3>2. body[file[p]] \o <<>> = body[file[p]]
      BY <3>1, BodyOf, ConcatEmptySeq
    <3>3. body = [body EXCEPT ![file[p]] = body[file[p]]]
      BY <3>1
    <3>. QED BY <2>1, <3>2, <3>3
  <2>4. Turns(p, l, all, NoLine)
    BY <1>4, <2>1 DEF Turns
  <2>. QED BY <1>2, <1>3, <1>4, <1>5, <1>7, <2>2, <2>3, <2>4, ProcessWrites
<1>. QED BY <1>2, <1>3, <1>6, <1>7

LEMMA SlotStages ==
  \A i \in {1, 2} : /\ look[i] \in Logging /\ look[i] \notin MayBeShut /\ shift[i] \in Stages /\ shift[i] \in Logging
                    /\ shift[i] \notin MayBeShut /\ After(i) \in Stages /\ After(i) \in Logging
<1>1. /\ look[1] = "look 1" /\ look[2] = "look 2" /\ shift[1] = "shift 1" /\ shift[2] = "shift 2"
      /\ After(1) = "close" /\ After(2) = "look 1"
  BY DEF look, shift, After
<1>. QED BY <1>1 DEF Stages, Logging, MayBeShut

(* The steps that only move files or look.                                 *)
LEMMA MoveSteps ==
  ASSUME LogInv, NEW p \in Procs,
         \/ RotateSingleDeep(p) \/ DropAndRename(p) \/ DropOldest(p) \/ RenameActive(p)
         \/ \E i \in {1, 2} : LookAtSlot(p, i) \/ ShiftSlot(p, i)
  PROVE  LogInv'
<1>1. LogType
  BY DEF LogInv
<1>2. file[p] = Absent => at[p] \in MayBeShut
  BY <1>1 DEF LogType
<1>3. CASE RotateSingleDeep(p)
  <2> DEFINE l == IF path[pluginLog] # Absent /\ Size(path[pluginLog]) > rotateThreshold THEN "rotating" ELSE "ready"
  <2>1. at' = [at EXCEPT ![p] = l] /\ at[p] = "starting" /\ UNCHANGED <<path, body, file, buf, line, tail, lines>>
    BY <1>3 DEF RotateSingleDeep, Go
  <2>2. l \in Stages /\ l \notin Logging /\ at[p] \notin Logging /\ at[p] \notin MayBeShut
    BY <2>1 DEF Stages, Logging, MayBeShut
  <2> HIDE DEF l
  <2>. QED BY <1>2, <2>1, <2>2, ProcessMoves
<1>4. CASE DropAndRename(p)
  <2>1. at' = [at EXCEPT ![p] = "ready"] /\ at[p] = "rotating" /\ UNCHANGED <<body, file, buf, line, tail, lines>> /\ Moves
    BY <1>4 DEF DropAndRename, Go, Moves
  <2>2. "ready" \in Stages /\ "ready" \notin Logging /\ at[p] \notin Logging /\ at[p] \notin MayBeShut
    BY <2>1 DEF Stages, Logging, MayBeShut
  <2>. QED BY <1>2, <2>1, <2>2, ProcessMoves
<1>5. CASE DropOldest(p)
  <2>1. at' = [at EXCEPT ![p] = "look 2"] /\ at[p] = "drop" /\ UNCHANGED <<body, file, buf, line, tail, lines>> /\ Moves
    BY <1>5 DEF DropOldest, Go, Moves, look
  <2>2. "look 2" \in Stages /\ "look 2" \in Logging /\ at[p] \in Logging /\ at[p] \notin MayBeShut
    BY <2>1 DEF Stages, Logging, MayBeShut
  <2>. QED BY <1>2, <2>1, <2>2, ProcessMoves
<1>6. CASE RenameActive(p)
  <2>1. CASE path[active] # Absent
    <3>1. at' = [at EXCEPT ![p] = "reopen"] /\ at[p] = "rename" /\ UNCHANGED <<body, file, buf, line, tail, lines>>
      BY <1>6, <2>1 DEF RenameActive, Go
    <3>2. Moves
      <4>1. Shifted(0)
        BY <1>6, <2>1, PathsOf DEF RenameActive, Shifted
      <4>. QED BY <4>1 DEF Moves
    <3>3. "reopen" \in Stages /\ "reopen" \in Logging /\ at[p] \in Logging /\ "reopen" \in MayBeShut
      BY <3>1 DEF Stages, Logging, MayBeShut
    <3>. QED BY <3>1, <3>2, <3>3, ProcessMoves
  <2>2. CASE path[active] = Absent
    <3>1. at' = [at EXCEPT ![p] = "write"] /\ at[p] = "rename" /\ UNCHANGED <<path, body, file, buf, line, tail, lines>>
      BY <1>6, <2>2 DEF RenameActive, Go
    <3>2. "write" \in Stages /\ "write" \in Logging /\ at[p] \in Logging /\ "write" \in MayBeShut
      BY <3>1 DEF Stages, Logging, MayBeShut
    <3>. QED BY <3>1, <3>2, ProcessMoves
  <2>. QED BY <2>1, <2>2
<1>7. ASSUME NEW i \in {1, 2}, LookAtSlot(p, i) PROVE LogInv'
  <2> DEFINE l == IF path[<<"binary", i>>] = Absent THEN After(i) ELSE shift[i]
  <2>1. at' = [at EXCEPT ![p] = l] /\ at[p] = look[i] /\ UNCHANGED <<path, body, file, buf, line, tail, lines>>
    BY <1>7 DEF LookAtSlot, Go
  <2>2. l \in Stages /\ l \in Logging /\ at[p] \in Logging /\ at[p] \notin MayBeShut
    BY <2>1, SlotStages
  <2> HIDE DEF l
  <2>. QED BY <1>2, <2>1, <2>2, ProcessMoves
<1>8. ASSUME NEW i \in {1, 2}, ShiftSlot(p, i) PROVE LogInv'
  <2>0. /\ After(i) \in Stages /\ After(i) \in Logging /\ shift[i] \in Logging /\ shift[i] \notin MayBeShut
        /\ "write" \in Stages /\ "write" \in Logging
    BY SlotStages DEF Stages, Logging
  <2>1. CASE path[<<"binary", i>>] # Absent
    <3>1. at' = [at EXCEPT ![p] = After(i)] /\ at[p] = shift[i] /\ UNCHANGED <<body, file, buf, line, tail, lines>>
      BY <1>8, <2>1 DEF ShiftSlot, Go
    <3>2. Moves
      <4>1. Shifted(i)
        BY <1>8, <2>1 DEF ShiftSlot, Shifted, ShiftTo
      <4>. QED BY <4>1 DEF Moves
    <3>. QED BY <1>2, <2>0, <3>1, <3>2, ProcessMoves
  <2>2. CASE path[<<"binary", i>>] = Absent
    <3>1. at' = [at EXCEPT ![p] = "write"] /\ at[p] = shift[i] /\ UNCHANGED <<path, body, file, buf, line, tail, lines>>
      BY <1>8, <2>2 DEF ShiftSlot, Go
    <3>. QED BY <1>2, <2>0, <3>1, ProcessMoves
  <2>. QED BY <2>1, <2>2
<1>. QED BY <1>3, <1>4, <1>5, <1>6, <1>7, <1>8

LEMMA OpenSteps ==
  ASSUME LogInv, NEW p \in Procs, New(p) \/ Reopen(p)
  PROVE  LogInv'
<1>1. CASE New(p)
  <2>1. at' = [at EXCEPT ![p] = "starting"] /\ at[p] = "off" /\ OpenLog(p) /\ UNCHANGED <<buf, line, tail, lines>>
    BY <1>1 DEF New, Go
  <2>2. "starting" \in Stages /\ "starting" \notin Logging /\ at[p] \notin Logging
    BY <2>1 DEF Stages, Logging
  <2>. QED BY <2>1, <2>2, ProcessOpens
<1>2. CASE Reopen(p)
  <2>1. at' = [at EXCEPT ![p] = "write"] /\ at[p] = "reopen" /\ OpenLog(p) /\ UNCHANGED <<buf, line, tail, lines>>
    BY <1>2 DEF Reopen, Go
  <2>2. "write" \in Stages /\ "write" \in Logging /\ at[p] \in Logging
    BY <2>1 DEF Stages, Logging
  <2>. QED BY <2>1, <2>2, ProcessOpens
<1>. QED BY <1>1, <1>2

-----------------------------------------------------------------------------
LEMMA TwoLines ==
  ASSUME NEW l \in Logged, NEW m \in Logged, l.by = m.by, l.no < m.no
  PROVE  LET s == Halves(l) \o Halves(m) IN
           s \in Seq(Half) /\ RisingHalves(s) /\ \A k \in DOMAIN s : s[k][1] \in {l, m}
<1> DEFINE a == Halves(l)
           b == Halves(m)
<1>1. /\ a \in Seq(Half) /\ b \in Seq(Half) /\ RisingHalves(a) /\ RisingHalves(b)
      /\ \A k \in DOMAIN a : a[k][1] = l /\ a[k] \in Half
      /\ \A k \in DOMAIN b : b[k][1] = m /\ b[k] \in Half
  <2>1. a \in Seq(Half) /\ RisingHalves(a) /\ \A k \in DOMAIN a : a[k][1] = l
    BY HalvesOfLine
  <2>2. b \in Seq(Half) /\ RisingHalves(b) /\ \A k \in DOMAIN b : b[k][1] = m
    BY HalvesOfLine
  <2> HIDE DEF a, b
  <2>. QED BY <2>1, <2>2, HalvesOf
<1> HIDE DEF a, b
<1>2. Follows(a, b)
  <2>1. \A i \in DOMAIN a, j \in DOMAIN b : Key(a[i]) <= 2 * (l.no + 1) /\ 2 * m.no < Key(b[j]) /\ Key(a[i]) \in Int /\ Key(b[j]) \in Int
    BY <1>1, KeyOf
  <2>2. l.no \in Int /\ m.no \in Int
    BY DEF Logged
  <2>. QED BY <2>1, <2>2 DEF Follows
<1>3. a \o b \in Seq(Half) /\ RisingHalves(a \o b) /\ \A k \in DOMAIN (a \o b) : (a \o b)[k][1] \in {l, m}
  BY <1>1, <1>2, Joined
<1>. QED BY <1>3 DEF a, b

(* What is there before the first process starts.                          *)
LEMMA EarlierFiles ==
  /\ EarlierBinary \in Seq(Half) /\ RisingHalves(EarlierBinary)
  /\ \A k \in DOMAIN EarlierBinary : By(EarlierBinary[k]) = Before /\ EarlierBinary[k][1].no <= 0
  /\ EarlierPlugin \in Seq(Half) /\ RisingHalves(EarlierPlugin)
  /\ \A k \in DOMAIN EarlierPlugin : By(EarlierPlugin[k]) = Plugin /\ EarlierPlugin[k][1].no <= 0
<1> DEFINE L(b, n) == [NoLine EXCEPT !.by = b, !.no = n]
<1>1. \A b \in Authors, n \in Int : L(b, n) \in Logged /\ L(b, n).by = b /\ L(b, n).no = n
  BY DEF NoLine, Logged, Authors
<1>2. \A b, n : Old(b, n) = Halves(L(b, n))
  BY DEF Old
<1>3. Before \in Authors /\ Plugin \in Authors
  BY DEF Authors
<1> HIDE DEF L
<1>4. /\ EarlierBinary \in Seq(Half) /\ RisingHalves(EarlierBinary)
      /\ \A k \in DOMAIN EarlierBinary : EarlierBinary[k][1] \in {L(Before, -1), L(Before, 0)}
  <2> DEFINE l == L(Before, -1)
             m == L(Before, 0)
  <2>1. l \in Logged /\ m \in Logged /\ l.by = m.by /\ l.no < m.no
    BY <1>1, <1>3
  <2>2. EarlierBinary = Halves(l) \o Halves(m)
    BY <1>2 DEF EarlierBinary
  <2> HIDE DEF l, m
  <2>3. /\ EarlierBinary \in Seq(Half) /\ RisingHalves(EarlierBinary)
        /\ \A k \in DOMAIN EarlierBinary : EarlierBinary[k][1] \in {l, m}
    BY <2>1, <2>2, TwoLines
  <2>. QED BY <2>3 DEF l, m
<1>5. /\ EarlierPlugin \in Seq(Half) /\ RisingHalves(EarlierPlugin)
      /\ \A k \in DOMAIN EarlierPlugin : EarlierPlugin[k][1] \in {L(Plugin, -2), L(Plugin, -1), L(Plugin, 0)}
  <2> DEFINE l == L(Plugin, -2)
             m == L(Plugin, -1)
             n == L(Plugin, 0)
             s == Halves(l) \o Halves(m)
             t == Halves(n)
  <2>1. /\ l \in Logged /\ m \in Logged /\ n \in Logged /\ l.by = m.by
        /\ l.no = -2 /\ m.no = -1 /\ n.no = 0 /\ l.no < m.no
    BY <1>1, <1>3
  <2>2. EarlierPlugin = s \o t
    BY <1>2 DEF EarlierPlugin
  <2> HIDE DEF l, m, n
  <2>3. s \in Seq(Half) /\ RisingHalves(s) /\ \A k \in DOMAIN s : s[k][1] \in {l, m}
    BY <2>1, TwoLines
  <2>4. t \in Seq(Half) /\ RisingHalves(t) /\ \A k \in DOMAIN t : t[k][1] = n
    <3>1. n \in Logged
      BY <2>1
    <3>. QED BY <3>1, HalvesOfLine
  <2> HIDE DEF s, t
  <2>5. Follows(s, t)
    <3>1. \A k \in DOMAIN s : Key(s[k]) \in Int /\ Key(s[k]) <= 2 * (s[k][1].no + 1)
      BY <2>3, HalvesOf, KeyOf
    <3>2. \A k \in DOMAIN t : Key(t[k]) \in Int /\ 2 * t[k][1].no < Key(t[k])
      BY <2>4, HalvesOf, KeyOf
    <3>3. ASSUME NEW i \in DOMAIN s, NEW j \in DOMAIN t PROVE Key(s[i]) < Key(t[j])
      <4>1. s[i][1].no = -2 \/ s[i][1].no = -1
        BY <2>1, <2>3
      <4>2. Key(s[i]) <= 0
        BY <3>1, <4>1
      <4>3. 0 < Key(t[j])
        BY <2>1, <2>4, <3>2
      <4>. QED BY <3>1, <3>2, <4>2, <4>3
    <3>. QED BY <3>3 DEF Follows
  <2>6. s \o t \in Seq(Half) /\ RisingHalves(s \o t) /\ \A k \in DOMAIN (s \o t) : (s \o t)[k][1] \in {l, m, n}
    BY <2>3, <2>4, <2>5, Joined
  <2>. QED BY <2>2, <2>6 DEF l, m, n
<1>6. /\ \A k \in DOMAIN EarlierBinary : By(EarlierBinary[k]) = Before /\ EarlierBinary[k][1].no <= 0
      /\ \A k \in DOMAIN EarlierPlugin : By(EarlierPlugin[k]) = Plugin /\ EarlierPlugin[k][1].no <= 0
  <2>1. \A n \in {-2, -1, 0} : L(Before, n).by = Before /\ L(Before, n).no <= 0 /\ L(Plugin, n).by = Plugin /\ L(Plugin, n).no <= 0
    BY <1>1, <1>3
  <2>. QED BY <1>4, <1>5, <2>1 DEF By
<1>. QED BY <1>4, <1>5, <1>6

LEMMA LogInvInit == Init => LogInv
<1> SUFFICES ASSUME Init PROVE LogInv
  OBVIOUS
<1>1. /\ body = <<EarlierBinary, EarlierPlugin>> /\ lines = 0
      /\ at = [p \in Procs |-> "off"] /\ file = [p \in Procs |-> Absent]
      /\ buf = [p \in Procs |-> <<>>] /\ line = [p \in Procs |-> NoLine]
      /\ chan = <<>> /\ window = <<>> /\ printed = <<>>
  BY DEF Init
<1>2. PICK scene \in Scenes : mode = [scene |-> scene, run |-> IF scene.sources = {} THEN "over" ELSE "running"]
  BY DEF Init
<1>3. /\ EarlierBinary \in Seq(Half) /\ EarlierPlugin \in Seq(Half)
      /\ <<>> \in Seq(Half) /\ <<>> \in Seq(Logged) /\ DOMAIN <<>> = {} /\ Len(<<>>) = 0
  BY EarlierFiles, EmptySeq
<1>4. body \in Seq(Seq(Half)) /\ Len(body) = 2 /\ DOMAIN body = {1, 2} /\ body[1] = EarlierBinary /\ body[2] = EarlierPlugin
  BY <1>1, <1>3
<1>5. /\ path = [x \in Paths |-> IF x = active THEN 1 ELSE IF x = pluginLog /\ mode.scene.sources = {"plugin"} THEN 2 ELSE Absent]
      /\ Absent = 0
  BY DEF Init, Absent
<1>6. /\ path \in [Paths -> 0..2] /\ path[active] = 1 /\ path[pluginLog] \in {0, 2}
      /\ \A x \in Paths : x # active /\ x # pluginLog => path[x] = 0
  BY <1>5, PathsOf
<1>7. LogType
  <2>1. NoLine \in Logged
    BY DEF NoLine, Logged, Authors
  <2>2. BufferSize \in Nat
    BY LogBounds
  <2>. QED BY <1>1, <1>3, <1>4, <1>5, <1>6, <2>1, <2>2 DEF LogType, Stages, MayBeShut
<1>8. /\ reader \in [Sources -> [at : {"open", "read", "sleep", "done"}, file : 0..2, off : Nat, partial : Seq(Half)]]
      /\ \A s \in Sources : reader[s].file = Absent /\ Sound(reader[s])
  <2> DEFINE d == [Closed EXCEPT !.at = "done"]
  <2>1. \A r \in {Closed, d} : /\ r \in [at : {"open", "read", "sleep", "done"}, file : 0..2, off : Nat, partial : Seq(Half)]
                               /\ r.file = Absent /\ r.at \in {"open", "done"}
    <3>1. Closed = [at |-> "open", file |-> 0, off |-> 0, partial |-> <<>>] /\ d = [at |-> "done", file |-> 0, off |-> 0, partial |-> <<>>]
      BY <1>5 DEF Closed
    <3> DEFINE R == [at : {"open", "read", "sleep", "done"}, file : 0..2, off : Nat, partial : Seq(Half)]
    <3> HIDE DEF d
    <3>2. Closed \in R /\ Closed.file = Absent /\ Closed.at = "open"
      BY <1>3, <1>5, <3>1
    <3>3. d \in R /\ d.file = Absent /\ d.at = "done"
      BY <1>3, <1>5, <3>1
    <3>. QED BY <3>2, <3>3
  <2>2. reader = [s \in Sources |-> IF s \in mode.scene.sources THEN Closed ELSE d]
    BY DEF Init
  <2> HIDE DEF d
  <2>. QED BY <2>1, <2>2 DEF Sound
<1>9. TailType
  <2>1. mode \in [scene : Scenes, run : {"running", "cancelled", "over"}]
    BY <1>2
  <2>. QED BY <1>1, <1>3, <1>4, <1>8, <2>1 DEF TailType
<1>10. Seen = {}
  BY <1>1, <1>3 DEF Seen, Range
<1>11. UnreadInv /\ SeenInv
  <2>1. SeenInv
    BY <1>1, <1>3 DEF SeenInv, Rising, Precedes
  <2>2. UnreadInv
    BY <1>8, <1>10 DEF UnreadInv
  <2>. QED BY <2>1, <2>2
<1>12. PathsInv
  <2>1. \A a \in Slots : a # 0 => Generation(a) = Absent
    BY <1>5, <1>6, PathsOf DEF Generation
  <2>2. \A a, b \in Slots : a < b => b # 0
    BY DEF Slots
  <2>3. path[<<"plugin", 1>>] = 0
    BY <1>6, PathsOf
  <2>. QED BY <1>5, <2>1, <2>2, <2>3 DEF PathsInv
<1>13. \A k \in DOMAIN body[1] : By(body[1][k]) = Before /\ body[1][k][1].no <= 0
  BY <1>4, EarlierFiles
<1>14. \A k \in DOMAIN body[2] : By(body[2][k]) = Plugin /\ body[2][k][1].no <= 0
  BY <1>4, EarlierFiles
<1>15. Before # Plugin /\ Before \notin Procs /\ Plugin \notin Procs
  BY WritersAreApart DEF Before, Plugin
<1>16. KindsInv
  <2> DEFINE L == [i \in {1, 2} |-> IF i = 1 THEN "binary" ELSE "plugin"]
  <2>1. PICK M : M = L
    OBVIOUS
  <2>2. M \in [DOMAIN body -> Sources] /\ M[1] = "binary" /\ M[2] = "plugin"
    BY <1>4, <2>1 DEF Sources
  <2>3. \A x \in Paths : path[x] # Absent => M[path[x]] = x[1]
    BY <1>5, <1>6, <2>2, PathsOf
  <2>4. \A i \in DOMAIN body : \A k \in DOMAIN body[i] : By(body[i][k]) = Plugin <=> M[i] = "plugin"
    BY <1>4, <1>13, <1>14, <1>15, <2>2
  <2>5. \A p \in Procs : file[p] = Absent
    BY <1>1
  <2>6. KindsOf(M)
    BY <1>8, <2>2, <2>3, <2>4, <2>5 DEF KindsOf
  <2>. QED BY <2>6 DEF KindsInv
<1>17. AgesInv
  <2>1. \A s \in Sources : 0 <= path[<<s, 0>>]
    <3>1. \A s \in Sources : path[<<s, 0>>] \in 0..2
      BY <1>6, PathsOf
    <3>2. \A n \in 0..2 : 0 <= n
      OBVIOUS
    <3>. QED BY <3>1, <3>2
  <2>2. \A i \in DOMAIN body : \A k \in DOMAIN body[i] : LET b == By(body[i][k]) IN
          /\ b \notin Procs
          /\ b # Plugin => i <= path[active]
          /\ b = Plugin /\ path[pluginLog] # Absent => i <= path[pluginLog]
    BY <1>4, <1>5, <1>6, <1>13, <1>14, <1>15
  <2>3. \A p \in Procs : file[p] <= path[active]
    BY <1>1, <1>5, <1>6
  <2>4. \A s \in Sources : reader[s].file <= path[<<s, 0>>]
    BY <1>5, <1>8, <2>1
  <2>. QED BY <2>2, <2>3, <2>4 DEF AgesInv
<1>18. ContentInv
  <2>1. HalvesInv
    <3> SUFFICES ASSUME NEW i \in DOMAIN body, NEW j \in DOMAIN body, NEW k \in DOMAIN body[i], NEW l \in DOMAIN body[j],
                        i < j \/ (i = j /\ k < l), By(body[i][k]) = By(body[j][l])
                 PROVE  Key(body[i][k]) < Key(body[j][l])
      BY DEF HalvesInv
    <3>1. i = j
      BY <1>4, <1>13, <1>14, <1>15
    <3>2. RisingHalves(body[i])
      BY <1>4, EarlierFiles
    <3>3. k < l
      BY <1>4, <3>1
    <3>. QED BY <3>1, <3>2, <3>3 DEF RisingHalves
  <2>2. \A p \in Procs : Pending(p) = <<>>
    BY <1>1 DEF Pending, Logging
  <2>3. \A p \in Procs : Queue(p)
    BY <1>3, <2>2 DEF Queue, RisingHalves
  <2>4. \A i \in DOMAIN body : \A k \in DOMAIN body[i] : body[i][k][1].no <= lines
    BY <1>1, <1>4, <1>13, <1>14
  <2>. QED BY <1>10, <2>1, <2>3, <2>4 DEF ContentInv
<1>. QED BY <1>7, <1>9, <1>11, <1>12, <1>16, <1>17, <1>18 DEF LogInv, TailInv, PlacesInv

LEMMA TailSteps ==
  ASSUME LogInv, (\E s \in Sources : Reader(s)) \/ Printer \/ Interrupt
  PROVE  LogInv'
<1>1. LogType /\ TailInv /\ PlacesInv /\ ContentInv
  BY DEF LogInv
<1>2. UNCHANGED <<path, body, writers, lines>>
  <2>1. ASSUME NEW s \in Sources, Reader(s) PROVE UNCHANGED <<path, body, writers, lines>>
    BY <2>1 DEF Reader, OpenFile, ReadLine, Wake, ReaderEnds, Reads
  <2>2. CASE Printer \/ Interrupt
    BY <2>2 DEF Printer, Receive, FlushOldest, FlushAll, Interrupt, Printing
  <2>. QED BY <2>1, <2>2
<1>3. LogType'
  BY <1>1, <1>2 DEF LogType, writers
<1>4. ASSUME NEW s \in Sources, Reader(s) PROVE TailInv' /\ PlacesInv' /\ ContentInv'
  <2>1. CASE OpenFile(s)
    BY <1>1, <2>1, FileOpened
  <2>2. CASE ReadLine(s)
    BY <1>1, <2>2, LineRead
  <2>3. CASE Wake(s)
    BY <1>1, <2>3, Woken
  <2>4. CASE ReaderEnds(s)
    BY <1>1, <2>4, ReaderEnded
  <2>. QED BY <1>4, <2>1, <2>2, <2>3, <2>4 DEF Reader
<1>5. CASE Receive
  BY <1>1, <1>3, <1>5, LineReceived DEF LogInv
<1>6. CASE FlushOldest
  BY <1>1, <1>3, <1>6, OldestPrinted DEF LogInv
<1>7. CASE FlushAll
  BY <1>1, <1>3, <1>7, AllPrinted DEF LogInv
<1>8. CASE Interrupt
  BY <1>1, <1>3, <1>8, Interrupted DEF LogInv
<1>. QED BY <1>3, <1>4, <1>5, <1>6, <1>7, <1>8 DEF LogInv, Printer

LEMMA ProcessSteps ==
  ASSUME LogInv, NEW p \in Procs, New(p) \/ Writing(p) \/ Tick(p) \/ Close(p) \/ Crash(p) \/ \E warn \in BOOLEAN : Log(p, warn)
  PROVE  LogInv'
<1>1. CASE New(p) \/ Reopen(p)
  BY <1>1, OpenSteps
<1>2. CASE CloseActive(p) \/ SyncFlush(p) \/ Tick(p) \/ Close(p)
  BY <1>2, FlushSteps
<1>3. CASE WriteBuffer(p)
  BY <1>3, BufferWritten
<1>4. CASE PanicOnNil(p) \/ Crash(p)
  BY <1>4, ProcessGone DEF PanicOnNil, Crash
<1>5. CASE \/ RotateSingleDeep(p) \/ DropAndRename(p) \/ DropOldest(p) \/ RenameActive(p)
           \/ \E i \in {1, 2} : LookAtSlot(p, i) \/ ShiftSlot(p, i)
  BY <1>5, MoveSteps
<1>6. CASE \E warn \in BOOLEAN : Log(p, warn)
  BY <1>6, LineLogged
<1>. QED BY <1>1, <1>2, <1>3, <1>4, <1>5, <1>6 DEF Writing, Rotating

LEMMA LogInvStep == LogInv /\ [Next]_vars => LogInv'
<1> SUFFICES ASSUME LogInv, [Next]_vars PROVE LogInv'
  OBVIOUS
<1>1. CASE UNCHANGED vars
  <2>1. UNCHANGED <<path, body, at, file, buf, line, lines, reader, chan, window, printed, mode>>
    BY <1>1 DEF vars, writers, tail
  <2>2. LogType' /\ TailType'
    BY <2>1 DEF LogInv, TailInv, LogType, TailType
  <2>3. PlacesInv'
    BY <2>1 DEF LogInv, PlacesInv, PathsInv, KindsInv, KindsOf, AgesInv, Generation
  <2>4. Seen' = Seen /\ \A p \in Procs : Pending(p)' = Pending(p)
    BY <2>1 DEF Seen, Pending
  <2>5. ContentInv'
    BY <2>1, <2>4, ContentKept DEF LogInv
  <2>6. SeenInv'
    BY <2>1 DEF LogInv, TailInv, SeenInv, Rising, Precedes
  <2>7. UnreadInv'
    <3>1. \A s \in Sources : Sound(reader[s])' /\ \A i, k : Ahead(s, reader[s], i, k)' => Ahead(s, reader[s], i, k)
      BY <2>1 DEF LogInv, TailInv, UnreadInv, Sound, Ahead
    <3>. QED BY <2>1, <2>4, <3>1 DEF LogInv, TailInv, UnreadInv
  <2>. QED BY <2>2, <2>3, <2>5, <2>6, <2>7 DEF LogInv, TailInv
<1>2. ASSUME NEW p \in Procs, New(p) \/ Writing(p) \/ Tick(p) \/ Close(p) \/ Crash(p) \/ \E warn \in BOOLEAN : Log(p, warn)
      PROVE  LogInv'
  BY <1>2, ProcessSteps
<1>3. CASE \E warn \in BOOLEAN : PluginLog(warn)
  BY <1>3, PluginLogged
<1>4. CASE (\E s \in Sources : Reader(s)) \/ Printer \/ Interrupt
  BY <1>4, TailSteps
<1>. QED BY <1>1, <1>2, <1>3, <1>4 DEF Next

LEMMA LogInvariant == Spec => []LogInv
<1>. QED BY LogInvInit, LogInvStep, PTL DEF Spec

(* The paths, buffers and readers have their types: no two paths name one  *)
(* file, a process that has no file has nothing in its buffer (rotateLocked*)
(* and PanicOnNil), and a reader is not past the end of its file.          *)
THEOREM LogsAreTyped == Spec => []TypeOK
<1>1. LogInv => TypeOK
  <2> SUFFICES ASSUME LogInv PROVE TypeOK
    OBVIOUS
  <2>1. \A x, y \in Paths : path[x] = path[y] => x = y \/ path[x] = Absent
    BY PathsAreApart DEF LogInv
  <2>2. \A s \in Sources : reader[s].file # Absent => reader[s].off <= Len(body[reader[s].file])
    BY DEF LogInv, TailInv, UnreadInv, Sound
  <2>3. mode.run \in {"running", "cancelled", "over"}
    BY DEF LogInv, TailInv, TailType
  <2>. QED BY <2>1, <2>2, <2>3 DEF LogInv, LogType, TypeOK, Size, Absent
<1>. QED BY <1>1, LogInvariant, PTL

(* The files from the oldest generation on.                                *)
GenerationOf(a) == IF Generation(a) = Absent THEN <<>> ELSE body[Generation(a)]

LEMMA GenerationsFollow ==
  ASSUME LogInv
  PROVE  /\ \A a \in Slots : GenerationOf(a) \in Seq(Half) /\ RisingHalves(GenerationOf(a))
         /\ \A a, b \in Slots : a < b => Follows(GenerationOf(b), GenerationOf(a))
<1>1. \A a \in Slots : Generation(a) # Absent => Generation(a) \in DOMAIN body
  BY FileOf, PathsOf DEF LogInv, Generation
<1>2. <<>> \in Seq(Half) /\ DOMAIN <<>> = {}
  BY EmptySeq
<1>3. \A i \in DOMAIN body : body[i] \in Seq(Half) /\ RisingHalves(body[i])
  BY BodyOf DEF LogInv, LogType, ContentInv, HalvesInv, RisingHalves
<1>4. ASSUME NEW a \in Slots PROVE GenerationOf(a) \in Seq(Half) /\ RisingHalves(GenerationOf(a))
  BY <1>1, <1>2, <1>3 DEF GenerationOf, RisingHalves
<1>5. ASSUME NEW a \in Slots, NEW b \in Slots, a < b PROVE Follows(GenerationOf(b), GenerationOf(a))
  <2>1. CASE Generation(a) = Absent \/ Generation(b) = Absent
    BY <1>2, <2>1 DEF GenerationOf, Follows
  <2>2. CASE Generation(a) # Absent /\ Generation(b) # Absent
    <3>1. Generation(b) < Generation(a)
      BY <1>5, <2>2 DEF LogInv, PlacesInv, PathsInv
    <3>. QED BY <1>1, <2>2, <3>1 DEF GenerationOf, Follows, LogInv, ContentInv, HalvesInv
  <2>. QED BY <2>1, <2>2
<1>. QED BY <1>4, <1>5

(* However the processes rotate against each other (rotateLocked), and     *)
(* wherever one of them crashes, each one's lines are in the order it      *)
(* logged them from the oldest generation to the newest.                   *)
THEOREM LogsStayInOrder == Spec => []LogsInOrder
<1>1. LogInv => LogsInOrder
  <2> SUFFICES ASSUME LogInv PROVE LogsInOrder
    OBVIOUS
  <2> DEFINE s == GenerationOf(3) \o GenerationOf(2)
             t == s \o GenerationOf(1)
             u == t \o GenerationOf(0)
  <2>0. /\ 0 \in Slots /\ 1 \in Slots /\ 2 \in Slots /\ 3 \in Slots
        /\ 0 < 1 /\ 0 < 2 /\ 0 < 3 /\ 1 < 2 /\ 1 < 3 /\ 2 < 3
    BY DEF Slots
  <2>1. \A a \in Slots : GenerationOf(a) \in Seq(Half) /\ RisingHalves(GenerationOf(a))
    BY GenerationsFollow
  <2>2. /\ Follows(GenerationOf(3), GenerationOf(2)) /\ Follows(GenerationOf(3), GenerationOf(1))
        /\ Follows(GenerationOf(3), GenerationOf(0)) /\ Follows(GenerationOf(2), GenerationOf(1))
        /\ Follows(GenerationOf(2), GenerationOf(0)) /\ Follows(GenerationOf(1), GenerationOf(0))
    BY <2>0, GenerationsFollow
  <2>3. /\ s \in Seq(Half) /\ RisingHalves(s)
        /\ \A k \in DOMAIN s : \/ \E i \in DOMAIN GenerationOf(3) : s[k] = GenerationOf(3)[i]
                               \/ \E i \in DOMAIN GenerationOf(2) : s[k] = GenerationOf(2)[i]
    BY <2>0, <2>1, <2>2, Joined
  <2> HIDE DEF s
  <2>4. Follows(s, GenerationOf(1)) /\ Follows(s, GenerationOf(0))
    BY <2>2, <2>3 DEF Follows
  <2>5. /\ t \in Seq(Half) /\ RisingHalves(t)
        /\ \A k \in DOMAIN t : \/ \E i \in DOMAIN s : t[k] = s[i]
                               \/ \E i \in DOMAIN GenerationOf(1) : t[k] = GenerationOf(1)[i]
    BY <2>0, <2>1, <2>3, <2>4, Joined
  <2> HIDE DEF t
  <2>6. Follows(t, GenerationOf(0))
    BY <2>2, <2>4, <2>5 DEF Follows
  <2>7. RisingHalves(u)
    BY <2>0, <2>1, <2>5, <2>6, Joined
  <2>8. Generations = u
    BY DEF Generations, u, t, s, GenerationOf, Generation
  <2>. QED BY <2>7, <2>8 DEF LogsInOrder, RisingHalves, By, Key
<1>. QED BY <1>1, LogInvariant, PTL

(* wezsesh tail prints no line twice and each author's lines in order,     *)
(* across rotations and out of a window that two readers feed.             *)
THEOREM TailStaysInOrder == Spec => []TailInOrder
<1>1. LogInv => TailInOrder
  BY DEF LogInv, TailInv, SeenInv, Rising, TailInOrder
<1>. QED BY <1>1, LogInvariant, PTL
=============================================================================
