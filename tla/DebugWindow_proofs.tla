-------------------------- MODULE DebugWindow_proofs --------------------------
(***************************************************************************)
(* The debugger's windows compare two cheap numbers before they draw.      *)
(* That they miss nothing is proved for every instance.                    *)
(*   - The FujiNet tab compares the number of entries and the serial of    *)
(*     the last one.  Whatever emit does -- counting, folding, taking      *)
(*     back, evicting -- it ends with a last entry whose serial was never  *)
(*     given out before.  Counting is exact: the repeats of a packet in    *)
(*     the ring, with those that left it, are the times it was fed.        *)
(*   - The other panes compare the engine's serial and the mode.  Both are *)
(*     read without the lock, while the machine may stop.                  *)
(***************************************************************************)
EXTENDS FujiTrace, DebugWindow, Integers, TLAPS, WellFoundedInduction

\* The trace's own type, as loose as the argument needs it.
Kept == [packet : Packets, repeat : Int, serial : Int]
Traces == [ring : Seq(Kept), pending : BOOLEAN, serial : Nat, gone : [Packets -> Int]]

\* The last entry has the trace's serial, and that is above s.
Fresh(t, s) == /\ t \in Traces /\ Len(t.ring) >= 1
               /\ t.ring[Len(t.ring)].serial = t.serial
               /\ t.serial > s
PairPending(t) == t.pending => Len(t.ring) >= 2

-----------------------------------------------------------------------------
(* What the operators of emit return.                                      *)

LEMMA TouchFresh ==
    ASSUME NEW t \in Traces, NEW k \in 1 .. Len(t.ring)
    PROVE  /\ Fresh(Touch(t, k), t.serial)
           /\ Len(Touch(t, k).ring) = Len(t.ring)
           /\ Touch(t, k).pending = t.pending
<1> DEFINE n == Len(t.ring)
           entry(i) == IF i < k THEN t.ring[i]
                       ELSE [t.ring[i] EXCEPT !.serial = t.serial + (i + 1 - k)]
           r == [i \in DOMAIN t.ring |-> entry(i)]
           u == Touch(t, k)
<1>1. t.ring \in Seq(Kept) /\ t.serial \in Nat /\ n \in Nat /\ k \in Nat /\ 1 <= k /\ k <= n
  BY DEF Traces
<1>2. \A i \in 1 .. n : entry(i) \in Kept
  <2> TAKE i \in 1 .. n
  <2>1. t.ring[i] \in Kept
    BY <1>1
  <2>2. t.serial + (i + 1 - k) \in Int
    BY <1>1
  <2> QED BY <2>1, <2>2 DEF Kept
<1>3. DOMAIN t.ring = 1 .. n
  BY <1>1
<1>4. r \in Seq(Kept) /\ Len(r) = n
  <2>1. r \in [1 .. n -> Kept]
    BY <1>2, <1>3
  <2> HIDE DEF r
  <2> QED BY <1>1, <2>1
<1>5. entry(n).serial = t.serial + (n + 1 - k)
  <2>1. t.ring[n] \in Kept
    BY <1>1
  <2> QED BY <1>1, <2>1 DEF Kept
<1>6. r[n] = entry(n)
  BY <1>1, <1>3
<1>7. u = [t EXCEPT !.serial = t.serial + (n + 1 - k), !.ring = r]
  BY DEF Touch, Traces
<1> HIDE DEF r, entry, u
<1>8. t.serial + (n + 1 - k) \in Nat /\ t.serial + (n + 1 - k) > t.serial
  BY <1>1
<1>9. /\ u \in Traces /\ u.ring = r /\ u.serial = t.serial + (n + 1 - k) /\ u.pending = t.pending
  BY <1>4, <1>7, <1>8 DEF Traces
<1>10. Fresh(u, t.serial)
  BY <1>1, <1>4, <1>5, <1>6, <1>8, <1>9 DEF Fresh
<1> QED BY <1>4, <1>9, <1>10 DEF u

\* One more or one less of an entry.
LEMMA MoreFresh ==
    ASSUME NEW t \in Traces, NEW k \in 1 .. Len(t.ring)
    PROVE  /\ Fresh(More(t, k), t.serial) /\ Fresh(Less(t, k), t.serial)
           /\ Len(More(t, k).ring) = Len(t.ring) /\ Len(Less(t, k).ring) = Len(t.ring)
           /\ More(t, k).pending = t.pending /\ Less(t, k).pending = t.pending
<1>1. ASSUME NEW d \in {-1, 1}
      PROVE  LET u == [t EXCEPT !.ring[k].repeat = t.ring[k].repeat + d]
             IN  u \in Traces /\ Len(u.ring) = Len(t.ring) /\ u.serial = t.serial /\ u.pending = t.pending
  <2> DEFINE e == [t.ring[k] EXCEPT !.repeat = t.ring[k].repeat + d]
             r == [t.ring EXCEPT ![k] = e]
             u == [t EXCEPT !.ring[k].repeat = t.ring[k].repeat + d]
  <2>1. t.ring \in Seq(Kept) /\ t.ring[k] \in Kept
    BY DEF Traces
  <2>2. e \in Kept
    <3> DEFINE x == t.ring[k]
    <3>1. x \in Kept /\ e = [x EXCEPT !.repeat = x.repeat + d]
      BY <2>1
    <3> HIDE DEF x, e
    <3>2. x.repeat + d \in Int
      BY <3>1 DEF Kept
    <3> QED BY <3>1, <3>2 DEF Kept
  <2> HIDE DEF e
  <2>3. r \in Seq(Kept) /\ Len(r) = Len(t.ring)
    BY <2>1, <2>2
  <2>4. u = [t EXCEPT !.ring = r]
    BY <2>1 DEF e, Kept
  <2> HIDE DEF r, u
  <2>5. u \in Traces /\ u.ring = r /\ u.serial = t.serial /\ u.pending = t.pending
    BY <2>3, <2>4 DEF Traces
  <2> QED BY <2>3, <2>5 DEF u
<1> DEFINE up == [t EXCEPT !.ring[k].repeat = @ + 1]
           dn == [t EXCEPT !.ring[k].repeat = @ - 1]
<1>2. up \in Traces /\ Len(up.ring) = Len(t.ring) /\ up.serial = t.serial /\ up.pending = t.pending
  BY <1>1
<1>3. dn \in Traces /\ Len(dn.ring) = Len(t.ring) /\ dn.serial = t.serial /\ dn.pending = t.pending
  <2>3. t.ring \in Seq(Kept)
    BY DEF Traces
  <2>4. t.ring[k] \in Kept
    BY <2>3
  <2>1. t.ring[k].repeat \in Int
    BY <2>4 DEF Kept
  <2>2. t.ring[k].repeat - 1 = t.ring[k].repeat + (-1)
    BY <2>1
  <2> QED BY <1>1, <2>2
<1>4. More(t, k) = Touch(up, k) /\ Less(t, k) = Touch(dn, k)
  BY DEF More, Less
<1> HIDE DEF up, dn
<1> QED BY <1>2, <1>3, <1>4, TouchFresh

\* A new entry, whatever a full ring loses for it.
LEMMA PushFresh ==
    ASSUME NEW t \in Traces, NEW p \in Packets
    PROVE  Fresh(Push(t, p), t.serial) /\ Push(t, p).pending = t.pending
<1> DEFINE e == Evict(t)
           new == [packet |-> p, repeat |-> 1, serial |-> 0]
           a == [e EXCEPT !.ring = Append(@, new)]
<1>1. e \in Traces /\ e.serial = t.serial /\ e.pending = t.pending
  <2>1. CASE Len(t.ring) < TraceMax
    BY <2>1 DEF Evict
  <2>2. CASE ~(Len(t.ring) < TraceMax)
    <3>1. t.ring \in Seq(Kept) /\ Len(t.ring) >= 1
      BY <2>2, TraceAssumption DEF Traces
    <3>2. t.ring[1] \in Kept /\ Tail(t.ring) \in Seq(Kept)
      BY <3>1
    <3>3. e = [t EXCEPT !.ring = Tail(t.ring),
                        !.gone = [t.gone EXCEPT ![t.ring[1].packet] = @ + t.ring[1].repeat]]
      BY <2>2 DEF Evict, Traces
    <3>4. [t.gone EXCEPT ![t.ring[1].packet] = @ + t.ring[1].repeat] \in [Packets -> Int]
      BY <3>2 DEF Traces, Kept
    <3> QED BY <3>2, <3>3, <3>4 DEF Traces
  <2> QED BY <2>1, <2>2
<1> HIDE DEF e
<1>2. new \in Kept
  BY DEF Kept
<1> HIDE DEF new
<1>3. a \in Traces /\ a.serial = t.serial /\ a.pending = t.pending /\ Len(a.ring) = Len(e.ring) + 1
  <2>1. e.ring \in Seq(Kept)
    BY <1>1 DEF Traces
  <2>2. Append(e.ring, new) \in Seq(Kept) /\ Len(Append(e.ring, new)) = Len(e.ring) + 1
    BY <1>2, <2>1
  <2> QED BY <1>1, <2>2 DEF Traces
<1>4. Len(e.ring) + 1 \in 1 .. Len(a.ring)
  BY <1>1, <1>3 DEF Traces
<1>5. Push(t, p) = Touch(a, Len(e.ring) + 1)
  BY DEF Push, e, new
<1> HIDE DEF a
<1> QED BY <1>3, <1>4, <1>5, TouchFresh

LEMMA PlaceFresh ==
    ASSUME NEW t \in Traces, NEW p \in Packets, ~t.pending
    PROVE  Fresh(Place(t, p), t.serial) /\ PairPending(Place(t, p))
<1> DEFINE n == Len(t.ring)
           folds == /\ n >= 2
                    /\ t.ring[n].packet # p
                    /\ t.ring[n - 1].packet = p
                    /\ ToHost(t.ring[n - 1].packet) # ToHost(t.ring[n].packet)
                    /\ t.ring[n - 1].repeat = t.ring[n].repeat
           again == n >= 1 /\ t.ring[n].packet = p
<1>1. n \in Nat
  BY DEF Traces
<1>2. CASE again
  <2>1. Place(t, p) = More(t, n)
    BY <1>2 DEF Place
  <2> QED BY <1>1, <1>2, <2>1, MoreFresh DEF PairPending
<1>3. CASE ~again /\ ~folds
  <2>1. Place(t, p) = Push(t, p)
    BY <1>3 DEF Place
  <2> QED BY <2>1, PushFresh DEF PairPending
<1>4. CASE folds
  <2>1. n - 1 \in 1 .. n /\ n >= 2
    BY <1>1, <1>4
  <2> DEFINE m == Touch([t EXCEPT !.ring[n - 1].repeat = @ + 1], n - 1)
  <2>2. Place(t, p) = [More(t, n - 1) EXCEPT !.pending = TRUE]
    BY <1>4 DEF Place
  <2>3. Fresh(More(t, n - 1), t.serial) /\ Len(More(t, n - 1).ring) = n
    BY <2>1, MoreFresh
  <2> DEFINE q == [More(t, n - 1) EXCEPT !.pending = TRUE]
  <2>4. q \in Traces /\ q.ring = More(t, n - 1).ring /\ q.serial = More(t, n - 1).serial
    BY <2>3 DEF Fresh, Traces
  <2> QED BY <2>1, <2>2, <2>3, <2>4 DEF Fresh, PairPending
<1> QED BY <1>2, <1>3, <1>4

LEMMA EmitFresh ==
    ASSUME NEW t \in Traces, NEW p \in Packets, PairPending(t)
    PROVE  Fresh(Emit(t, p), t.serial) /\ PairPending(Emit(t, p))
<1> DEFINE n == Len(t.ring)
           s == [t EXCEPT !.pending = FALSE]
<1>1. s \in Traces /\ s.ring = t.ring /\ s.serial = t.serial /\ s.pending = FALSE /\ n \in Nat
  <2>1. t.ring \in Seq(Kept)
    BY DEF Traces
  <2>2. n \in Nat
    BY <2>1
  <2>3. s \in Traces /\ s.ring = t.ring /\ s.serial = t.serial /\ s.pending = FALSE
    BY DEF Traces
  <2> HIDE DEF n, s
  <2> QED BY <2>2, <2>3
<1>2. t.pending \in BOOLEAN
  BY DEF Traces
<1>3. CASE ~t.pending
  <2>1. Emit(t, p) = Place(s, p)
    BY <1>3 DEF Emit
  <2> HIDE DEF s
  <2> QED BY <1>1, <2>1, PlaceFresh
<1>4. CASE t.pending /\ t.ring[n].packet = p
  <2>1. Emit(t, p) = More(s, n)
    BY <1>4 DEF Emit
  <2>2. n \in 1 .. Len(s.ring)
    BY <1>1, <1>4 DEF PairPending
  <2> HIDE DEF s
  <2> QED BY <1>1, <2>1, <2>2, MoreFresh DEF PairPending
<1>5. CASE t.pending /\ t.ring[n].packet # p
  <2>1. Emit(t, p) = Place(TakeBack(s), p)
    BY <1>5 DEF Emit
  <2>2. n - 1 \in 1 .. Len(s.ring)
    BY <1>1, <1>5 DEF PairPending
  <2> HIDE DEF s
  <2>3. s.ring[n - 1].packet \in Packets
    <3>1. s.ring \in Seq(Kept)
      BY <1>1 DEF Traces
    <3>2. s.ring[n - 1] \in Kept
      BY <2>2, <3>1
    <3> QED BY <3>2 DEF Kept
  <2>4. Fresh(Less(s, n - 1), s.serial) /\ Less(s, n - 1).pending = FALSE
    BY <1>1, <2>2, MoreFresh
  <2> DEFINE l == Less(s, n - 1)
             b == Push(l, s.ring[n - 1].packet)
  <2>5. l \in Traces /\ l.serial \in Nat /\ l.serial > s.serial
    BY <2>4 DEF Fresh, Traces
  <2> HIDE DEF l
  <2>6. Fresh(b, l.serial) /\ b.pending = FALSE
    BY <2>3, <2>4, <2>5, PushFresh DEF l
  <2>7. TakeBack(s) = b
    BY <1>1 DEF TakeBack, l
  <2> HIDE DEF b
  <2>8. b \in Traces /\ b.serial \in Nat /\ b.serial > l.serial
    BY <2>6 DEF Fresh, Traces
  <2>9. Fresh(Place(b, p), b.serial) /\ PairPending(Place(b, p))
    BY <2>6, <2>8, PlaceFresh
  <2>10. Place(b, p).serial > b.serial /\ Place(b, p).serial \in Nat
    BY <2>9 DEF Fresh, Traces
  <2>11. Place(b, p).serial > t.serial
    <3>1. t.serial \in Nat
      BY DEF Traces
    <3> QED BY <1>1, <2>5, <2>8, <2>10, <3>1
  <2> QED BY <2>1, <2>7, <2>9, <2>11 DEF Fresh
<1> QED BY <1>2, <1>3, <1>4, <1>5

-----------------------------------------------------------------------------
(* Sums over the ring.  CountIn is a recursive function of a sequence of   *)
(* any length, so what it returns is a matter of induction: over a set of  *)
(* numbers, since a set of naturals that is not empty has a least element. *)

LEMMA WellOrdered ==
  ASSUME NEW T \in SUBSET Nat, T # {}
  PROVE \E x \in T : \A y \in T : x <= y
<1>1. IsWellFoundedOn(OpToRel(<, Nat), Nat) BY NatLessThanWellFounded
<1>2. PICK x \in T : \A y \in T : <<y, x>> \notin OpToRel(<, Nat)
  <2> HIDE DEF OpToRel, IsWellFoundedOn
  <2> QED BY <1>1, WFMin
<1>3. \A y \in T : ~ (y < x)
  BY <1>2, Zenon DEF OpToRel
<1> QED BY <1>3, SMT

LEMMA SetInduction ==
  ASSUME NEW S \in SUBSET Nat, 0 \in S, \A n \in S : n + 1 \in S
  PROVE  Nat \subseteq S
<1> SUFFICES ASSUME Nat \ S # {} PROVE FALSE
  OBVIOUS
<1>1. PICK x \in Nat \ S : \A y \in Nat \ S : x <= y
  BY WellOrdered
<1> QED BY <1>1, SMT

\* What entry i of r counts for p, and the partial sums of that.
Weight(r, p, i) == IF r[i].packet = p THEN r[i].repeat ELSE 0
Sums(g, r, p, n) == /\ g \in [0 .. n -> Int] /\ g[0] = 0
                    /\ \A i \in 1 .. n : g[i] = g[i - 1] + Weight(r, p, i)

LEMMA WeightType ==
  ASSUME NEW r \in Seq(Kept), NEW p, NEW i \in 1 .. Len(r)
  PROVE Weight(r, p, i) \in Int
<1>1. r[i] \in Kept OBVIOUS
<1> QED BY <1>1 DEF Weight, Kept

LEMMA SumsExist ==
  ASSUME NEW r \in Seq(Kept), NEW p
  PROVE \E g : Sums(g, r, p, Len(r))
<1> DEFINE S == {m \in Nat : m <= Len(r) => \E g : Sums(g, r, p, m)}
<1>1. 0 \in S
  <2> DEFINE g == [i \in 0 .. 0 |-> 0]
  <2>1. Sums(g, r, p, 0) BY SMT DEF Sums
  <2> QED BY <2>1
<1>2. ASSUME NEW m \in S PROVE m + 1 \in S
  <2> SUFFICES ASSUME m + 1 <= Len(r) PROVE \E h : Sums(h, r, p, m + 1)
    OBVIOUS
  <2>1. PICK g : Sums(g, r, p, m)
    OBVIOUS
  <2> DEFINE w == Weight(r, p, m + 1)
             h == [i \in 0 .. m + 1 |-> IF i <= m THEN g[i] ELSE g[m] + w]
  <2>2. w \in Int BY WeightType
  <2>3. h \in [0 .. m + 1 -> Int]
    BY <2>1, <2>2, SMT DEF Sums
  <2>4. \A i \in 1 .. m + 1 : h[i] = h[i - 1] + Weight(r, p, i)
    BY <2>1, SMT DEF Sums
  <2>5. h[0] = 0
    BY <2>1 DEF Sums
  <2> HIDE DEF h
  <2> QED BY <2>3, <2>4, <2>5 DEF Sums
<1> HIDE DEF S
<1>3. S \in SUBSET Nat BY DEF S
<1>4. Nat \subseteq S BY <1>1, <1>2, <1>3, SetInduction
<1> QED BY <1>4 DEF S

Eqn(g, r, p) == g = [i \in 0 .. Len(r) |->
            IF i = 0 THEN 0
            ELSE g[i - 1] + (IF r[i].packet = p THEN r[i].repeat ELSE 0)]

LEMMA EqnUnique ==
  ASSUME NEW r \in Seq(Kept), NEW p, NEW g, NEW h, Eqn(g, r, p), Eqn(h, r, p)
  PROVE  g = h
<1> DEFINE n == Len(r)
           S == {m \in Nat : m <= n => g[m] = h[m]}
<1>0. n \in Nat OBVIOUS
<1>g. \A i \in 0 .. n : g[i] = IF i = 0 THEN 0 ELSE g[i - 1] + (IF r[i].packet = p THEN r[i].repeat ELSE 0)
  BY DEF Eqn
<1>h. \A i \in 0 .. n : h[i] = IF i = 0 THEN 0 ELSE h[i - 1] + (IF r[i].packet = p THEN r[i].repeat ELSE 0)
  BY DEF Eqn
<1> HIDE DEF n
<1>1. 0 \in S BY <1>0, <1>g, <1>h
<1>2. ASSUME NEW m \in S PROVE m + 1 \in S
  BY <1>0, <1>g, <1>h
<1> HIDE DEF S
<1>3. S \in SUBSET Nat BY DEF S
<1>4. Nat \subseteq S BY <1>1, <1>2, <1>3, SetInduction
<1>5. \A i \in 0 .. n : g[i] = h[i]
  BY <1>0, <1>4 DEF S
<1>6. DOMAIN g = 0 .. n /\ g = [i \in 0 .. n |-> g[i]]
  BY DEF Eqn, n
<1>7. DOMAIN h = 0 .. n /\ h = [i \in 0 .. n |-> h[i]]
  BY DEF Eqn, n
<1> QED BY <1>5, <1>6, <1>7

LEMMA CountInIs ==
  ASSUME NEW r \in Seq(Kept), NEW p, NEW g, Sums(g, r, p, Len(r))
  PROVE  CountIn(r, p) = g[Len(r)]
<1>1. Eqn(g, r, p)
  <2>1. g = [i \in 0 .. Len(r) |-> g[i]] BY DEF Sums
  <2>2. \A i \in 0 .. Len(r) : g[i] = IF i = 0 THEN 0 ELSE g[i - 1] + (IF r[i].packet = p THEN r[i].repeat ELSE 0)
    BY DEF Sums, Weight
  <2> QED BY <2>1, <2>2 DEF Eqn
<1>2. \A h : Eqn(h, r, p) <=> h = g
  BY <1>1, EqnUnique
<1>3. g = CHOOSE h : Eqn(h, r, p)
  BY <1>2, Zenon
<1>4. CountIn(r, p) = (CHOOSE h : Eqn(h, r, p))[Len(r)]
  BY Zenon DEF CountIn, Eqn
<1> QED BY <1>3, <1>4

\* A sequence as long whose entries count the same, entry k's d apart.
LEMMA CountChanged ==
  ASSUME NEW r \in Seq(Kept), NEW s \in Seq(Kept), Len(s) = Len(r), NEW p,
         NEW k \in 1 .. Len(r), NEW d \in Int,
         \A i \in 1 .. Len(r) : Weight(s, p, i) = Weight(r, p, i) + (IF i = k THEN d ELSE 0)
  PROVE  CountIn(s, p) = CountIn(r, p) + d
<1>1. PICK g : Sums(g, r, p, Len(r))
  BY SumsExist
<1> DEFINE n == Len(r)
           h == [i \in 0 .. n |-> IF i >= k THEN g[i] + d ELSE g[i]]
<1>2. n \in Nat /\ k \in 1 .. n
  OBVIOUS
<1>3. \A i \in 1 .. n : Weight(r, p, i) \in Int
  BY WeightType
<1> HIDE DEF n
<1>4. h \in [0 .. n -> Int] /\ h[0] = 0
  BY <1>1, <1>2 DEF Sums, n
<1>5. \A i \in 1 .. n : h[i] = h[i - 1] + Weight(s, p, i)
  <2> TAKE i \in 1 .. n
  <2>1. g[i] = g[i - 1] + Weight(r, p, i) /\ g[i] \in Int /\ g[i - 1] \in Int
    <3>1. i \in 0 .. n /\ i - 1 \in 0 .. n
      BY <1>2
    <3> QED BY <1>1, <3>1 DEF Sums, n
  <2>2. Weight(s, p, i) = Weight(r, p, i) + (IF i = k THEN d ELSE 0)
    BY DEF n
  <2>3. h[i] = (IF i >= k THEN g[i] + d ELSE g[i]) /\ h[i - 1] = (IF i - 1 >= k THEN g[i - 1] + d ELSE g[i - 1])
    BY <1>2
  <2> HIDE DEF h
  <2> QED BY <1>2, <1>3, <2>1, <2>2, <2>3
<1>6. h[n] = g[n] + d
  BY <1>2
<1> HIDE DEF h
<1>7. Sums(h, s, p, Len(s))
  BY <1>4, <1>5 DEF Sums, n
<1>8. CountIn(s, p) = h[Len(s)] /\ CountIn(r, p) = g[Len(r)]
  BY <1>1, <1>7, CountInIs
<1> QED BY <1>6, <1>8 DEF n

LEMMA CountAppended ==
  ASSUME NEW r \in Seq(Kept), NEW e \in Kept, NEW p
  PROVE  CountIn(Append(r, e), p) = CountIn(r, p) + (IF e.packet = p THEN e.repeat ELSE 0)
<1>1. PICK g : Sums(g, r, p, Len(r))
  BY SumsExist
<1> DEFINE n == Len(r)
           w == IF e.packet = p THEN e.repeat ELSE 0
           s == Append(r, e)
           h == [i \in 0 .. n + 1 |-> IF i <= n THEN g[i] ELSE g[n] + w]
<1>2. n \in Nat /\ s \in Seq(Kept) /\ Len(s) = n + 1 /\ s[n + 1] = e /\ \A i \in 1 .. n : s[i] = r[i]
  OBVIOUS
<1>3. w \in Int
  BY DEF Kept
<1>4. Weight(s, p, n + 1) = w /\ \A i \in 1 .. n : Weight(s, p, i) = Weight(r, p, i)
  BY <1>2 DEF Weight
<1> HIDE DEF n, s, w
<1>5. h \in [0 .. n + 1 -> Int] /\ h[0] = 0 /\ h[n + 1] = g[n] + w
  BY <1>1, <1>2, <1>3 DEF Sums, n
<1>6. \A i \in 1 .. n + 1 : h[i] = h[i - 1] + Weight(s, p, i)
  BY <1>1, <1>2, <1>4 DEF Sums, n
<1> HIDE DEF h
<1>7. Sums(h, s, p, Len(s))
  BY <1>2, <1>5, <1>6 DEF Sums
<1>8. CountIn(s, p) = h[Len(s)] /\ CountIn(r, p) = g[Len(r)]
  BY <1>1, <1>2, <1>7, CountInIs
<1> QED BY <1>2, <1>5, <1>8 DEF n, s, w

LEMMA CountTail ==
  ASSUME NEW r \in Seq(Kept), Len(r) >= 1, NEW p
  PROVE  CountIn(r, p) = CountIn(Tail(r), p) + Weight(r, p, 1)
<1>1. PICK g : Sums(g, r, p, Len(r))
  BY SumsExist
<1> DEFINE n == Len(r) - 1
           s == Tail(r)
           w == Weight(r, p, 1)
           h == [i \in 0 .. n |-> g[i + 1] - w]
<1>2. n \in Nat /\ s \in Seq(Kept) /\ Len(s) = n /\ Len(r) = n + 1 /\ \A i \in 1 .. n : s[i] = r[i + 1]
  OBVIOUS
<1>3. w \in Int
  BY WeightType
<1>4. \A i \in 1 .. n : Weight(s, p, i) = Weight(r, p, i + 1)
  BY <1>2 DEF Weight
<1>5. g[1] = g[0] + w /\ g[0] = 0
  BY <1>1, <1>2 DEF Sums
<1>10. \A i \in 1 .. n : Weight(s, p, i) \in Int
  BY <1>2, WeightType
<1>11. /\ \A i \in 0 .. n + 1 : g[i] \in Int
       /\ \A i \in 1 .. n + 1 : g[i] = g[i - 1] + Weight(r, p, i)
  BY <1>1, <1>2 DEF Sums
<1> HIDE DEF n, s, w
<1>6. h \in [0 .. n -> Int] /\ h[0] = 0 /\ h[n] = g[n + 1] - w
  BY <1>1, <1>2, <1>3, <1>5 DEF Sums
<1>7. \A i \in 1 .. n : h[i] = h[i - 1] + Weight(s, p, i)
  <2> TAKE i \in 1 .. n
  <2>1. /\ i + 1 \in 1 .. n + 1 /\ i + 1 \in 0 .. n + 1 /\ i \in 0 .. n + 1
        /\ i \in 0 .. n /\ i - 1 \in 0 .. n /\ i - 1 + 1 = i /\ i + 1 - 1 = i
    BY <1>2
  <2>2. g[i + 1] = g[i] + Weight(r, p, i + 1)
    BY <1>11, <2>1
  <2>3. g[i + 1] \in Int /\ g[i] \in Int
    BY <1>11, <2>1
  <2>4. h[i] = g[i + 1] - w /\ h[i - 1] = g[i] - w
    BY <2>1
  <2> HIDE DEF h
  <2> QED BY <1>3, <1>4, <1>10, <2>2, <2>3, <2>4
<1> HIDE DEF h
<1>8. Sums(h, s, p, Len(s))
  BY <1>2, <1>6, <1>7 DEF Sums
<1>9. CountIn(s, p) = h[n] /\ CountIn(r, p) = g[n + 1] /\ g[n + 1] \in Int
  <2>1. CountIn(s, p) = h[n]
    BY <1>2, <1>8, CountInIs
  <2>2. CountIn(r, p) = g[n + 1]
    BY <1>1, <1>2, CountInIs
  <2>3. n + 1 \in 0 .. n + 1
    BY <1>2
  <2> QED BY <1>11, <2>1, <2>2, <2>3
<1> QED BY <1>3, <1>6, <1>9 DEF s, w

LEMMA CountInType == ASSUME NEW r \in Seq(Kept), NEW p PROVE CountIn(r, p) \in Int
<1>1. PICK g : Sums(g, r, p, Len(r))
  BY SumsExist
<1> QED BY <1>1, CountInIs DEF Sums

LEMMA CountEmpty == ASSUME NEW p PROVE CountIn(<<>>, p) = 0
<1> DEFINE g == [i \in 0 .. 0 |-> 0]
<1>1. Sums(g, <<>>, p, Len(<<>>))
  BY DEF Sums
<1>2. CountIn(<<>>, p) = g[Len(<<>>)]
  BY <1>1, CountInIs
<1> QED BY <1>2


-----------------------------------------------------------------------------
(* What emit counts.                                                       *)

\* How often p was counted: in the ring, and in what the ring lost.
Counted(t, p) == CountIn(t.ring, p) + t.gone[p]
One(p, q) == IF p = q THEN 1 ELSE 0

LEMMA TouchCounts ==
    ASSUME NEW t \in Traces, NEW k \in 1 .. Len(t.ring), NEW p
    PROVE  CountIn(Touch(t, k).ring, p) = CountIn(t.ring, p) /\ Touch(t, k).gone = t.gone
<1> DEFINE n == Len(t.ring)
           entry(i) == IF i < k THEN t.ring[i]
                       ELSE [t.ring[i] EXCEPT !.serial = t.serial + (i + 1 - k)]
           r == [i \in DOMAIN t.ring |-> entry(i)]
<1>1. t.ring \in Seq(Kept) /\ t.serial \in Nat /\ n \in Nat /\ k \in Nat /\ 1 <= k /\ k <= n
  BY DEF Traces
<1>2. \A i \in 1 .. n : entry(i) \in Kept /\ entry(i).packet = t.ring[i].packet /\ entry(i).repeat = t.ring[i].repeat
  <2> TAKE i \in 1 .. n
  <2>1. t.ring[i] \in Kept
    BY <1>1
  <2>2. t.serial + (i + 1 - k) \in Int
    BY <1>1
  <2> QED BY <2>1, <2>2 DEF Kept
<1>3. DOMAIN t.ring = 1 .. n
  BY <1>1
<1>4. r \in Seq(Kept) /\ Len(r) = n /\ \A i \in 1 .. n : r[i] = entry(i)
  <2> HIDE DEF entry
  <2>1. r = [i \in 1 .. n |-> entry(i)]
    BY <1>3
  <2>2. r \in [1 .. n -> Kept] /\ \A i \in 1 .. n : r[i] = entry(i)
    BY <1>2, <2>1
  <2> HIDE DEF r, n
  <2>3. r \in Seq(Kept) /\ Len(r) = n
    BY <1>1, <2>2
  <2> QED BY <2>2, <2>3
<1>5. Touch(t, k).ring = r /\ Touch(t, k).gone = t.gone
  BY DEF Touch, Traces
<1> HIDE DEF r, entry
<1>6. \A i \in 1 .. n : Weight(r, p, i) = Weight(t.ring, p, i) /\ Weight(t.ring, p, i) \in Int
  BY <1>1, <1>2, <1>4, WeightType DEF Weight
<1>7. CountIn(r, p) = CountIn(t.ring, p) + 0
  <2>1. \A i \in 1 .. n : Weight(r, p, i) = Weight(t.ring, p, i) + (IF i = k THEN 0 ELSE 0)
    BY <1>6
  <2>2. 0 \in Int /\ Len(r) = Len(t.ring) /\ k \in 1 .. Len(t.ring)
    BY <1>4
  <2> QED BY <1>1, <1>4, <2>1, <2>2, CountChanged
<1>8. CountIn(t.ring, p) \in Int
  BY <1>1, CountInType
<1> QED BY <1>5, <1>7, <1>8

\* Entry k counts once more, and once less.
LEMMA MoreCounts ==
    ASSUME NEW t \in Traces, NEW k \in 1 .. Len(t.ring), NEW p \in Packets
    PROVE  /\ Counted(More(t, k), p) = Counted(t, p) + One(p, t.ring[k].packet)
           /\ Counted(Less(t, k), p) = Counted(t, p) - One(p, t.ring[k].packet)
<1> DEFINE changed(d) == [t EXCEPT !.ring[k].repeat = t.ring[k].repeat + d]
<1>1. t.ring \in Seq(Kept) /\ t.ring[k] \in Kept /\ t.ring[k].repeat \in Int /\ t.gone[p] \in Int
  <2>1. t.ring \in Seq(Kept) /\ t.gone[p] \in Int
    BY DEF Traces
  <2>2. t.ring[k] \in Kept
    BY <2>1
  <2> QED BY <2>1, <2>2 DEF Kept
<1>2. CountIn(t.ring, p) \in Int
  BY <1>1, CountInType
<1>3. ASSUME NEW d \in Int
      PROVE  /\ changed(d) \in Traces /\ Len(changed(d).ring) = Len(t.ring)
             /\ Counted(Touch(changed(d), k), p) = Counted(t, p) + (IF p = t.ring[k].packet THEN d ELSE 0)
  <2> DEFINE e == [t.ring[k] EXCEPT !.repeat = t.ring[k].repeat + d]
             r == [t.ring EXCEPT ![k] = e]
             u == changed(d)
  <2>1. e \in Kept /\ e.packet = t.ring[k].packet /\ e.repeat = t.ring[k].repeat + d
    <3> DEFINE x == t.ring[k]
    <3>1. x \in Kept /\ e = [x EXCEPT !.repeat = x.repeat + d] /\ x.repeat + d \in Int
      BY <1>1
    <3> HIDE DEF x, e
    <3>2. e \in Kept /\ e.packet = x.packet /\ e.repeat = x.repeat + d
      BY <3>1 DEF Kept
    <3> QED BY <3>2 DEF x
  <2>2. u = [t EXCEPT !.ring = r]
    BY <1>1 DEF Kept
  <2> HIDE DEF e
  <2>3. r \in Seq(Kept) /\ Len(r) = Len(t.ring) /\ r[k] = e /\ \A i \in 1 .. Len(r) : i # k => r[i] = t.ring[i]
    BY <1>1, <2>1
  <2> HIDE DEF r, changed
  <2>4. u \in Traces /\ u.ring = r /\ u.gone = t.gone
    BY <2>2, <2>3 DEF Traces
  <2> DEFINE c == IF p = t.ring[k].packet THEN d ELSE 0
  <2>5. \A i \in 1 .. Len(t.ring) : Weight(r, p, i) = Weight(t.ring, p, i) + (IF i = k THEN c ELSE 0)
    <3> TAKE i \in 1 .. Len(t.ring)
    <3>1. Weight(t.ring, p, i) \in Int
      BY <1>1, WeightType
    <3>2. CASE i = k
      BY <1>1, <2>1, <2>3, <3>2 DEF Weight
    <3>3. CASE i # k
      BY <2>3, <3>1, <3>3 DEF Weight
    <3> QED BY <3>2, <3>3
  <2>6. c \in Int
    OBVIOUS
  <2> HIDE DEF c
  <2>7. CountIn(r, p) = CountIn(t.ring, p) + c
    BY <1>1, <2>3, <2>5, <2>6, CountChanged
  <2>8. CountIn(Touch(u, k).ring, p) = CountIn(r, p) /\ Touch(u, k).gone = t.gone
    BY <2>3, <2>4, TouchCounts
  <2>9. Counted(Touch(u, k), p) = Counted(t, p) + c
    BY <1>1, <1>2, <2>6, <2>7, <2>8 DEF Counted
  <2> QED BY <2>3, <2>4, <2>9 DEF c
<1>4. More(t, k) = Touch(changed(1), k) /\ Less(t, k) = Touch(changed(-1), k)
  <2>1. t.ring[k].repeat - 1 = t.ring[k].repeat + (-1)
    BY <1>1
  <2> QED BY <2>1 DEF More, Less
<1> HIDE DEF changed
<1>5. Counted(t, p) \in Int
  BY <1>1, <1>2 DEF Counted
<1>6. 1 \in Int /\ -1 \in Int
  OBVIOUS
<1>7. Counted(More(t, k), p) = Counted(t, p) + (IF p = t.ring[k].packet THEN 1 ELSE 0)
  BY <1>3, <1>4, <1>6
<1>8. Counted(Less(t, k), p) = Counted(t, p) + (IF p = t.ring[k].packet THEN -1 ELSE 0)
  BY <1>3, <1>4, <1>6
<1> QED BY <1>5, <1>7, <1>8 DEF One

\* What a full ring loses goes on counting, and the new entry counts once.
LEMMA PushCounts ==
    ASSUME NEW t \in Traces, NEW p \in Packets, NEW q \in Packets
    PROVE  Counted(Push(t, p), q) = Counted(t, q) + One(q, p)
<1> DEFINE e == Evict(t)
           new == [packet |-> p, repeat |-> 1, serial |-> 0]
           a == [e EXCEPT !.ring = Append(@, new)]
<1>1. e \in Traces /\ Counted(e, q) = Counted(t, q)
  <2>1. CASE Len(t.ring) < TraceMax
    BY <2>1 DEF Evict
  <2>2. CASE ~(Len(t.ring) < TraceMax)
    <3>1. t.ring \in Seq(Kept) /\ Len(t.ring) >= 1
      BY <2>2, TraceAssumption DEF Traces
    <3> DEFINE x == t.ring[1]
    <3>2. x \in Kept /\ x.packet \in Packets /\ x.repeat \in Int /\ Tail(t.ring) \in Seq(Kept)
      <4>1. x \in Kept /\ Tail(t.ring) \in Seq(Kept)
        BY <3>1
      <4> QED BY <4>1 DEF Kept
    <3> DEFINE gone == [t.gone EXCEPT ![x.packet] = @ + x.repeat]
    <3>3. e = [t EXCEPT !.ring = Tail(t.ring), !.gone = gone]
      BY <2>2 DEF Evict, Traces
    <3>4. gone \in [Packets -> Int] /\ t.gone \in [Packets -> Int]
          /\ gone[q] = t.gone[q] + (IF x.packet = q THEN x.repeat ELSE 0)
      BY <3>2 DEF Traces
    <3> HIDE DEF gone
    <3>5. e \in Traces /\ e.ring = Tail(t.ring) /\ e.gone = gone
      BY <3>2, <3>3, <3>4 DEF Traces
    <3>6. CountIn(t.ring, q) = CountIn(Tail(t.ring), q) + (IF x.packet = q THEN x.repeat ELSE 0)
      BY <3>1, CountTail DEF Weight
    <3>7. CountIn(t.ring, q) \in Int /\ CountIn(Tail(t.ring), q) \in Int
      BY <3>1, <3>2, CountInType
    <3>8. t.gone[q] \in Int
      BY <3>4
    <3> HIDE DEF x
    <3> QED BY <3>2, <3>4, <3>5, <3>6, <3>7, <3>8 DEF Counted
  <2> QED BY <2>1, <2>2
<1> HIDE DEF e
<1>2. new \in Kept /\ new.packet = p /\ new.repeat = 1
  BY DEF Kept
<1> HIDE DEF new
<1>3. e.ring \in Seq(Kept) /\ e.gone[q] \in Int
  BY <1>1 DEF Traces
<1>4. Append(e.ring, new) \in Seq(Kept) /\ Len(Append(e.ring, new)) = Len(e.ring) + 1 /\ Len(e.ring) \in Nat
  BY <1>2, <1>3
<1>5. a \in Traces /\ a.ring = Append(e.ring, new) /\ a.gone = e.gone
  BY <1>1, <1>4 DEF Traces
<1>6. CountIn(a.ring, q) = CountIn(e.ring, q) + One(q, p) /\ CountIn(e.ring, q) \in Int
  BY <1>2, <1>3, <1>5, CountAppended, CountInType DEF One
<1>7. Push(t, p) = Touch(a, Len(e.ring) + 1)
  BY DEF Push, e, new
<1> HIDE DEF a
<1>8. Len(e.ring) + 1 \in 1 .. Len(a.ring)
  BY <1>4, <1>5
<1>9. Counted(Push(t, p), q) = Counted(a, q)
  BY <1>5, <1>7, <1>8, TouchCounts DEF Counted
<1>10. One(q, p) \in Int
  BY DEF One
<1> QED BY <1>1, <1>3, <1>5, <1>6, <1>9, <1>10 DEF Counted

LEMMA PlaceCounts ==
    ASSUME NEW t \in Traces, NEW p \in Packets, NEW q \in Packets, ~t.pending
    PROVE  Counted(Place(t, p), q) = Counted(t, q) + One(q, p)
<1> DEFINE n == Len(t.ring)
           folds == /\ n >= 2
                    /\ t.ring[n].packet # p
                    /\ t.ring[n - 1].packet = p
                    /\ ToHost(t.ring[n - 1].packet) # ToHost(t.ring[n].packet)
                    /\ t.ring[n - 1].repeat = t.ring[n].repeat
           again == n >= 1 /\ t.ring[n].packet = p
<1>1. n \in Nat
  BY DEF Traces
<1>2. CASE again
  <2>1. Place(t, p) = More(t, n)
    BY <1>2 DEF Place
  <2> QED BY <1>1, <1>2, <2>1, MoreCounts
<1>3. CASE ~again /\ ~folds
  <2>1. Place(t, p) = Push(t, p)
    BY <1>3 DEF Place
  <2> QED BY <2>1, PushCounts
<1>4. CASE folds
  <2>1. n - 1 \in 1 .. n /\ n >= 2
    BY <1>1, <1>4
  <2>2. Place(t, p) = [More(t, n - 1) EXCEPT !.pending = TRUE]
    BY <1>4 DEF Place
  <2>3. More(t, n - 1) \in Traces /\ Counted(More(t, n - 1), q) = Counted(t, q) + One(q, p)
    BY <1>4, <2>1, MoreFresh, MoreCounts DEF Fresh
  <2> DEFINE m == More(t, n - 1)
  <2> HIDE DEF m
  <2>4. [m EXCEPT !.pending = TRUE].ring = m.ring /\ [m EXCEPT !.pending = TRUE].gone = m.gone
    BY <2>3 DEF Traces, m
  <2> QED BY <2>2, <2>3, <2>4 DEF Counted, m
<1> QED BY <1>2, <1>3, <1>4

\* A packet that is fed counts once more, and no other does: what is taken
\* back of the last exchange is pushed again.
LEMMA EmitCounts ==
    ASSUME NEW t \in Traces, NEW p \in Packets, NEW q \in Packets, PairPending(t)
    PROVE  Counted(Emit(t, p), q) = Counted(t, q) + One(q, p)
<1> DEFINE n == Len(t.ring)
           s == [t EXCEPT !.pending = FALSE]
<1>1. s \in Traces /\ s.ring = t.ring /\ s.gone = t.gone /\ s.pending = FALSE /\ n \in Nat
  <2>1. t.ring \in Seq(Kept)
    BY DEF Traces
  <2>2. n \in Nat
    BY <2>1
  <2>3. s \in Traces /\ s.ring = t.ring /\ s.gone = t.gone /\ s.pending = FALSE
    BY DEF Traces
  <2> HIDE DEF n, s
  <2> QED BY <2>2, <2>3
<1>2. t.pending \in BOOLEAN
  BY DEF Traces
<1>3. Counted(s, q) = Counted(t, q)
  BY <1>1 DEF Counted
<1>4. CASE ~t.pending
  <2>1. Emit(t, p) = Place(s, p)
    BY <1>4 DEF Emit
  <2> HIDE DEF s
  <2> QED BY <1>1, <1>3, <2>1, PlaceCounts
<1>5. CASE t.pending /\ t.ring[n].packet = p
  <2>1. Emit(t, p) = More(s, n)
    BY <1>5 DEF Emit
  <2>2. n \in 1 .. Len(s.ring) /\ s.ring[n].packet = p
    BY <1>1, <1>5 DEF PairPending
  <2> HIDE DEF s
  <2> QED BY <1>1, <1>3, <2>1, <2>2, MoreCounts
<1>6. CASE t.pending /\ t.ring[n].packet # p
  <2>1. Emit(t, p) = Place(TakeBack(s), p)
    BY <1>6 DEF Emit
  <2>2. n - 1 \in 1 .. Len(s.ring)
    BY <1>1, <1>6 DEF PairPending
  <2> HIDE DEF s
  <2> DEFINE x == s.ring[n - 1].packet
             l == Less(s, n - 1)
             b == Push(l, x)
  <2>3. x \in Packets
    <3>1. s.ring \in Seq(Kept)
      BY <1>1 DEF Traces
    <3>2. s.ring[n - 1] \in Kept
      BY <2>2, <3>1
    <3> QED BY <3>2 DEF Kept
  <2>4. Fresh(l, s.serial) /\ l.pending = FALSE /\ Counted(l, q) = Counted(s, q) - One(q, x)
    BY <1>1, <2>2, MoreFresh, MoreCounts
  <2>5. TakeBack(s) = b
    BY <1>1 DEF TakeBack
  <2> HIDE DEF x, l
  <2>6. l \in Traces
    BY <2>4 DEF Fresh
  <2>7. Fresh(b, l.serial) /\ b.pending = FALSE /\ Counted(b, q) = Counted(l, q) + One(q, x)
    BY <2>3, <2>4, <2>6, PushFresh, PushCounts
  <2> HIDE DEF b
  <2>8. Counted(Place(b, p), q) = Counted(b, q) + One(q, p)
    <3>1. b \in Traces
      BY <2>7 DEF Fresh
    <3> QED BY <2>7, <3>1, PlaceCounts
  <2>9. Counted(s, q) \in Int /\ One(q, x) \in Int
    <3>1. s.ring \in Seq(Kept) /\ s.gone[q] \in Int
      BY <1>1 DEF Traces
    <3> QED BY <3>1, CountInType DEF Counted, One
  <2> QED BY <1>3, <2>1, <2>4, <2>5, <2>7, <2>8, <2>9
<1> QED BY <1>2, <1>4, <1>5, <1>6

-----------------------------------------------------------------------------
(* The trace and the window.                                               *)

\* The window's key is of a serial that was given out.
SeenInv == /\ trace \in Traces /\ PairPending(trace)
           /\ half \in Replies \cup {NoHalf}
           /\ shownKey \in Nat \X Nat /\ shownKey[2] <= trace.serial
           /\ trace.ring # <<>> => trace.ring[Len(trace.ring)].serial = trace.serial
           /\ ChangeIsSeen

LEMMA EmptyEntries == Entries(<<>>) = <<>> /\ Key(<<>>) = <<0, 0>>
BY DEF Entries, Key

LEMMA InitSeenInv == TraceInit => SeenInv
<1> SUFFICES ASSUME TraceInit PROVE SeenInv
  OBVIOUS
<1>1. trace \in Traces /\ trace.ring = <<>> /\ trace.serial = 0 /\ trace.pending = FALSE
  BY DEF TraceInit, Traces, Zero
<1>2. shown = <<>> /\ shownKey = <<0, 0>> /\ half = NoHalf
  BY DEF TraceInit
<1> QED BY <1>1, <1>2, EmptyEntries DEF SeenInv, PairPending, ChangeIsSeen

LEMMA FedSeen == ASSUME SeenInv, NEW p \in Packets, Fed(p), half' \in Replies \cup {NoHalf}
                 PROVE  SeenInv'
<1>1. trace' = Emit(trace, p) /\ UNCHANGED <<shown, shownKey>>
  BY DEF Fed
<1>2. Fresh(trace', trace.serial) /\ PairPending(trace')
  BY <1>1, EmitFresh DEF SeenInv
<1>3. trace' \in Traces /\ Len(trace'.ring) >= 1 /\ trace'.serial > trace.serial
      /\ trace'.ring[Len(trace'.ring)].serial = trace'.serial
  BY <1>2 DEF Fresh
<1>4. trace.serial \in Nat /\ trace'.serial \in Nat
  BY <1>3 DEF SeenInv, Traces
<1>5. shownKey[2] < trace'.serial /\ shownKey \in Nat \X Nat
  BY <1>3, <1>4 DEF SeenInv
<1>6. trace'.ring # <<>>
  BY <1>3
<1>7. Key(trace'.ring)[2] = trace'.serial
  BY <1>3, <1>6 DEF Key
<1>8. shownKey' # Key(trace'.ring)
  BY <1>1, <1>4, <1>5, <1>7
<1>9. ChangeIsSeen'
  BY <1>8 DEF ChangeIsSeen
<1>10. shownKey' \in Nat \X Nat /\ shownKey'[2] <= trace'.serial
  BY <1>1, <1>4, <1>5
<1> QED BY <1>2, <1>3, <1>9, <1>10 DEF SeenInv

LEMMA StepSeenInv == SeenInv /\ [TraceNext]_traceVars => SeenInv'
<1> SUFFICES ASSUME SeenInv, [TraceNext]_traceVars PROVE SeenInv'
  OBVIOUS
<1>1. CASE FeedRequest
  BY <1>1, FedSeen DEF FeedRequest, Packets
<1>2. CASE FeedReplyHead
  BY <1>2 DEF FeedReplyHead, SeenInv, ChangeIsSeen, PairPending
<1>3. CASE FeedReplyRest
  <2>1. CASE half # NoHalf /\ Fed(half) /\ half' = NoHalf
    BY <2>1, FedSeen DEF SeenInv, Packets
  <2>2. CASE half = NoHalf /\ Fed(Scrap) /\ UNCHANGED half
    BY <2>2, FedSeen DEF Packets
  <2> QED BY <1>3, <2>1, <2>2 DEF FeedReplyRest
<1>4. CASE ShowTrace
  <2>1. UNCHANGED <<trace, half>>
    BY <1>4 DEF ShowTrace
  <2>2. CASE shownKey = Key(trace.ring)
    BY <1>4, <2>1, <2>2 DEF ShowTrace, SeenInv, ChangeIsSeen, PairPending
  <2>3. CASE shownKey # Key(trace.ring)
    <3>1. shown' = Entries(trace.ring) /\ shownKey' = Key(trace.ring)
      BY <1>4, <2>3 DEF ShowTrace
    <3>2. trace.ring \in Seq(Kept) /\ trace.serial \in Nat
      BY DEF SeenInv, Traces
    <3>3. Key(trace.ring) \in Nat \X Nat /\ Key(trace.ring)[2] <= trace.serial
      BY <3>2 DEF Key, SeenInv
    <3> QED BY <2>1, <3>1, <3>3 DEF SeenInv, ChangeIsSeen, PairPending
  <2> QED BY <2>2, <2>3
<1>5. CASE Clear
  <2>1. trace' = [trace EXCEPT !.ring = <<>>, !.pending = FALSE, !.gone = Zero]
    BY <1>5 DEF Clear, ClearTrace
  <2>2. shown' = <<>> /\ shownKey' = <<0, 0>> /\ half' = half
    BY <1>5 DEF Clear
  <2>3. <<>> \in Seq(Kept) /\ Zero \in [Packets -> Int]
    BY DEF Zero
  <2>4. trace' \in Traces /\ trace'.ring = <<>> /\ trace'.pending = FALSE /\ trace'.serial \in Nat
    BY <2>1, <2>3 DEF SeenInv, Traces
  <2>5. ChangeIsSeen'
    BY <2>2, <2>4, EmptyEntries DEF ChangeIsSeen
  <2> QED BY <2>2, <2>4, <2>5 DEF SeenInv, PairPending
<1>6. CASE UNCHANGED traceVars
  BY <1>6 DEF traceVars, SeenInv, ChangeIsSeen, PairPending
<1> QED BY <1>1, <1>2, <1>3, <1>4, <1>5, <1>6 DEF TraceNext

\* fujitrace.c's touch, and the comparison in the refresh of each debugger
\* window: a window that finds the count and the last serial unchanged shows
\* every entry as it is, after any folding, taking back, eviction or clear.
THEOREM ChangeAlwaysSeen == TraceSpec => []ChangeIsSeen
<1>1. SeenInv => ChangeIsSeen
  BY DEF SeenInv
<1> QED BY <1>1, InitSeenInv, StepSeenInv, PTL DEF TraceSpec


\* Every packet that was fed was counted.
CountInv == fed \in [Packets -> Int] /\ NothingMiscounted

LEMMA InitCountInv == TraceInit => CountInv
<1> SUFFICES ASSUME TraceInit PROVE CountInv
  OBVIOUS
<1>1. trace.ring = <<>> /\ trace.gone = Zero /\ fed = Zero
  BY DEF TraceInit
<1> QED BY <1>1, CountEmpty DEF CountInv, NothingMiscounted, Zero

LEMMA FedCounts == ASSUME SeenInv, CountInv, NEW p \in Packets, Fed(p)
                   PROVE  CountInv'
<1>1. trace' = Emit(trace, p) /\ fed' = [fed EXCEPT ![p] = @ + 1]
  BY DEF Fed
<1>2. \A q \in Packets : Counted(trace', q) = Counted(trace, q) + One(q, p)
  BY <1>1, EmitCounts DEF SeenInv
<1>3. \A q \in Packets : Counted(trace, q) = fed[q] /\ fed[q] \in Int
  BY DEF CountInv, NothingMiscounted, Counted
<1>4. fed' \in [Packets -> Int] /\ \A q \in Packets : fed'[q] = fed[q] + One(q, p)
  BY <1>1, <1>3 DEF CountInv, One
<1> QED BY <1>2, <1>3, <1>4 DEF CountInv, NothingMiscounted, Counted

LEMMA StepCountInv == SeenInv /\ CountInv /\ [TraceNext]_traceVars => CountInv'
<1> SUFFICES ASSUME SeenInv, CountInv, [TraceNext]_traceVars PROVE CountInv'
  OBVIOUS
<1>1. CASE FeedRequest
  BY <1>1, FedCounts DEF FeedRequest, Packets
<1>2. CASE FeedReplyHead
  BY <1>2 DEF FeedReplyHead, CountInv, NothingMiscounted
<1>3. CASE FeedReplyRest
  <2>1. CASE half # NoHalf /\ Fed(half) /\ half' = NoHalf
    BY <2>1, FedCounts DEF SeenInv, Packets
  <2>2. CASE half = NoHalf /\ Fed(Scrap) /\ UNCHANGED half
    BY <2>2, FedCounts DEF Packets
  <2> QED BY <1>3, <2>1, <2>2 DEF FeedReplyRest
<1>4. CASE ShowTrace
  BY <1>4 DEF ShowTrace, CountInv, NothingMiscounted
<1>5. CASE Clear
  <2>1. trace' = [trace EXCEPT !.ring = <<>>, !.pending = FALSE, !.gone = Zero] /\ fed' = Zero
    BY <1>5 DEF Clear, ClearTrace
  <2>2. trace'.ring = <<>> /\ trace'.gone = Zero
    BY <2>1 DEF SeenInv, Traces
  <2> QED BY <2>1, <2>2, CountEmpty DEF CountInv, NothingMiscounted, Zero
<1>6. CASE UNCHANGED traceVars
  BY <1>6 DEF traceVars, CountInv, NothingMiscounted
<1> QED BY <1>1, <1>2, <1>3, <1>4, <1>5, <1>6 DEF TraceNext

\* fujitrace.c's emit, push and fold: each packet that was fed is counted
\* exactly once, whatever was folded, taken back or pushed out of the ring.
THEOREM NothingMiscountedAlways == TraceSpec => []NothingMiscounted
<1>1. CountInv => NothingMiscounted
  BY DEF CountInv
<1> QED BY <1>1, InitSeenInv, StepSeenInv, InitCountInv, StepCountInv, PTL DEF TraceSpec


-----------------------------------------------------------------------------
(* The panes.                                                              *)

WindowTypes ==
    /\ paused \in BOOLEAN /\ serial \in Nat
    /\ window \in {"closed", "shown", "hidden"} /\ tick \in BOOLEAN
    /\ stage \in {"idle", "compare", "redraw", "tail"}
    /\ got \in Nat /\ seen_serial \in Nat /\ was_paused \in {"paused", "running", "unknown"}

\* A serial that was read was given out; a machine that stands has one; what
\* macOS's window has never polled it has never drawn.
SerialsInv ==
    /\ seen_serial <= serial /\ got <= serial
    /\ paused => serial >= 1
    /\ front = "macos" => /\ stage \in {"idle", "compare"}
                          /\ stage = "compare" => tick
                          /\ ~tick => seen_serial = 0

\* Outside of a redraw, the serial last drawn, if it is the present one, was
\* drawn of a machine that stood; and then with the panes as they are now.
DrawnPanes ==
    /\ stage # "redraw" /\ seen_serial = serial /\ paused => was_paused = "paused"
    /\ stage # "redraw" /\ seen_serial = serial /\ was_paused = Mode => panes = Truth

PanesInv == WindowTypes /\ SerialsInv /\ DrawnPanes

USE DEF Panes, Registers, Lines, Memory, Picture

LEMMA InitPanesInv == WindowInit => PanesInv
<1> SUFFICES ASSUME WindowInit PROVE PanesInv
  OBVIOUS
<1> USE DEF WindowInit, StopInit, NewWindow
<1>1. WindowTypes
  BY DEF WindowTypes
<1>2. SerialsInv
  BY DEF SerialsInv
<1>3. panes = Truth
  BY DEF Truth, NoPanes
<1> QED BY <1>1, <1>2, <1>3 DEF PanesInv, DrawnPanes


LEMMA EnginePanes == PanesInv /\ Engine => PanesInv'
<1> SUFFICES ASSUME PanesInv, Engine PROVE PanesInv'
  OBVIOUS
<1> USE DEF Engine, windowVars, PanesInv
<1>1. CASE Stops
  <2>1. WindowTypes'
    BY <1>1 DEF Stops, WindowTypes
  <2>2. SerialsInv' /\ seen_serial' # serial'
    BY <1>1 DEF Stops, SerialsInv, WindowTypes
  <2> QED BY <2>1, <2>2 DEF DrawnPanes
<1>2. CASE Lapses
  BY <1>2 DEF Lapses, WindowTypes, SerialsInv, DrawnPanes, Mode, Truth
<1> QED BY <1>1, <1>2

LEMMA PollPanes == ASSUME PanesInv, Poll PROVE PanesInv'
<1> USE DEF PanesInv
<1>1. CASE PollReads
  BY <1>1 DEF PollReads, stopVars, WindowTypes, SerialsInv, DrawnPanes, Mode, Truth
<1>2. CASE PollCompares
  <2> USE <1>2 DEF PollCompares, stopVars
  <2>1. WindowTypes'
    BY DEF WindowTypes, Mode
  <2>2. SerialsInv'
    BY DEF WindowTypes, SerialsInv
  <2>3. CASE got = seen_serial /\ was_paused = Mode
    BY <2>1, <2>2, <2>3 DEF DrawnPanes, Mode, Truth
  <2>4. CASE ~(got = seen_serial /\ was_paused = Mode) /\ front # "macos"
    BY <2>1, <2>2, <2>4 DEF DrawnPanes
  <2>5. CASE ~(got = seen_serial /\ was_paused = Mode) /\ front = "macos"
    <3>1. was_paused' = Mode /\ panes' = Panes(paused) /\ paused' = paused
      BY <2>5
    <3>2. panes' = Truth' /\ Mode' = Mode
      BY <3>1 DEF Truth, Mode
    <3> QED BY <2>1, <2>2, <3>1, <3>2 DEF DrawnPanes, Mode
  <2> QED BY <2>3, <2>4, <2>5
<1>3. CASE Redraws
  <2> USE <1>3 DEF Redraws, stopVars
  <2>1. WindowTypes' /\ SerialsInv'
    BY DEF WindowTypes, SerialsInv, Mode
  <2>2. panes' = Truth' /\ was_paused' = Mode'
    BY DEF Truth, Mode
  <2> QED BY <2>1, <2>2 DEF DrawnPanes, Mode
<1>4. CASE PollEnds
  BY <1>4 DEF PollEnds, stopVars, WindowTypes, SerialsInv, DrawnPanes, Mode, Truth
<1> QED BY <1>1, <1>2, <1>3, <1>4 DEF Poll

\* What a machine that stands shows is forgotten as it is let go: its window
\* was drawn as "paused", so that "running" is news.
LEMMA LetsGoPanes ==
    ASSUME PanesInv, stage = "idle", stage' = stage,
           NEW step \in BOOLEAN, NEW once \in BOOLEAN, LetsGo(step, once),
           UNCHANGED <<front, window, got, seen_serial, was_paused, mem, card, syms, panes>>,
           tick' \in BOOLEAN, front = "macos" => tick' = tick
    PROVE  PanesInv'
<1>1. WindowTypes' /\ SerialsInv'
  BY DEF PanesInv, WindowTypes, SerialsInv, LetsGo
<1>2. paused /\ ~paused' /\ serial' = serial
  BY DEF LetsGo
<1>3. seen_serial = serial => was_paused = "paused"
  BY <1>2 DEF PanesInv, DrawnPanes
<1>4. DrawnPanes'
  BY <1>2, <1>3 DEF DrawnPanes, Mode
<1> QED BY <1>1, <1>4 DEF PanesInv

LEMMA OpensPanes == PanesInv /\ Opens => PanesInv'
<1> SUFFICES ASSUME PanesInv, Opens PROVE PanesInv'
  OBVIOUS
<1> USE DEF Opens, Handler, Act, Asks, PanesInv
<1>1. WindowTypes' /\ SerialsInv'
  BY DEF WindowTypes, SerialsInv
<1>2. CASE front = "macos" /\ ~tick
  <2>1. seen_serial = 0 /\ was_paused' = "unknown" /\ UNCHANGED <<seen_serial, serial, paused>>
    BY <1>2 DEF SerialsInv
  <2>2. ~(seen_serial = serial /\ paused)
    BY <2>1 DEF SerialsInv, WindowTypes
  <2> QED BY <1>1, <2>1, <2>2 DEF DrawnPanes, Mode
<1>3. CASE ~(front = "macos" /\ ~tick)
  BY <1>1, <1>3 DEF DrawnPanes, Mode, Truth
<1> QED BY <1>2, <1>3

LEMMA ClosesPanes == PanesInv /\ Closes => PanesInv'
<1> SUFFICES ASSUME PanesInv, Closes PROVE PanesInv'
  OBVIOUS
<1>1. paused' = FALSE /\ serial' = serial
  BY DEF Closes, Releases, LetsGo, stopVars, PanesInv, WindowTypes
<1>2. WindowTypes' /\ SerialsInv'
  <2> USE DEF Closes, Handler, PanesInv
  <2>1. paused' \in BOOLEAN /\ serial' \in Nat /\ window' = "closed" /\ stage' = "idle" /\ got' \in Nat
    BY <1>1 DEF WindowTypes
  <2>2. /\ seen_serial' = seen_serial \/ seen_serial' = 0
        /\ was_paused' = was_paused \/ was_paused' = "running"
        /\ tick' \in BOOLEAN
    BY DEF WindowTypes
  <2>3. WindowTypes'
    BY <2>1, <2>2 DEF WindowTypes
  <2>4. SerialsInv'
    BY <1>1 DEF WindowTypes, SerialsInv
  <2> QED BY <2>3, <2>4
<1>3. CASE front # "macos"
  <2>1. panes' = NoPanes
    BY <1>3 DEF Closes
  <2>2. Truth' = [run |-> FALSE, regs |-> 0, rows |-> <<>>, words |-> <<>>, stic |-> panes'.stic]
    BY <1>1 DEF Truth
  <2>3. Truth' = NoPanes
    BY <2>1, <2>2 DEF NoPanes
  <2> QED BY <1>1, <1>2, <2>1, <2>3 DEF PanesInv, DrawnPanes
<1>4. CASE front = "macos" /\ paused
  <2>1. seen_serial = serial => was_paused = "paused"
    BY <1>4 DEF Closes, Handler, PanesInv, DrawnPanes
  <2> QED BY <1>1, <1>2, <1>4, <2>1 DEF Closes, PanesInv, DrawnPanes, Mode
<1>5. CASE front = "macos" /\ ~paused
  <2>1. UNCHANGED <<paused, serial, stage, seen_serial, was_paused, panes>> /\ paused = FALSE
    BY <1>1, <1>5 DEF Closes, Handler, PanesInv, WindowTypes
  <2>2. Truth' = Truth /\ Mode' = Mode
    BY <2>1 DEF Truth, Mode
  <2> QED BY <1>2, <2>1, <2>2 DEF PanesInv, DrawnPanes
<1> QED BY <1>3, <1>4, <1>5 DEF PanesInv, WindowTypes

LEMMA HidesPanes == PanesInv /\ (Hides \/ Shows) => PanesInv'
<1> SUFFICES ASSUME PanesInv, Hides \/ Shows PROVE PanesInv'
  OBVIOUS
<1> USE DEF Hides, Shows, Handler, stopVars, PanesInv
<1>1. WindowTypes'
  BY DEF WindowTypes
<1>2. SerialsInv'
  BY DEF WindowTypes, SerialsInv
<1>3. DrawnPanes'
  BY DEF DrawnPanes, Mode, Truth
<1> QED BY <1>1, <1>2, <1>3

\* A command that forgets the serial: with no stop so far the machine runs,
\* and of a machine that runs the panes say nothing that it has changed.
LEMMA ForgetsPanes ==
    ASSUME PanesInv, Command, seen_serial' = 0,
           UNCHANGED <<paused, serial>>,
           was_paused' \in {was_paused, Mode},
           ~paused => was_paused' = was_paused /\ panes' = panes
    PROVE  PanesInv'
<1>1. WindowTypes' /\ SerialsInv'
  <2> USE DEF Command, Handler, PanesInv
  <2>1. WindowTypes'
    BY DEF WindowTypes, Mode
  <2>2. SerialsInv'
    BY DEF WindowTypes, SerialsInv
  <2> QED BY <2>1, <2>2
<1>2. CASE serial = 0
  <2>1. ~paused /\ seen_serial = serial
    BY <1>2 DEF PanesInv, SerialsInv, WindowTypes
  <2> QED BY <1>1, <2>1 DEF Command, Handler, PanesInv, DrawnPanes, Mode, Truth
<1>3. CASE serial # 0
  BY <1>1, <1>3 DEF PanesInv, DrawnPanes
<1> QED BY <1>2, <1>3

LEMMA UserPanes == ASSUME PanesInv, User PROVE PanesInv'
<1>1. CASE RunPause \/ Step \/ StepOver \/ StepOut
  <2>1. /\ stage = "idle" /\ stage' = stage
        /\ UNCHANGED <<front, window, got, seen_serial, was_paused, mem, card, syms, panes>>
        /\ tick' \in BOOLEAN /\ (front = "macos" => tick' = tick)
    BY <1>1 DEF RunPause, Step, StepOver, StepOut, Command, Handler, ViewsStay, PanesInv, WindowTypes
  <2>2. \/ \E step, once \in BOOLEAN : LetsGo(step, once)
        \/ Asks
    BY <1>1 DEF RunPause, Step, StepOver, StepOut
  <2>3. CASE Asks
    BY <2>1, <2>3 DEF Asks, PanesInv, WindowTypes, SerialsInv, DrawnPanes, Mode, Truth
  <2> QED BY <2>1, <2>2, <2>3, LetsGoPanes
<1>2. CASE (\E a \in Places : Toggle(a)) \/ ClearMarks
  BY <1>2, ForgetsPanes DEF Toggle, ClearMarks, Marks
<1>3. CASE \E m \in Spots : GoToAddr(m) \/ GoToSymbol(m) \/ CardsPage(m)
  BY <1>3, ForgetsPanes DEF GoToAddr, GoToSymbol, CardsPage, stopVars
<1>4. CASE Symbols
  <2>1. /\ Command /\ seen_serial' = 0 /\ UNCHANGED <<paused, serial>>
        /\ was_paused' \in {was_paused, Mode}
        /\ ~paused => was_paused' = was_paused /\ panes' = panes
    BY <1>4 DEF Symbols, stopVars, Mode
  <2> QED BY <2>1, ForgetsPanes
<1> QED BY <1>1, <1>2, <1>3, <1>4, OpensPanes, ClosesPanes, HidesPanes DEF User

LEMMA StepPanesInv == PanesInv /\ [WindowNext]_debugWindowVars => PanesInv'
<1>1. ASSUME PanesInv, UNCHANGED debugWindowVars PROVE PanesInv'
  BY <1>1 DEF debugWindowVars, stopVars, windowVars, PanesInv, WindowTypes, SerialsInv, DrawnPanes,
              Mode, Truth
<1> QED BY <1>1, EnginePanes, PollPanes, UserPanes DEF WindowNext

\* However the machine's stops fall between the reads of a poll, and whatever
\* the user does to breakpoints, symbols and views, a window of any of the four
\* frontends that finds the serial and the mode unchanged shows what is true
\* (dbg_window.c:557-561 and its three sisters).
THEOREM UnchangedAlwaysShown == WindowSpec => []UnchangedIsShown
<1>1. PanesInv => UnchangedIsShown
  BY DEF PanesInv, DrawnPanes, UnchangedIsShown
<1> QED BY InitPanesInv, StepPanesInv, <1>1, PTL DEF WindowSpec

=============================================================================
