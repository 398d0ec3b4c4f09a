---------------------------- MODULE DisplaysProofs ----------------------------
(***************************************************************************)
(* Theorems about the local displays, for any numbers of display objects   *)
(* and of seats.                                                           *)
(*                                                                         *)
(* A world is a state of what the handlers of a display's status read and  *)
(* write.  Fine(W, d) is what holds of the display object d between two    *)
(* callbacks; FineBut(W, X) says it of all the displays but those of X,    *)
(* which a handler is changing.  The lemmas say of every function of       *)
(* worlds which displays it changes and how; a step then keeps all the     *)
(* others fine by the lemma Untouched.                                     *)
(***************************************************************************)
EXTENDS Displays, TLAPS, FiniteSetTheorems, WellFoundedInduction, SequenceTheorems

(***************************************************************************)
(* The invariant.                                                          *)
(***************************************************************************)
Purge == [op |-> "purge", d |-> NoDisplay]

Entries ==
    {Purge, [op |-> "start elsewhere", d |-> NoDisplay]}
      \cup [op : {"finish", "ready"}, d : Displays]
      \cup [op : {"start"}, d : Displays \cup {NoDisplay}]

Worlds ==
    [disp : [Displays -> Display], idles : Seq(Entries), used : SUBSET (0..MaxNumber),
     fails : 0..(MaxDisplayFailures + 1), autod : Displays \cup {NoDisplay}, did : BOOLEAN]

Queued(W, op, d) == [op |-> op, d |-> d] \in Range(W.idles)

(* A source of a display is queued once.                                   *)
Once(q) == \A i, j \in 1..Len(q) : i # j /\ q[i] = q[j] => q[i].d = NoDisplay

(* A display that is in the store is the only one to have anything but     *)
(* the window of a greeter.                                                *)
GoneIsEmpty(r) ==
    ~r.stored => r = [Unused EXCEPT !.window = r.window, !.seat = r.seat, !.initial = r.initial]

(* A display of seat0 has no X server and does not end before its greeter. *)
SeatZeroOK(r) ==
    /\ r.leaked => r.seat = Seat0
    /\ r.seat = Seat0 => r.server = "none" /\ r.num = -1
    /\ r.seat = Seat0 /\ r.status \in Ended => r.env \notin Alive
    /\ r.status = "WAITING_TO_FINISH" => r.seat = Seat0 /\ r.class = "greeter"

(* What a display that has a user session, or an automatic login under     *)
(* way, looks like.                                                        *)
SessionOK(r) ==
    /\ LogsIn(r) => /\ r.seat = Seat0 /\ r.class = "greeter" /\ r.status = "PREPARED"
                    /\ r.env = "ready" /\ ~r.leaked
    /\ r.sess \in {"launched", "running"} => r.class = "user"
    /\ r.class = "user" => r.env = "none" /\ r.sess \in {"none", "launched", "running"}
    /\ r.class = "user" /\ r.seat = Seat0 => r.status # "PREPARED"

(* What the display of an X server looks like.                             *)
ServerOK(r) ==
    /\ r.server \in {"starting", "signalled"} =>
         /\ r.class = "greeter" /\ r.status = "PREPARED" /\ ~r.registered
         /\ r.env = "ready" /\ r.sess = "none"
    /\ r.server # "none" /\ r.registered => r.status = "MANAGED"

RecordOK(r) == GoneIsEmpty(r) /\ SeatZeroOK(r) /\ SessionOK(r) /\ ServerOK(r)

(* The sources queued for a display.                                       *)
SourcesOK(W, d) ==
    LET r == W.disp[d]
    IN /\ Queued(W, "finish", d) =>
            /\ r.stored /\ r.env \in {"none", "exited", "stopped"}
            /\ IF r.seat = Seat0 THEN r.class = "greeter" ELSE r.status # "MANAGED"
       /\ Queued(W, "ready", d) => r.server = "signalled"
       /\ Queued(W, "start", d) => r.stored /\ r.sess \in {"starting", "autostart"}
       /\ r.stored /\ r.status \in Ended => Purge \in Range(W.idles)
       /\ r.stored /\ r.class = "greeter" /\ ~r.setup /\ r.env \in {"exited", "stopped"}
            => r.status \in Ended \/ Queued(W, "finish", d)

(* The display of the automatic session.                                   *)
AutoOK(W, d) ==
    W.autod = d => /\ W.disp[d].stored /\ W.disp[d].seat = Seat0 /\ W.disp[d].class = "user"
                   /\ W.disp[d].status \notin Ended

Fine(W, d) == RecordOK(W.disp[d]) /\ SourcesOK(W, d) /\ AutoOK(W, d)

FineBut(W, X) == W \in Worlds /\ Once(W.idles) /\ \A d \in Displays \ X : Fine(W, d)

(* The variables that the handlers of a display's status do not change.    *)
EnvOK ==
    /\ seats \subseteq OtherSeats /\ inputs \in 0..MaxInputs
    /\ timer \in BOOLEAN /\ ran \in BOOLEAN /\ known \in BOOLEAN
    /\ exists \in BOOLEAN /\ up \in BOOLEAN

Inv == FineBut(World, {}) /\ EnvOK

(***************************************************************************)
(* Induction over the naturals and over the subsets of a finite set, for   *)
(* a property given as a set.                                              *)
(***************************************************************************)
LEMMA NatSetInduction ==
    ASSUME NEW P, 0 \in P, \A n \in Nat : n \in P => n + 1 \in P
    PROVE  Nat \subseteq P
<1>1. SUFFICES ASSUME Nat \ P # {} PROVE FALSE
  OBVIOUS
<1>2. \E x \in Nat \ P : \A y \in Nat \ P : ~(<<y, x>> \in OpToRel(<, Nat))
  <2>1. Nat \ P \subseteq Nat
    OBVIOUS
  <2> QED BY <1>1, <2>1, NatLessThanWellFounded, WFMin
<1>3. PICK x \in Nat \ P : \A y \in Nat \ P : ~(<<y, x>> \in OpToRel(<, Nat))
  BY <1>2
<1>4. x \in Nat /\ x \notin P
  OBVIOUS
<1>5. x # 0 /\ x - 1 \in Nat /\ (x - 1) + 1 = x /\ x - 1 < x
  BY <1>4
<1>6. x - 1 \in P
  BY <1>3, <1>4, <1>5 DEF OpToRel
<1>7. (x - 1) + 1 \in P
  BY <1>5, <1>6
<1> QED BY <1>4, <1>5, <1>7

LEMMA SubsetInduction ==
    ASSUME NEW U, IsFiniteSet(U), NEW P,
           \A S \in SUBSET U : (\A s \in S : S \ {s} \in P) => S \in P
    PROVE  SUBSET U \subseteq P
<1> DEFINE Q == {n \in Nat : \A S \in SUBSET U : Cardinality(S) = n => S \in P}
<1>1. \A S \in SUBSET U : IsFiniteSet(S) /\ Cardinality(S) \in Nat
  BY FS_Subset, FS_CardinalityType
<1>2. 0 \in Q
  <2> SUFFICES ASSUME NEW S \in SUBSET U, Cardinality(S) = 0 PROVE S \in P
    OBVIOUS
  <2>1. S = {}
    BY <1>1, FS_EmptySet
  <2> QED BY <2>1
<1>3. \A n \in Nat : n \in Q => n + 1 \in Q
  <2> SUFFICES ASSUME NEW n \in Nat, n \in Q, NEW S \in SUBSET U, Cardinality(S) = n + 1
               PROVE  S \in P
    OBVIOUS
  <2>1. \A s \in S : S \ {s} \in SUBSET U /\ Cardinality(S \ {s}) = n
    <3> SUFFICES ASSUME NEW s \in S PROVE Cardinality(S \ {s}) = n
      OBVIOUS
    <3>1. Cardinality(S \ {s}) = Cardinality(S) - 1
      BY <1>1, FS_RemoveElement
    <3> QED BY <3>1
  <2>2. \A s \in S : S \ {s} \in P
    BY <2>1
  <2> QED BY <2>2
<1>4. Nat \subseteq Q
  <2> HIDE DEF Q
  <2> QED BY <1>2, <1>3, NatSetInduction
<1> QED BY <1>1, <1>4

(***************************************************************************)
(* Queues of idle sources.                                                 *)
(***************************************************************************)
(* s consists of the entries of q[1..n] that are not in E, in their order. *)
Sifted(q, E, n, s, at) ==
    /\ at \in [1..Len(s) -> 1..n]
    /\ \A i \in 1..Len(s) : s[i] = q[at[i]] /\ s[i] \notin E
    /\ \A i, j \in 1..Len(s) : i < j => at[i] < at[j]
    /\ \A k \in 1..n : q[k] \notin E => \E i \in 1..Len(s) : at[i] = k

WithoutStep(q, E, f, n) ==
    IF n = 0 THEN <<>> ELSE IF q[n] \in E THEN f[n - 1] ELSE Append(f[n - 1], q[n])

(* The recursion of Without has a solution.                                *)
LEMMA WithoutIsDefined ==
    ASSUME NEW S, NEW q \in Seq(S), NEW E
    PROVE  \E f : /\ f = [n \in 0..Len(q) |-> WithoutStep(q, E, f, n)]
                  /\ Without(q, E) = f[Len(q)]
<1> DEFINE P == {m \in Nat : \E f : f = [n \in 0..m |-> WithoutStep(q, E, f, n)]}
<1>1. 0 \in P
  <2> DEFINE f == [n \in 0..0 |-> <<>>]
  <2>1. f = [n \in 0..0 |-> WithoutStep(q, E, f, n)]
    BY DEF WithoutStep
  <2> QED BY <2>1
<1>2. \A m \in Nat : m \in P => m + 1 \in P
  <2> SUFFICES ASSUME NEW m \in Nat, m \in P PROVE m + 1 \in P
    OBVIOUS
  <2>1. PICK f : f = [n \in 0..m |-> WithoutStep(q, E, f, n)]
    OBVIOUS
  <2> DEFINE g == [n \in 0..(m + 1) |-> WithoutStep(q, E, f, n)]
  <2>2. \A n \in 0..m : g[n] = f[n]
    <3> SUFFICES ASSUME NEW n \in 0..m PROVE g[n] = f[n]
      OBVIOUS
    <3> HIDE DEF g
    <3>1. g[n] = WithoutStep(q, E, f, n)
      BY DEF g
    <3>2. f[n] = WithoutStep(q, E, f, n)
      BY <2>1
    <3> QED BY <3>1, <3>2
  <2>3. \A n \in 0..(m + 1) : WithoutStep(q, E, f, n) = WithoutStep(q, E, g, n)
    <3> SUFFICES ASSUME NEW n \in 0..(m + 1), n # 0
                 PROVE  WithoutStep(q, E, f, n) = WithoutStep(q, E, g, n)
      BY DEF WithoutStep
    <3>0. n - 1 \in 0..m
      OBVIOUS
    <3> HIDE DEF g
    <3>1. g[n - 1] = f[n - 1]
      BY <2>2, <3>0
    <3> QED BY <3>1 DEF WithoutStep
  <2>4. g = [n \in 0..(m + 1) |-> WithoutStep(q, E, g, n)]
    BY <2>3
  <2> HIDE DEF g
  <2> QED BY <2>4
<1>3. Len(q) \in P
  <2> HIDE DEF P
  <2> QED BY <1>1, <1>2, NatSetInduction
<1>4. PICK f : f = [n \in 0..Len(q) |-> WithoutStep(q, E, f, n)]
  BY <1>3
<1> DEFINE F == CHOOSE g : g = [n \in 0..Len(q) |-> WithoutStep(q, E, g, n)]
<1>5. F = [n \in 0..Len(q) |-> WithoutStep(q, E, F, n)]
  BY <1>4
<1>6. Without(q, E) = F[Len(q)]
  BY DEF Without, WithoutStep
<1> HIDE DEF F
<1> QED BY <1>5, <1>6

LEMMA WithoutSifts ==
    ASSUME NEW S, NEW q \in Seq(S), NEW E
    PROVE  /\ Without(q, E) \in Seq(S)
           /\ \E at : Sifted(q, E, Len(q), Without(q, E), at)
<1>1. PICK f : f = [n \in 0..Len(q) |-> WithoutStep(q, E, f, n)] /\ Without(q, E) = f[Len(q)]
  BY WithoutIsDefined
<1> DEFINE P == {n \in Nat : n \in 0..Len(q) => f[n] \in Seq(S) /\ \E at : Sifted(q, E, n, f[n], at)}
<1>2. 0 \in P
  <2>1. f[0] = <<>>
    BY <1>1 DEF WithoutStep
  <2>2. Sifted(q, E, 0, <<>>, <<>>)
    BY DEF Sifted
  <2>3. <<>> \in Seq(S) /\ \E at : Sifted(q, E, 0, <<>>, at)
    BY <2>2
  <2> QED BY <2>1, <2>3
<1>3. \A n \in Nat : n \in P => n + 1 \in P
  <2> SUFFICES ASSUME NEW n \in Nat, n \in P PROVE n + 1 \in P
    OBVIOUS
  <2> n + 1 \in Nat
    OBVIOUS
  <2> SUFFICES ASSUME n + 1 \in 0..Len(q) PROVE n + 1 \in P
    OBVIOUS
  <2>1. n \in 0..Len(q) /\ f[n] \in Seq(S) /\ \E at : Sifted(q, E, n, f[n], at)
    OBVIOUS
  <2> SUFFICES f[n + 1] \in Seq(S) /\ \E at : Sifted(q, E, n + 1, f[n + 1], at)
    OBVIOUS
  <2> HIDE DEF P
  <2>2. PICK at : Sifted(q, E, n, f[n], at)
    BY <2>1
  <2>3. f[n + 1] = IF q[n + 1] \in E THEN f[n] ELSE Append(f[n], q[n + 1])
    <3>1. n + 1 # 0 /\ (n + 1) - 1 = n
      OBVIOUS
    <3>2. f[n + 1] = WithoutStep(q, E, f, n + 1)
      BY <1>1
    <3> QED BY <3>1, <3>2 DEF WithoutStep
  <2>4. CASE q[n + 1] \in E
    <3>1. Sifted(q, E, n + 1, f[n], at)
      BY <2>1, <2>2, <2>4 DEF Sifted
    <3> QED BY <2>1, <2>3, <2>4, <3>1
  <2>5. CASE q[n + 1] \notin E
    <3> DEFINE s == f[n]
               t == Append(s, q[n + 1])
               to == [i \in 1..(Len(s) + 1) |-> IF i = Len(s) + 1 THEN n + 1 ELSE at[i]]
    <3>1. q[n + 1] \in S
      OBVIOUS
    <3>2. t \in Seq(S) /\ Len(t) = Len(s) + 1 /\ Len(s) \in Nat
          /\ \A i \in 1..Len(t) : t[i] = IF i = Len(s) + 1 THEN q[n + 1] ELSE s[i]
      <4> HIDE DEF s
      <4>1. s \in Seq(S)
        BY <2>1 DEF s
      <4> QED BY <3>1, <4>1
    <3>3. Sifted(q, E, n, s, at)
      BY <2>2
    <3> HIDE DEF s, t
    <3>4. to \in [1..Len(t) -> 1..(n + 1)]
      BY <3>2, <3>3 DEF Sifted
    <3>5. \A i \in 1..Len(t) : t[i] = q[to[i]] /\ t[i] \notin E
      BY <2>5, <3>2, <3>3 DEF Sifted
    <3>6. \A i, j \in 1..Len(t) : i < j => to[i] < to[j]
      <4> SUFFICES ASSUME NEW i \in 1..Len(t), NEW j \in 1..Len(t), i < j PROVE to[i] < to[j]
        OBVIOUS
      <4>1. i \in 1..Len(s) /\ to[i] = at[i] /\ at[i] \in 1..n
        <5>1. i \in 1..Len(s)
          BY <3>2
        <5>2. to[i] = at[i]
          BY <3>2, <5>1
        <5>3. at[i] \in 1..n
          BY <3>3, <5>1 DEF Sifted
        <5> QED BY <5>1, <5>2, <5>3
      <4>2. CASE j = Len(s) + 1
        BY <3>2, <4>1, <4>2
      <4>3. CASE j # Len(s) + 1
        <5>1. j \in 1..Len(s) /\ to[j] = at[j]
          BY <3>2, <4>3
        <5> HIDE DEF to
        <5> QED BY <3>3, <4>1, <5>1 DEF Sifted
      <4> QED BY <4>2, <4>3
    <3>7. \A k \in 1..(n + 1) : q[k] \notin E => \E i \in 1..Len(t) : to[i] = k
      <4> SUFFICES ASSUME NEW k \in 1..(n + 1), q[k] \notin E PROVE \E i \in 1..Len(t) : to[i] = k
        OBVIOUS
      <4>1. CASE k = n + 1
        BY <3>2, <4>1
      <4>2. CASE k # n + 1
        <5>1. PICK i \in 1..Len(s) : at[i] = k
          BY <3>3, <4>2 DEF Sifted
        <5>2. i \in 1..Len(t) /\ to[i] = k
          BY <3>2, <5>1
        <5> QED BY <5>2
      <4> QED BY <4>1, <4>2
    <3>8. Sifted(q, E, n + 1, t, to)
      BY <3>4, <3>5, <3>6, <3>7 DEF Sifted
    <3>9. f[n + 1] = t
      BY <2>3, <2>5 DEF s, t
    <3> QED BY <3>2, <3>8, <3>9
  <2> QED BY <2>4, <2>5
<1>4. Len(q) \in P
  <2> HIDE DEF P
  <2> QED BY <1>2, <1>3, NatSetInduction
<1> QED BY <1>1, <1>4

QueueOK(q) == q \in Seq(Entries) /\ Once(q)

LEMMA QueueRange ==
    ASSUME NEW S, NEW q \in Seq(S)
    PROVE  Range(q) = {q[i] : i \in 1..Len(q)} /\ Range(q) \subseteq S
BY DEF Range

LEMMA WithoutQueue ==
    ASSUME NEW q, QueueOK(q), NEW E
    PROVE  QueueOK(Without(q, E)) /\ Range(Without(q, E)) = Range(q) \ E
<1> DEFINE s == Without(q, E)
<1> q \in Seq(Entries)
  BY DEF QueueOK
<1>1. s \in Seq(Entries)
  BY WithoutSifts
<1>2. PICK at : Sifted(q, E, Len(q), s, at)
  BY WithoutSifts
<1> HIDE DEF s
<1>3. \A i \in 1..Len(s) : at[i] \in 1..Len(q) /\ s[i] = q[at[i]] /\ s[i] \notin E
  BY <1>2 DEF Sifted
<1>4. Range(q) = {q[i] : i \in 1..Len(q)} /\ Range(s) = {s[i] : i \in 1..Len(s)}
  BY <1>1, QueueRange
<1>5. Range(s) \subseteq Range(q) \ E
  BY <1>3, <1>4
<1>6. Range(q) \ E \subseteq Range(s)
  <2> SUFFICES ASSUME NEW k \in 1..Len(q), q[k] \notin E PROVE q[k] \in Range(s)
    BY <1>4
  <2>1. PICK i \in 1..Len(s) : at[i] = k
    BY <1>2 DEF Sifted
  <2> QED BY <1>3, <1>4, <2>1
<1>7. Once(s)
  <2> SUFFICES ASSUME NEW i \in 1..Len(s), NEW j \in 1..Len(s), i # j, s[i] = s[j]
               PROVE  s[i].d = NoDisplay
    BY DEF Once
  <2>1. i < j \/ j < i
    OBVIOUS
  <2>2. at[i] # at[j]
    <3>1. at[i] \in 1..Len(q) /\ at[j] \in 1..Len(q) /\ (at[i] < at[j] \/ at[j] < at[i])
      BY <1>2, <2>1 DEF Sifted
    <3> QED BY <3>1
  <2> QED BY <1>3, <2>2 DEF QueueOK, Once
<1> QED BY <1>1, <1>5, <1>6, <1>7 DEF QueueOK, s

Pushed(q, e) == IF e \in Range(q) THEN q ELSE Append(q, e)

LEMMA PushedQueue ==
    ASSUME NEW q, QueueOK(q), NEW e \in Entries
    PROVE  QueueOK(Pushed(q, e)) /\ Range(Pushed(q, e)) = Range(q) \cup {e}
<1> q \in Seq(Entries)
  BY DEF QueueOK
<1>1. CASE e \in Range(q)
  BY <1>1 DEF Pushed
<1>2. CASE e \notin Range(q)
  <2> DEFINE s == Append(q, e)
  <2>1. /\ s \in Seq(Entries) /\ Len(s) = Len(q) + 1
        /\ \A i \in 1..(Len(q) + 1) : s[i] = IF i = Len(q) + 1 THEN e ELSE q[i]
    OBVIOUS
  <2>2. Len(q) \in Nat
    OBVIOUS
  <2> HIDE DEF s
  <2>3. Range(q) = {q[i] : i \in 1..Len(q)} /\ Range(s) = {s[i] : i \in 1..Len(s)}
    BY <2>1, QueueRange
  <2>4. Range(s) = Range(q) \cup {e}
    <3>1. Range(s) \subseteq Range(q) \cup {e}
      BY <2>1, <2>2, <2>3
    <3>2. e \in Range(s)
      BY <2>1, <2>2, <2>3
    <3>3. Range(q) \subseteq Range(s)
      <4> SUFFICES ASSUME NEW k \in 1..Len(q) PROVE q[k] \in Range(s)
        BY <2>3
      <4>1. k \in 1..Len(s) /\ s[k] = q[k]
        BY <2>1, <2>2
      <4> QED BY <2>3, <4>1
    <3> QED BY <3>1, <3>2, <3>3
  <2>5. Once(s)
    <3> SUFFICES ASSUME NEW i \in 1..Len(s), NEW j \in 1..Len(s), i # j, s[i] = s[j]
                 PROVE  s[i].d = NoDisplay
      BY DEF Once
    <3>1. \A k \in 1..Len(q) : q[k] # e
      BY <1>2, <2>3
    <3>2. i \in 1..Len(q) /\ j \in 1..Len(q) /\ s[i] = q[i] /\ s[j] = q[j]
      BY <2>1, <2>2, <3>1
    <3> QED BY <3>2 DEF QueueOK, Once
  <2>6. Pushed(q, e) = s
    BY <1>2 DEF Pushed, s
  <2> QED BY <2>1, <2>4, <2>5, <2>6 DEF QueueOK
<1> QED BY <1>1, <1>2

LEMMA TailQueue ==
    ASSUME NEW q, QueueOK(q), q # <<>>
    PROVE  /\ QueueOK(Tail(q)) /\ Head(q) \in Entries
           /\ Range(q) = Range(Tail(q)) \cup {Head(q)}
           /\ Head(q).d # NoDisplay => Head(q) \notin Range(Tail(q))
<1> DEFINE s == Tail(q)
<1> q \in Seq(Entries)
  BY DEF QueueOK
<1>1. /\ s \in Seq(Entries) /\ Len(s) = Len(q) - 1 /\ Len(q) \in Nat \ {0}
      /\ \A i \in 1..Len(s) : s[i] = q[i + 1]
  BY HeadTailProperties, EmptySeq
<1>2. Head(q) = q[1]
  OBVIOUS
<1> HIDE DEF s
<1>3. Range(q) = {q[i] : i \in 1..Len(q)} /\ Range(s) = {s[i] : i \in 1..Len(s)}
  BY <1>1, QueueRange
<1>4. q[1] \in Entries
  BY <1>1
<1>5. \A k \in 1..Len(s) : k + 1 \in 1..Len(q) /\ k + 1 # 1 /\ s[k] = q[k + 1]
  BY <1>1
<1>6. \A k \in 1..Len(q) : k # 1 => k - 1 \in 1..Len(s) /\ s[k - 1] = q[k]
  BY <1>1
<1>7. Range(q) = Range(s) \cup {q[1]}
  <2>1. Range(q) \subseteq Range(s) \cup {q[1]}
    <3> SUFFICES ASSUME NEW k \in 1..Len(q), k # 1 PROVE q[k] \in Range(s)
      BY <1>3
    <3>1. k - 1 \in 1..Len(s) /\ s[k - 1] = q[k]
      BY <1>6
    <3> QED BY <1>3, <3>1
  <2>2. Range(s) \subseteq Range(q)
    BY <1>3, <1>5
  <2>3. q[1] \in Range(q)
    BY <1>1, <1>3
  <2> QED BY <2>1, <2>2, <2>3
<1>8. Once(s)
  <2> SUFFICES ASSUME NEW i \in 1..Len(s), NEW j \in 1..Len(s), i # j, s[i] = s[j]
               PROVE  s[i].d = NoDisplay
    BY DEF Once
  <2>1. i + 1 \in 1..Len(q) /\ j + 1 \in 1..Len(q) /\ i + 1 # j + 1
    BY <1>5
  <2>2. s[i] = q[i + 1] /\ s[j] = q[j + 1]
    BY <1>5
  <2> QED BY <2>1, <2>2 DEF QueueOK, Once
<1>9. q[1].d # NoDisplay => q[1] \notin Range(s)
  <2> SUFFICES ASSUME NEW k \in 1..Len(s), s[k] = q[1] PROVE q[1].d = NoDisplay
    BY <1>3
  <2>1. k + 1 \in 1..Len(q) /\ 1 \in 1..Len(q) /\ k + 1 # 1 /\ q[k + 1] = q[1]
    BY <1>1, <1>5
  <2> QED BY <2>1 DEF QueueOK, Once
<1> QED BY <1>1, <1>2, <1>4, <1>7, <1>8, <1>9 DEF QueueOK, s

(***************************************************************************)
(* What runs before the first purge of a queue.                            *)
(***************************************************************************)
Early(q) == {q[n] : n \in {m \in 1..Len(q) : \A k \in 1..(m - 1) : q[k] # Purge}}

(* Nothing but a purge gets in front of the purges.                        *)
KeepsOrder(p, q) == Early(q) \subseteq Early(p) \cup {Purge}

LEMMA KeepsOrderTwice ==
    ASSUME NEW p, NEW q, NEW s, KeepsOrder(p, q), KeepsOrder(q, s)
    PROVE  KeepsOrder(p, s)
BY DEF KeepsOrder

LEMMA EarlyIsQueued ==
    ASSUME NEW q, QueueOK(q)
    PROVE  Early(q) \subseteq Range(q)
<1> SUFFICES ASSUME NEW n \in 1..Len(q) PROVE q[n] \in Range(q)
  BY DEF Early
<1> QED BY QueueRange DEF QueueOK

LEMMA WithoutEarly ==
    ASSUME NEW q, QueueOK(q), NEW E, Purge \notin E
    PROVE  Early(Without(q, E)) \subseteq Early(q) \ E
<1> DEFINE s == Without(q, E)
<1> q \in Seq(Entries)
  BY DEF QueueOK
<1>1. PICK at : Sifted(q, E, Len(q), s, at)
  BY WithoutSifts
<1>2. s \in Seq(Entries)
  BY WithoutSifts
<1> HIDE DEF s
<1>3. SUFFICES ASSUME NEW n \in 1..Len(s), \A k \in 1..(n - 1) : s[k] # Purge
               PROVE  s[n] \in Early(q) \ E
  BY DEF Early, s
<1>4. at[n] \in 1..Len(q) /\ s[n] = q[at[n]] /\ s[n] \notin E
  BY <1>1 DEF Sifted
<1>5. ASSUME NEW k \in 1..(at[n] - 1), q[k] = Purge PROVE FALSE
  <2>1. k \in 1..Len(q) /\ k < at[n]
    BY <1>4
  <2>2. PICK i \in 1..Len(s) : at[i] = k
    BY <1>1, <1>5, <2>1 DEF Sifted
  <2>3. at[i] \in 1..Len(q) /\ s[i] = Purge
    BY <1>1, <1>5, <2>2 DEF Sifted
  <2>4. ~(n < i)
    <3>1. n < i => at[n] < at[i]
      BY <1>1 DEF Sifted
    <3> QED BY <1>4, <2>1, <2>2, <3>1
  <2>5. i # n
    BY <1>4, <2>1, <2>2
  <2>6. i \in 1..(n - 1)
    BY <1>2, <2>4, <2>5
  <2> QED BY <1>3, <2>3, <2>6
<1> QED BY <1>4, <1>5 DEF Early

LEMMA PushedEarly ==
    ASSUME NEW q, QueueOK(q), NEW e \in Entries
    PROVE  /\ Early(Pushed(q, e)) \subseteq Early(q) \cup {e}
           /\ Purge \in Range(q) => Early(Pushed(q, e)) \subseteq Early(q)
<1> q \in Seq(Entries)
  BY DEF QueueOK
<1>1. CASE e \in Range(q)
  BY <1>1 DEF Pushed
<1>2. CASE e \notin Range(q)
  <2> DEFINE t == Append(q, e)
  <2>1. Pushed(q, e) = t
    BY <1>2 DEF Pushed
  <2>2. t \in Seq(Entries) /\ Len(t) = Len(q) + 1 /\ t[Len(q) + 1] = e /\ Len(q) \in Nat
        /\ \A n \in 1..Len(q) : t[n] = q[n]
    OBVIOUS
  <2> HIDE DEF t
  <2>3. ASSUME NEW n \in 1..Len(t), \A k \in 1..(n - 1) : t[k] # Purge
        PROVE  t[n] \in Early(q) \/ (t[n] = e /\ Purge \notin Range(q))
    <3>1. CASE n = Len(q) + 1
      <4>1. \A k \in 1..Len(q) : q[k] # Purge
        BY <2>2, <2>3, <3>1
      <4>2. Purge \notin Range(q)
        BY <4>1, QueueRange
      <4> QED BY <2>2, <3>1, <4>2
    <3>2. CASE n # Len(q) + 1
      <4>1. n \in 1..Len(q) /\ t[n] = q[n]
        BY <2>2, <3>2
      <4>2. \A k \in 1..(n - 1) : q[k] # Purge
        BY <2>2, <2>3, <4>1
      <4> QED BY <4>1, <4>2 DEF Early
    <3> QED BY <3>1, <3>2
  <2>4. Early(t) \subseteq Early(q) \cup (IF Purge \in Range(q) THEN {} ELSE {e})
    BY <2>3 DEF Early
  <2> QED BY <2>1, <2>4
<1> QED BY <1>1, <1>2

LEMMA TailEarly ==
    ASSUME NEW q, QueueOK(q), q # <<>>
    PROVE  /\ Head(q) \in Early(q)
           /\ Head(q) # Purge => Early(Tail(q)) \subseteq Early(q)
<1> DEFINE s == Tail(q)
<1> q \in Seq(Entries)
  BY DEF QueueOK
<1>1. Len(q) \in Nat /\ Len(q) >= 1 /\ Head(q) = q[1]
  OBVIOUS
<1>2. Len(s) = Len(q) - 1 /\ \A n \in 1..Len(s) : s[n] = q[n + 1]
  OBVIOUS
<1> HIDE DEF s
<1>3. Head(q) \in Early(q)
  <2>1. 1 \in 1..Len(q) /\ \A k \in 1..(1 - 1) : q[k] # Purge
    BY <1>1
  <2> QED BY <1>1, <2>1 DEF Early
<1>4. ASSUME Head(q) # Purge, NEW n \in 1..Len(s), \A k \in 1..(n - 1) : s[k] # Purge
      PROVE  s[n] \in Early(q)
  <2>1. n + 1 \in 1..Len(q) /\ s[n] = q[n + 1]
    BY <1>1, <1>2
  <2>2. \A k \in 1..((n + 1) - 1) : q[k] # Purge
    <3> SUFFICES ASSUME NEW k \in 1..((n + 1) - 1), k # 1 PROVE q[k] # Purge
      BY <1>1, <1>4
    <3>1. k - 1 \in 1..(n - 1) /\ k - 1 \in 1..Len(s) /\ (k - 1) + 1 = k
      BY <1>1, <1>2
    <3> QED BY <1>2, <1>4, <3>1
  <2> QED BY <2>1, <2>2 DEF Early
<1> QED BY <1>3, <1>4 DEF Early, s

(***************************************************************************)
(* Display numbers: there is a first one that is free.                     *)
(***************************************************************************)
LEMMA NextNumberIsFree ==
    ASSUME NEW U \in SUBSET (0..MaxNumber)
    PROVE  NextNumber(U) \in Nat /\ NextNumber(U) \notin U
<1> MaxNumber \in Nat
  BY DisplaysAssumption
<1>1. IsFiniteSet(U)
  <2>1. IsFiniteSet(0..MaxNumber)
    BY FS_Interval
  <2> QED BY <2>1, FS_Subset
<1>2. Cardinality(U) \in Nat
  BY <1>1, FS_CardinalityType
<1> DEFINE c == Cardinality(U)
           Free == (0..c) \ U
<1>3. Free # {}
  <2> SUFFICES ASSUME 0..c \in SUBSET U PROVE FALSE
    OBVIOUS
  <2>1. Cardinality(0..c) <= Cardinality(U)
    BY <1>1, FS_Subset
  <2>2. Cardinality(0..c) = c + 1
    <3>1. Cardinality(0..c) = IF 0 > c THEN 0 ELSE c - 0 + 1
      BY <1>2, FS_Interval
    <3> QED BY <1>2, <3>1
  <2> QED BY <1>2, <2>1, <2>2
<1>4. \E n \in Free : \A m \in Free : ~(<<m, n>> \in OpToRel(<, Nat))
  <2>1. Free \subseteq Nat
    BY <1>2
  <2> HIDE DEF Free
  <2> QED BY <1>3, <2>1, NatLessThanWellFounded, WFMin
<1>5. PICK n \in Free : \A m \in Free : ~(<<m, n>> \in OpToRel(<, Nat))
  BY <1>4
<1>6. n \in 0..c /\ n \notin U /\ \A m \in 0..(n - 1) : m \in U
  <2>1. n \in 0..c /\ n \notin U
    OBVIOUS
  <2>2. \A m \in 0..(n - 1) : m \in 0..c /\ m \in Nat /\ n \in Nat /\ m < n
    BY <1>2, <2>1
  <2>3. \A m \in 0..(n - 1) : m \in U
    <3> SUFFICES ASSUME NEW m \in 0..(n - 1), m \notin U PROVE FALSE
      OBVIOUS
    <3>1. m \in Free /\ m \in Nat /\ n \in Nat /\ m < n
      BY <2>2
    <3> HIDE DEF Free
    <3> QED BY <1>5, <3>1 DEF OpToRel
  <2> QED BY <2>1, <2>3
<1>7. NextNumber(U) \in 0..c /\ NextNumber(U) \notin U
  BY <1>6 DEF NextNumber
<1> QED BY <1>2, <1>7

(***************************************************************************)
(* The simplest functions of worlds.                                       *)
(***************************************************************************)
FinishOf(d) == [op |-> "finish", d |-> d]
ReadyOf(d)  == [op |-> "ready", d |-> d]
StartOf(d)  == [op |-> "start", d |-> d]

LEMMA EntriesOfDisplays ==
    /\ Purge \in Entries
    /\ \A d \in Displays : {FinishOf(d), ReadyOf(d), StartOf(d)} \subseteq Entries
    /\ \A d \in Displays : Purge \notin {FinishOf(d), ReadyOf(d), StartOf(d)}
<1>1. Purge \in Entries
  BY DEF Entries, Purge
<1>2. \A d \in Displays : FinishOf(d) \in Entries
  BY DEF Entries, FinishOf
<1>3. \A d \in Displays : ReadyOf(d) \in Entries
  BY DEF Entries, ReadyOf
<1>4. \A d \in Displays : StartOf(d) \in Entries
  BY DEF Entries, StartOf
<1>5. \A d \in Displays : Purge # FinishOf(d) /\ Purge # ReadyOf(d) /\ Purge # StartOf(d)
  <2> SUFFICES ASSUME NEW d \in Displays PROVE Purge # FinishOf(d) /\ Purge # ReadyOf(d) /\ Purge # StartOf(d)
    OBVIOUS
  <2>1. Purge.d = NoDisplay /\ FinishOf(d).d = d /\ ReadyOf(d).d = d /\ StartOf(d).d = d
    BY DEF Purge, FinishOf, ReadyOf, StartOf
  <2>2. NoDisplay # d
    BY DisplaysAssumption
  <2> QED BY <2>1, <2>2
<1> QED BY <1>1, <1>2, <1>3, <1>4, <1>5

LEMMA DisplayUpdates ==
    ASSUME NEW r \in Display
    PROVE  /\ \A x \in Statuses : [r EXCEPT !.status = x] \in Display
           /\ \A x \in Sessions : [r EXCEPT !.sess = x] \in Display
           /\ \A x \in Envs : [r EXCEPT !.env = x] \in Display
           /\ \A x \in Servers : [r EXCEPT !.server = x] \in Display
           /\ \A x \in BOOLEAN : [r EXCEPT !.registered = x] \in Display
           /\ \A x \in BOOLEAN : [r EXCEPT !.window = x] \in Display
           /\ \A x \in BOOLEAN : [r EXCEPT !.setup = x] \in Display
           /\ \A x \in BOOLEAN : [r EXCEPT !.leaked = x] \in Display
           /\ \A x \in BOOLEAN : [r EXCEPT !.stored = x] \in Display
           /\ \A x \in {"greeter", "user"} : [r EXCEPT !.class = x] \in Display
<1>1. \A x \in Statuses : [r EXCEPT !.status = x] \in Display
  BY DEF Display
<1>2. \A x \in Sessions : [r EXCEPT !.sess = x] \in Display
  BY DEF Display
<1>3. \A x \in Envs : [r EXCEPT !.env = x] \in Display
  BY DEF Display
<1>4. \A x \in Servers : [r EXCEPT !.server = x] \in Display
  BY DEF Display
<1>5. \A x \in BOOLEAN : [r EXCEPT !.registered = x] \in Display
  BY DEF Display
<1>6. \A x \in BOOLEAN : [r EXCEPT !.window = x] \in Display
  BY DEF Display
<1>7. \A x \in BOOLEAN : [r EXCEPT !.setup = x] \in Display
  BY DEF Display
<1>8. \A x \in BOOLEAN : [r EXCEPT !.leaked = x] \in Display
  BY DEF Display
<1>9. \A x \in BOOLEAN : [r EXCEPT !.stored = x] \in Display
  BY DEF Display
<1>10. \A x \in {"greeter", "user"} : [r EXCEPT !.class = x] \in Display
  BY DEF Display
<1> QED BY <1>1, <1>2, <1>3, <1>4, <1>5, <1>6, <1>7, <1>8, <1>9, <1>10

(* V and W have the same displays but for d.                               *)
Others(W, V, d) == \A e \in Displays \ {d} : V.disp[e] = W.disp[e]

(* V is W with another record for the display d.                           *)
Recorded(W, d, r) == [W EXCEPT !.disp = [@ EXCEPT ![d] = r]]

LEMMA RecordedWorld ==
    ASSUME NEW W \in Worlds, NEW d \in Displays, NEW r \in Display, NEW V, V = Recorded(W, d, r)
    PROVE  /\ V \in Worlds /\ V.disp[d] = r
           /\ Others(W, V, d)
           /\ V.idles = W.idles /\ V.used = W.used /\ V.fails = W.fails
           /\ V.autod = W.autod /\ V.did = W.did
<1>1. W.disp \in [Displays -> Display] /\ [W.disp EXCEPT ![d] = r] \in [Displays -> Display]
  BY DEF Worlds
<1>2. V \in Worlds
  BY <1>1 DEF Worlds, Recorded
<1>3. V.disp = [W.disp EXCEPT ![d] = r]
  BY DEF Worlds, Recorded
<1>4. V.idles = W.idles /\ V.used = W.used /\ V.fails = W.fails /\ V.autod = W.autod /\ V.did = W.did
  BY DEF Worlds, Recorded
<1> QED BY <1>1, <1>2, <1>3, <1>4 DEF Others

LEMMA QueueIdlePushes ==
    ASSUME NEW W \in Worlds, QueueOK(W.idles), NEW op, NEW d, [op |-> op, d |-> d] \in Entries,
           NEW V, V = QueueIdle(W, op, d)
    PROVE  /\ V \in Worlds /\ QueueOK(V.idles)
           /\ Range(V.idles) = Range(W.idles) \cup {[op |-> op, d |-> d]}
           /\ V.disp = W.disp /\ V.used = W.used /\ V.fails = W.fails
           /\ V.autod = W.autod /\ V.did = W.did
           /\ V.idles = Pushed(W.idles, [op |-> op, d |-> d])
<1> DEFINE q == Pushed(W.idles, [op |-> op, d |-> d])
<1>1. QueueOK(q) /\ Range(q) = Range(W.idles) \cup {[op |-> op, d |-> d]}
  BY PushedQueue
<1>2. V = [W EXCEPT !.idles = q]
  BY DEF QueueIdle, Pushed, Worlds
<1>3. q \in Seq(Entries)
  BY <1>1 DEF QueueOK
<1> HIDE DEF q
<1>4. /\ V \in Worlds /\ QueueOK(V.idles)
      /\ Range(V.idles) = Range(W.idles) \cup {[op |-> op, d |-> d]}
      /\ V.disp = W.disp /\ V.used = W.used /\ V.fails = W.fails
      /\ V.autod = W.autod /\ V.did = W.did
      /\ V.idles = q
  BY <1>1, <1>2, <1>3 DEF Worlds
<1> QED BY <1>4 DEF q

(* What the status FINISHED does.                                          *)
GreeterFinishes(W, V, d) ==
    /\ V \in Worlds /\ QueueOK(V.idles)
    /\ Range(V.idles) = (Range(W.idles) \ {FinishOf(d)}) \cup {Purge}
    /\ V.disp[d] = [W.disp[d] EXCEPT !.status = "FINISHED"]
    /\ Others(W, V, d)
    /\ V.used = W.used \ {W.disp[d].num} /\ V.fails = W.fails
    /\ V.autod = W.autod /\ V.did = W.did
    /\ KeepsOrder(W.idles, V.idles) /\ FinishOf(d) \notin Early(V.idles)

LEMMA GreeterFinishedResult ==
    ASSUME NEW W \in Worlds, QueueOK(W.idles), NEW d \in Displays,
           NEW V, V = GreeterFinished(W, d)
    PROVE  GreeterFinishes(W, V, d)
<1> DEFINE r == [W.disp[d] EXCEPT !.status = "FINISHED"]
           q == Unqueued(W.idles, d)
           X == [W EXCEPT !.disp[d].status = "FINISHED", !.idles = q,
                          !.used = @ \ {W.disp[d].num}]
<1>1. QueueOK(q) /\ Range(q) = Range(W.idles) \ {FinishOf(d)}
  BY WithoutQueue DEF Unqueued, FinishOf
<1>2. q \in Seq(Entries)
  BY <1>1 DEF QueueOK
<1>3. V = QueueIdle(X, "purge", NoDisplay)
  BY DEF GreeterFinished
<1>4. r \in Display /\ [W.disp EXCEPT ![d] = r] \in [Displays -> Display]
  BY DisplayUpdates DEF Worlds, Statuses
<1> HIDE DEF q
<1>5. /\ X.idles = q /\ X.disp = [W.disp EXCEPT ![d] = r]
      /\ X.used = W.used \ {W.disp[d].num} /\ X.fails = W.fails
      /\ X.autod = W.autod /\ X.did = W.did
  BY DEF Worlds
<1>6. X \in Worlds
  <2> HIDE DEF r
  <2>1. X = [W EXCEPT !.disp = [W.disp EXCEPT ![d] = r], !.idles = q, !.used = @ \ {W.disp[d].num}]
    BY DEF Worlds, r
  <2> HIDE DEF X
  <2> QED BY <1>2, <1>4, <2>1 DEF Worlds
<1> HIDE DEF X, r
<1>7. QueueOK(X.idles) /\ [op |-> "purge", d |-> NoDisplay] \in Entries
  BY <1>1, <1>5, EntriesOfDisplays DEF Purge
<1>8. /\ V \in Worlds /\ QueueOK(V.idles)
      /\ Range(V.idles) = Range(X.idles) \cup {[op |-> "purge", d |-> NoDisplay]}
      /\ V.disp = X.disp /\ V.used = X.used /\ V.fails = X.fails
      /\ V.autod = X.autod /\ V.did = X.did
      /\ V.idles = Pushed(X.idles, [op |-> "purge", d |-> NoDisplay])
  BY <1>3, <1>6, <1>7, QueueIdlePushes
<1>9. V.disp[d] = r /\ Others(W, V, d)
  <2>1. V.disp = [W.disp EXCEPT ![d] = r] /\ W.disp \in [Displays -> Display]
    BY <1>5, <1>8 DEF Worlds
  <2> QED BY <2>1 DEF Others
<1>10. KeepsOrder(W.idles, V.idles) /\ FinishOf(d) \notin Early(V.idles)
  <2>1. Purge \notin {FinishOf(d)}
    BY EntriesOfDisplays
  <2>2. q = Without(W.idles, {FinishOf(d)})
    BY DEF q, Unqueued, FinishOf
  <2>3. Early(q) \subseteq Early(W.idles) \ {FinishOf(d)}
    BY <2>1, <2>2, WithoutEarly
  <2>4. V.idles = Pushed(q, Purge) /\ Purge \in Entries
    BY <1>5, <1>8, EntriesOfDisplays DEF Purge
  <2>5. Early(V.idles) \subseteq Early(q) \cup {Purge}
    BY <1>1, <2>4, PushedEarly
  <2> QED BY <2>1, <2>3, <2>5 DEF KeepsOrder
<1> QED BY <1>1, <1>5, <1>8, <1>9, <1>10 DEF GreeterFinishes, Purge, r

LEMMA StartGreeterResult ==
    ASSUME NEW W \in Worlds, NEW d \in Displays
    PROVE  LET r == [W.disp[d] EXCEPT !.sess = "fresh", !.env = "starting"]
           IN  r \in Display /\ StartGreeter(W, d) = Recorded(W, d, r)
<1> DEFINE r == [W.disp[d] EXCEPT !.sess = "fresh", !.env = "starting"]
<1>1. W.disp[d] \in Display
  BY DEF Worlds
<1>2. r \in Display
  <2>1. [W.disp[d] EXCEPT !.sess = "fresh"] \in Display
    BY <1>1, DisplayUpdates DEF Sessions
  <2>2. [[W.disp[d] EXCEPT !.sess = "fresh"] EXCEPT !.env = "starting"] \in Display
    BY <2>1, DisplayUpdates DEF Envs
  <2> QED BY <1>1, <2>2 DEF Display
<1>3. StartGreeter(W, d) = Recorded(W, d, r)
  BY DEF StartGreeter, Recorded, Worlds
<1> QED BY <1>2, <1>3

(* The outcomes of setting a session up on d.                              *)
SetUp(W, V, d) ==
    /\ V \in Worlds /\ QueueOK(V.idles)
    /\ Others(W, V, d)
    /\ V.autod = W.autod /\ V.did = W.did /\ V.fails = W.fails
    /\ KeepsOrder(W.idles, V.idles)
    /\ \/ /\ V.disp[d] = [W.disp[d] EXCEPT !.sess = "fresh", !.env = "starting"]
          /\ V.idles = W.idles /\ V.used = W.used
       \/ /\ V.disp[d] = [W.disp[d] EXCEPT !.status = "FINISHED"] /\ ~known
          /\ Range(V.idles) = (Range(W.idles) \ {FinishOf(d)}) \cup {Purge}
          /\ FinishOf(d) \notin Early(V.idles)
          /\ V.used = W.used \ {W.disp[d].num}
       \/ /\ \E s \in {"lookup", "auto"} : V.disp[d] = [W.disp[d] EXCEPT !.sess = s]
          /\ W.disp[d].seat = Seat0 /\ ~W.did /\ W.autod = NoDisplay
          /\ V.idles = W.idles /\ V.used = W.used

LEMMA SetUpSessionResult ==
    ASSUME NEW W \in Worlds, QueueOK(W.idles), NEW d \in Displays, NEW V \in SetUpSession(W, d)
    PROVE  SetUp(W, V, d)
<1> DEFINE L == [W EXCEPT !.disp[d].sess = "lookup"]
           A == [W EXCEPT !.disp[d].sess = "auto"]
           F == GreeterFinished(W, d)
           G == StartGreeter(W, d)
<1>1. \/ V = G
      \/ V = F /\ ~known
      \/ V \in {L, A} /\ W.disp[d].seat = Seat0 /\ ~SeatDidAutologin(W)
  BY DEF SetUpSession
<1>2. W.disp[d] \in Display /\ W.disp \in [Displays -> Display]
  BY DEF Worlds
<1>3. ASSUME V = G PROVE SetUp(W, V, d)
  <2> DEFINE r == [W.disp[d] EXCEPT !.sess = "fresh", !.env = "starting"]
  <2>1. r \in Display /\ V = Recorded(W, d, r)
    BY <1>3, StartGreeterResult
  <2> HIDE DEF r
  <2>2. /\ V \in Worlds /\ V.disp[d] = r
        /\ Others(W, V, d)
        /\ V.idles = W.idles /\ V.used = W.used /\ V.fails = W.fails
        /\ V.autod = W.autod /\ V.did = W.did
    BY <2>1, RecordedWorld
  <2>3. KeepsOrder(W.idles, V.idles)
    BY <2>2 DEF KeepsOrder
  <2> QED BY <2>2, <2>3 DEF SetUp, r
<1>4. ASSUME V \in {L, A}, W.disp[d].seat = Seat0, ~SeatDidAutologin(W) PROVE SetUp(W, V, d)
  <2>0. PICK s \in {"lookup", "auto"} : V = [W EXCEPT !.disp[d].sess = s]
    BY <1>4
  <2> DEFINE r == [W.disp[d] EXCEPT !.sess = s]
  <2>1. r \in Display
    BY <1>2, DisplayUpdates DEF Sessions
  <2>2. V = Recorded(W, d, r)
    BY <2>0 DEF Recorded, Worlds
  <2> HIDE DEF r
  <2>3. /\ V \in Worlds /\ V.disp[d] = r
        /\ Others(W, V, d)
        /\ V.idles = W.idles /\ V.used = W.used /\ V.fails = W.fails
        /\ V.autod = W.autod /\ V.did = W.did
    BY <2>1, <2>2, RecordedWorld
  <2>4. ~W.did /\ W.autod = NoDisplay
    BY <1>4 DEF SeatDidAutologin
  <2>5. \E t \in {"lookup", "auto"} : V.disp[d] = [W.disp[d] EXCEPT !.sess = t]
    BY <2>3 DEF r
  <2>6. KeepsOrder(W.idles, V.idles)
    BY <2>3 DEF KeepsOrder
  <2> QED BY <1>4, <2>3, <2>4, <2>5, <2>6 DEF SetUp
<1>5. ASSUME V = F, ~known PROVE SetUp(W, V, d)
  <2> DEFINE r == [W.disp[d] EXCEPT !.status = "FINISHED"]
  <2>1. /\ V \in Worlds /\ QueueOK(V.idles)
        /\ Range(V.idles) = (Range(W.idles) \ {FinishOf(d)}) \cup {Purge}
        /\ V.disp[d] = r
        /\ Others(W, V, d)
        /\ V.used = W.used \ {W.disp[d].num} /\ V.fails = W.fails
        /\ V.autod = W.autod /\ V.did = W.did
        /\ KeepsOrder(W.idles, V.idles) /\ FinishOf(d) \notin Early(V.idles)
    <3>1. V = GreeterFinished(W, d)
      BY <1>5 DEF F
    <3>2. W \in Worlds /\ QueueOK(W.idles)
      OBVIOUS
    <3>3. GreeterFinishes(W, V, d)
      BY ONLY <3>1, <3>2, d \in Displays, GreeterFinishedResult
    <3> QED BY ONLY <3>3 DEF GreeterFinishes, r
  <2> HIDE DEF r
  <2> QED BY <1>5, <2>1 DEF SetUp, r
<1> HIDE DEF L, A, F, G
<1> QED BY <1>1, <1>3, <1>4, <1>5

LEMMA PushPurge ==
    ASSUME NEW W \in Worlds, QueueOK(W.idles), NEW V, V = QueueIdle(W, "purge", NoDisplay)
    PROVE  /\ V \in Worlds /\ QueueOK(V.idles)
           /\ Range(V.idles) = Range(W.idles) \cup {Purge}
           /\ V.disp = W.disp /\ V.used = W.used /\ V.fails = W.fails
           /\ V.autod = W.autod /\ V.did = W.did
           /\ KeepsOrder(W.idles, V.idles)
<1>1. [op |-> "purge", d |-> NoDisplay] \in Entries
  BY EntriesOfDisplays DEF Purge
<1>2. V.idles = Pushed(W.idles, Purge)
  BY <1>1, QueueIdlePushes DEF Purge
<1>3. KeepsOrder(W.idles, V.idles)
  BY <1>2, EntriesOfDisplays, PushedEarly DEF KeepsOrder
<1> QED BY <1>1, <1>3, QueueIdlePushes DEF Purge

LEMMA NewFailedResult ==
    ASSUME NEW W \in Worlds, QueueOK(W.idles), NEW d \in Displays, NEW V, V = NewFailed(W, d)
    PROVE  /\ V \in Worlds /\ QueueOK(V.idles)
           /\ Range(V.idles) = Range(W.idles) \cup {Purge}
           /\ V.disp[d] = [W.disp[d] EXCEPT !.status = "FAILED"]
           /\ Others(W, V, d)
           /\ V.used = W.used /\ V.autod = W.autod /\ V.did = W.did
           /\ KeepsOrder(W.idles, V.idles)
<1> DEFINE r == [W.disp[d] EXCEPT !.status = "FAILED"]
           n == IF W.fails > MaxDisplayFailures THEN W.fails ELSE W.fails + 1
           X == [W EXCEPT !.disp[d].status = "FAILED", !.fails = n]
<1>1. V = QueueIdle(X, "purge", NoDisplay)
  BY DEF NewFailed, Worlds
<1>2. r \in Display /\ [W.disp EXCEPT ![d] = r] \in [Displays -> Display]
  BY DisplayUpdates DEF Worlds, Statuses
<1>3. n \in 0..(MaxDisplayFailures + 1)
  BY DisplaysAssumption DEF Worlds
<1> HIDE DEF n
<1>4. /\ X.disp = [W.disp EXCEPT ![d] = r] /\ X.idles = W.idles
      /\ X.used = W.used /\ X.autod = W.autod /\ X.did = W.did
  BY DEF Worlds
<1>5. X \in Worlds
  <2> HIDE DEF r
  <2>1. X = [W EXCEPT !.disp = [W.disp EXCEPT ![d] = r], !.fails = n]
    BY DEF Worlds, r
  <2> HIDE DEF X
  <2> QED BY <1>2, <1>3, <2>1 DEF Worlds
<1> HIDE DEF X, r
<1>6. /\ V \in Worlds /\ QueueOK(V.idles)
      /\ Range(V.idles) = Range(X.idles) \cup {Purge}
      /\ V.disp = X.disp /\ V.used = X.used
      /\ V.autod = X.autod /\ V.did = X.did
      /\ KeepsOrder(X.idles, V.idles)
  BY <1>1, <1>4, <1>5, PushPurge
<1>7. V.disp[d] = r /\ Others(W, V, d)
  <2>1. V.disp = [W.disp EXCEPT ![d] = r] /\ W.disp \in [Displays -> Display]
    BY <1>4, <1>6 DEF Worlds
  <2> QED BY <2>1 DEF Others
<1> QED BY <1>4, <1>6, <1>7 DEF r

(***************************************************************************)
(* Creating displays.                                                      *)
(***************************************************************************)
SeatNames == OtherSeats \cup {Seat0, "none"}

(* The display d of V is new.                                              *)
Newborn(W, V, d) ==
    LET r == V.disp[d]
    IN /\ r.stored /\ r.class = "greeter" /\ ~r.registered /\ ~r.window /\ ~r.leaked
       /\ r.status \in {"PREPARED", "FAILED", "FINISHED"}
       /\ r.env \in {"none", "ready", "starting"}
       /\ RecordOK(r)
       /\ r.status \in Ended => Purge \in Range(V.idles)
       /\ LogsIn(r) => ~W.did /\ W.autod = NoDisplay
       /\ r.seat # Seat0 => r.num \in V.used \ W.used

(* The display d is a login screen of seat0 that is switched back to.      *)
Reused(W, V, d) ==
    /\ Reusable(W, d) /\ W.disp[d].seat = Seat0
    /\ V.disp[d] = [W.disp[d] EXCEPT !.status = "MANAGED"]

(* What the creation of displays may do to a world.                        *)
Created(W, V) ==
    /\ V \in Worlds /\ QueueOK(V.idles)
    /\ V.autod = W.autod /\ V.did = W.did
    /\ Range(W.idles) \subseteq Range(V.idles)
    /\ Range(V.idles) \subseteq Range(W.idles) \cup {Purge}
    /\ KeepsOrder(W.idles, V.idles)
    /\ W.used \subseteq V.used
    /\ \A d \in Displays : \/ V.disp[d] = W.disp[d]
                           \/ W.disp[d] = Unused /\ Newborn(W, V, d)
                           \/ Reused(W, V, d)
    /\ \A d, e \in Displays :
         /\ d # e /\ W.disp[d] = Unused /\ W.disp[e] = Unused
         /\ V.disp[d] # Unused /\ V.disp[e] # Unused
         /\ V.disp[d].seat # Seat0 /\ V.disp[e].seat # Seat0
         => V.disp[d].num # V.disp[e].num

(* Nothing is queued for an object that is not used.                       *)
NoStraySource(W) ==
    \A d \in Displays : ~W.disp[d].stored => {FinishOf(d), ReadyOf(d), StartOf(d)} \cap Range(W.idles) = {}

NewOnSeat(W, V, d, seat) ==
    /\ W.disp[d] = Unused /\ Newborn(W, V, d) /\ V.disp[d].seat = seat
    /\ seat = Seat0 /\ known => V.disp[d].status = "PREPARED"

LEMMA NewIsDisplay ==
    ASSUME NEW seat \in SeatNames, NEW initial \in BOOLEAN, NEW n \in -1..MaxNumber
    PROVE  New(seat, initial, n) \in Display
BY DEF New, Display, SeatNames, Statuses, Envs, Sessions, Servers

LEMMA UnusedIsNotStored == ~Unused.stored
BY DEF Unused, New

(* One more display, in a free slot, and perhaps a purge.                  *)
LEMMA OneMore ==
    ASSUME NEW W \in Worlds, NEW V \in Worlds, QueueOK(V.idles), NEW d \in Displays, W.disp[d] = Unused,
           V.autod = W.autod, V.did = W.did, W.used \subseteq V.used,
           Range(W.idles) \subseteq Range(V.idles), Range(V.idles) \subseteq Range(W.idles) \cup {Purge},
           KeepsOrder(W.idles, V.idles), Others(W, V, d), Newborn(W, V, d)
    PROVE  Created(W, V)
<1>1. \A e \in Displays : \/ V.disp[e] = W.disp[e]
                          \/ W.disp[e] = Unused /\ Newborn(W, V, e)
                          \/ Reused(W, V, e)
  BY DEF Others
<1>2. \A e \in Displays : W.disp[e] = Unused /\ V.disp[e] # Unused => e = d
  BY DEF Others
<1> QED BY <1>1, <1>2 DEF Created

(* A display of seat0 is set up at once.                                   *)
LEMMA NewDisplayOnSeatZero ==
    ASSUME NEW W \in Worlds, QueueOK(W.idles), NoStraySource(W), NEW initial \in BOOLEAN,
           NEW V \in NewDisplay(W, Seat0, initial)
    PROVE  Created(W, V) /\ \E d \in Displays : NewOnSeat(W, V, d, Seat0)
<1>1. PICK d \in Displays : /\ W.disp[d] = Unused
                            /\ V \in Manage([W EXCEPT !.disp[d] = New(Seat0, initial, -1)], d)
  BY DEF NewDisplay, FreeSlots
<1> DEFINE o == New(Seat0, initial, -1)
           p == [o EXCEPT !.env = "ready", !.status = "PREPARED", !.setup = WantsInitialSetup]
           N == [W EXCEPT !.disp[d] = o]
           P == [N EXCEPT !.disp[d].env = "ready", !.disp[d].status = "PREPARED",
                          !.disp[d].setup = WantsInitialSetup]
<1>2. o.seat = Seat0 /\ o \in Display
  <2>1. MaxNumber \in Nat
    BY DisplaysAssumption
  <2>2. Seat0 \in SeatNames /\ -1 \in -1..MaxNumber
    BY <2>1 DEF SeatNames
  <2>3. o \in Display
    BY <2>2, NewIsDisplay
  <2> QED BY <2>3 DEF New
<1>3. N = Recorded(W, d, o)
  BY DEF Recorded, Worlds
<1>4. /\ p.seat = Seat0 /\ p.class = "greeter" /\ p.status = "PREPARED" /\ p.stored /\ ~p.registered
      /\ p.env = "ready" /\ ~p.window /\ p.sess = "none" /\ p.num = -1 /\ p.server = "none" /\ ~p.leaked
      /\ p \in Display
  <2>1. /\ p.seat = Seat0 /\ p.class = "greeter" /\ p.status = "PREPARED" /\ p.stored /\ ~p.registered
        /\ p.env = "ready" /\ ~p.window /\ p.sess = "none" /\ p.num = -1 /\ p.server = "none" /\ ~p.leaked
    BY DEF New
  <2>2. [o EXCEPT !.env = "ready"] \in Display
    BY <1>2, DisplayUpdates DEF Envs
  <2>3. [[o EXCEPT !.env = "ready"] EXCEPT !.status = "PREPARED"] \in Display
    BY <2>2, DisplayUpdates DEF Statuses
  <2>4. WantsInitialSetup \in BOOLEAN
    BY DEF WantsInitialSetup
  <2>5. [[[o EXCEPT !.env = "ready"] EXCEPT !.status = "PREPARED"] EXCEPT !.setup = WantsInitialSetup] \in Display
    BY <2>3, <2>4, DisplayUpdates
  <2>6. p = [[[o EXCEPT !.env = "ready"] EXCEPT !.status = "PREPARED"] EXCEPT !.setup = WantsInitialSetup]
    BY DEF New
  <2> QED BY <2>1, <2>5, <2>6
<1>5. P = Recorded(W, d, p)
  BY ZenonT(40) DEF Recorded, Worlds
<1>6. V \in SetUpSession(P, d)
  <2>1. N.disp[d] = o
    BY DEF Worlds
  <2>2. V \in Manage(N, d)
    BY <1>1
  <2> HIDE DEF N
  <2>3. N.disp[d].seat = Seat0
    BY <1>2, <2>1
  <2> QED BY <2>2, <2>3 DEF Manage
<1> HIDE DEF o, p, N, P
<1>7. /\ P \in Worlds /\ P.disp[d] = p
      /\ Others(W, P, d)
      /\ P.idles = W.idles /\ P.used = W.used /\ P.fails = W.fails
      /\ P.autod = W.autod /\ P.did = W.did
  BY <1>4, <1>5, RecordedWorld
<1>8. SetUp(P, V, d)
  BY <1>6, <1>7, SetUpSessionResult
<1>9. Others(W, V, d)
  BY <1>7, <1>8 DEF SetUp, Others
<1>10. FinishOf(d) \notin Range(W.idles) /\ -1 \notin W.used
  <2>1. ~W.disp[d].stored
    BY <1>1, UnusedIsNotStored
  <2>2. W.used \subseteq 0..MaxNumber
    BY DEF Worlds
  <2> QED BY <2>1, <2>2 DEF NoStraySource
<1>11. /\ V \in Worlds /\ QueueOK(V.idles) /\ V.autod = W.autod /\ V.did = W.did
       /\ V.used = W.used
       /\ Range(W.idles) \subseteq Range(V.idles) /\ Range(V.idles) \subseteq Range(W.idles) \cup {Purge}
       /\ KeepsOrder(W.idles, V.idles)
  <2>1. V \in Worlds /\ QueueOK(V.idles) /\ V.autod = W.autod /\ V.did = W.did
        /\ KeepsOrder(W.idles, V.idles)
    BY <1>7, <1>8 DEF SetUp
  <2>2. V.used = P.used \/ V.used = P.used \ {P.disp[d].num}
    BY <1>8 DEF SetUp
  <2>3. V.used = W.used
    BY <1>4, <1>7, <1>10, <2>2
  <2>4. V.idles = P.idles \/ Range(V.idles) = (Range(P.idles) \ {FinishOf(d)}) \cup {Purge}
    BY <1>8 DEF SetUp
  <2> QED BY <1>7, <1>10, <2>1, <2>3, <2>4
<1>12. Newborn(W, V, d) /\ V.disp[d].seat = Seat0 /\ (known => V.disp[d].status = "PREPARED")
  <2> DEFINE r == V.disp[d]
  <2>1. CASE r = [p EXCEPT !.sess = "fresh", !.env = "starting"]
    <3>1. /\ r.seat = Seat0 /\ r.class = "greeter" /\ r.status = "PREPARED" /\ r.stored /\ ~r.registered
          /\ r.env = "starting" /\ ~r.window /\ r.sess = "fresh" /\ r.num = -1 /\ r.server = "none" /\ ~r.leaked
      BY <1>4, <2>1 DEF Display
    <3> HIDE DEF r
    <3>2. RecordOK(r)
      BY <3>1 DEF RecordOK, GoneIsEmpty, SeatZeroOK, SessionOK, ServerOK, LogsIn, Ended
    <3> QED BY <3>1, <3>2 DEF Newborn, LogsIn, Ended, r
  <2>2. CASE r = [p EXCEPT !.status = "FINISHED"] /\ ~known
             /\ Range(V.idles) = (Range(P.idles) \ {FinishOf(d)}) \cup {Purge}
    <3>1. /\ r.seat = Seat0 /\ r.class = "greeter" /\ r.status = "FINISHED" /\ r.stored /\ ~r.registered
          /\ r.env = "ready" /\ ~r.window /\ r.sess = "none" /\ r.num = -1 /\ r.server = "none" /\ ~r.leaked
      BY <1>4, <2>2 DEF Display
    <3>2. Purge \in Range(V.idles)
      BY <2>2
    <3> HIDE DEF r
    <3>3. RecordOK(r)
      BY <3>1 DEF RecordOK, GoneIsEmpty, SeatZeroOK, SessionOK, ServerOK, LogsIn, Ended, Alive
    <3> QED BY <2>2, <3>1, <3>2, <3>3 DEF Newborn, LogsIn, r
  <2>3. CASE (\E s \in {"lookup", "auto"} : r = [p EXCEPT !.sess = s]) /\ ~P.did /\ P.autod = NoDisplay
    <3>1. /\ r.seat = Seat0 /\ r.class = "greeter" /\ r.status = "PREPARED" /\ r.stored /\ ~r.registered
          /\ r.env = "ready" /\ ~r.window /\ r.sess \in {"lookup", "auto"} /\ r.num = -1
          /\ r.server = "none" /\ ~r.leaked
      BY <1>4, <2>3 DEF Display
    <3> HIDE DEF r
    <3>2. RecordOK(r)
      BY <3>1 DEF RecordOK, GoneIsEmpty, SeatZeroOK, SessionOK, ServerOK, LogsIn, Ended
    <3> QED BY <1>7, <2>3, <3>1, <3>2 DEF Newborn, LogsIn, Ended, r
  <2> QED BY <1>7, <1>8, <2>1, <2>2, <2>3 DEF SetUp
<1>13. Created(W, V)
  BY <1>1, <1>9, <1>11, <1>12, OneMore
<1> QED BY <1>1, <1>12, <1>13 DEF NewOnSeat

(* A display of another seat takes a free number and starts its X server,  *)
(* or fails.                                                               *)
LEMMA NewDisplayElsewhere ==
    ASSUME NEW W \in Worlds, QueueOK(W.idles), NEW seat \in SeatNames \ {Seat0}, NEW initial \in BOOLEAN,
           NEW V \in NewDisplay(W, seat, initial)
    PROVE  Created(W, V) /\ \E d \in Displays : NewOnSeat(W, V, d, seat)
<1> DEFINE n == NextNumber(W.used)
<1>1. seat # Seat0
  OBVIOUS
<1>2. n \in Nat /\ n \notin W.used
  BY NextNumberIsFree DEF Worlds
<1> HIDE DEF n
<1>3. ~(n > MaxNumber)
      /\ \E d \in FreeSlots(W) :
           V \in Manage([W EXCEPT !.disp[d] = New(seat, initial, n), !.used = @ \cup {n}], d)
  BY <1>1 DEF NewDisplay, n
<1>4. PICK d \in Displays :
        /\ W.disp[d] = Unused
        /\ V \in Manage([W EXCEPT !.disp[d] = New(seat, initial, n), !.used = @ \cup {n}], d)
  BY <1>3 DEF FreeSlots
<1> DEFINE o == New(seat, initial, n)
           p == [o EXCEPT !.env = "ready", !.status = "PREPARED", !.setup = WantsInitialSetup]
           u == W.used \cup {n}
           N == [W EXCEPT !.disp[d] = New(seat, initial, n), !.used = @ \cup {n}]
           U == [W EXCEPT !.used = u]
           P == [N EXCEPT !.disp[d].env = "ready", !.disp[d].status = "PREPARED",
                          !.disp[d].setup = WantsInitialSetup]
           R == [N EXCEPT !.disp[d].env = "ready"]
<1>5. n \in 0..MaxNumber /\ n \in -1..MaxNumber
  BY <1>2, <1>3, DisplaysAssumption
<1>6. U \in Worlds /\ U.disp = W.disp /\ U.idles = W.idles /\ U.used = u /\ U.fails = W.fails
      /\ U.autod = W.autod /\ U.did = W.did
  BY <1>5 DEF Worlds
<1>7. o \in Display /\ o.seat = seat
  <2>1. seat \in SeatNames
    BY DEF SeatNames
  <2> QED BY <1>5, <2>1, NewIsDisplay DEF New
<1>8. /\ p.seat = seat /\ p.class = "greeter" /\ p.status = "PREPARED" /\ p.stored /\ ~p.registered
      /\ p.env = "ready" /\ ~p.window /\ p.sess = "none" /\ p.num = n /\ p.server = "none" /\ ~p.leaked
      /\ p \in Display
  <2>1. /\ p.seat = seat /\ p.class = "greeter" /\ p.status = "PREPARED" /\ p.stored /\ ~p.registered
        /\ p.env = "ready" /\ ~p.window /\ p.sess = "none" /\ p.num = n /\ p.server = "none" /\ ~p.leaked
    BY DEF New
  <2>2. [o EXCEPT !.env = "ready"] \in Display
    BY <1>7, DisplayUpdates DEF Envs
  <2>3. [[o EXCEPT !.env = "ready"] EXCEPT !.status = "PREPARED"] \in Display
    BY <2>2, DisplayUpdates DEF Statuses
  <2>4. WantsInitialSetup \in BOOLEAN
    BY DEF WantsInitialSetup
  <2>5. [[[o EXCEPT !.env = "ready"] EXCEPT !.status = "PREPARED"] EXCEPT !.setup = WantsInitialSetup] \in Display
    BY <2>3, <2>4, DisplayUpdates
  <2>6. p = [[[o EXCEPT !.env = "ready"] EXCEPT !.status = "PREPARED"] EXCEPT !.setup = WantsInitialSetup]
    BY DEF New
  <2> QED BY <2>1, <2>5, <2>6
<1>9. P = Recorded(U, d, p)
  <2>1. W.disp \in [Displays -> Display]
    BY DEF Worlds
  <2>2. N = Recorded(U, d, o)
    BY DEF Recorded, Worlds
  <2>3. U.disp = W.disp
    BY <1>6
  <2> HIDE DEF o, N, U
  <2>4. N.disp = [W.disp EXCEPT ![d] = o] /\ N.disp[d] = o /\ o \in Display
    BY <1>6, <1>7, <2>1, <2>2, <2>3 DEF Recorded, Worlds
  <2>5. N \in Worlds
    BY <1>6, <2>2, <2>4, RecordedWorld
  <2>6. p = [N.disp[d] EXCEPT !.env = "ready", !.status = "PREPARED", !.setup = WantsInitialSetup]
    BY <2>4
  <2> HIDE DEF p
  <2>7. P = Recorded(N, d, p)
    BY <2>5, <2>6 DEF Recorded, Worlds
  <2> HIDE DEF P
  <2> QED BY <1>6, <2>1, <2>2, <2>3, <2>4, <2>7 DEF Recorded, Worlds
<1>10. R = Recorded(U, d, [o EXCEPT !.env = "ready"])
  BY DEF Recorded, Worlds
<1>11. V \in {ServerStarted(P, d), NewFailed(P, d), NewFailed(R, d)}
  <2>1. N.disp[d] = o
    BY DEF Worlds
  <2>2. V \in Manage(N, d)
    BY <1>4
  <2> HIDE DEF N
  <2>3. N.disp[d].seat # Seat0
    BY <1>1, <1>7, <2>1
  <2> QED BY <2>2, <2>3 DEF Manage
<1>12. [o EXCEPT !.env = "ready"] \in Display
  BY <1>7, DisplayUpdates DEF Envs
<1>13. /\ o.class = "greeter" /\ o.stored /\ ~o.registered /\ ~o.window /\ o.sess = "none"
       /\ o.num = n /\ o.server = "none" /\ ~o.leaked
  BY DEF New
<1> HIDE DEF o, p, u, N, P, R, U
<1>14. /\ P \in Worlds /\ P.disp[d] = p
       /\ P.idles = W.idles /\ P.used = u /\ P.autod = W.autod /\ P.did = W.did
       /\ Others(W, P, d)
  BY <1>6, <1>8, <1>9, RecordedWorld DEF Others
<1> DEFINE q == [o EXCEPT !.env = "ready"]
<1>15. q \in Display /\ R = Recorded(U, d, q)
  BY <1>10, <1>12
<1>16. /\ q.class = "greeter" /\ q.stored /\ ~q.registered /\ ~q.window /\ q.sess = "none" /\ q.seat = seat
       /\ q.num = n /\ q.server = "none" /\ ~q.leaked /\ q.env = "ready"
  BY <1>7, <1>13 DEF Display
<1> HIDE DEF q
<1>17. /\ R \in Worlds /\ R.disp[d] = q
       /\ R.idles = W.idles /\ R.used = u /\ R.autod = W.autod /\ R.did = W.did
       /\ Others(W, R, d)
  BY <1>6, <1>15, RecordedWorld DEF Others
<1>18. n \in u \ W.used /\ W.used \subseteq u
  BY <1>2 DEF u
<1>19. ASSUME V = ServerStarted(P, d) PROVE Created(W, V) /\ NewOnSeat(W, V, d, seat)
  <2> DEFINE r == [p EXCEPT !.server = "starting"]
  <2>1. r \in Display
    BY <1>8, DisplayUpdates DEF Servers
  <2>2. V = Recorded(P, d, r)
    BY <1>14, <1>19 DEF ServerStarted, Recorded, Worlds
  <2>3. /\ r.seat = seat /\ r.class = "greeter" /\ r.status = "PREPARED" /\ r.stored /\ ~r.registered
        /\ r.env = "ready" /\ ~r.window /\ r.sess = "none" /\ r.num = n /\ r.server = "starting" /\ ~r.leaked
    BY <1>8 DEF Display
  <2> HIDE DEF r
  <2>4. /\ V \in Worlds /\ V.disp[d] = r
        /\ V.idles = P.idles /\ V.used = P.used /\ V.autod = P.autod /\ V.did = P.did
        /\ Others(P, V, d) /\ KeepsOrder(P.idles, V.idles)
    <3>1. P \in Worlds
      BY <1>14
    <3>2. r \in Display /\ V = Recorded(P, d, r)
      BY <2>1, <2>2 DEF r
    <3> QED BY <3>1, <3>2, RecordedWorld DEF KeepsOrder
  <2>5. RecordOK(r)
    BY <1>1, <2>3 DEF RecordOK, GoneIsEmpty, SeatZeroOK, SessionOK, ServerOK, LogsIn, Ended
  <2>6. Newborn(W, V, d)
    BY <1>14, <1>18, <2>3, <2>4, <2>5 DEF Newborn, LogsIn, Ended
  <2>7. Created(W, V)
    BY <1>4, <1>14, <1>18, <2>4, <2>6, OneMore DEF Others
  <2> QED BY <1>1, <1>4, <2>3, <2>4, <2>6, <2>7 DEF NewOnSeat
<1>20. ASSUME NEW w, NEW r \in Display, w \in Worlds, V = NewFailed(w, d), w.disp[d] = r,
              r.class = "greeter", r.stored, ~r.registered, ~r.window, r.sess = "none", r.seat = seat,
              r.num = n, r.server = "none", ~r.leaked, r.env = "ready",
              w.idles = W.idles, w.used = u, w.autod = W.autod, w.did = W.did,
              Others(W, w, d)
       PROVE  Created(W, V) /\ NewOnSeat(W, V, d, seat)
  <2> DEFINE f == [r EXCEPT !.status = "FAILED"]
  <2> HIDE DEF f
  <2>1. /\ V \in Worlds /\ QueueOK(V.idles)
        /\ Range(V.idles) = Range(w.idles) \cup {Purge}
        /\ V.disp[d] = f /\ Others(w, V, d) /\ KeepsOrder(w.idles, V.idles)
        /\ V.used = w.used /\ V.autod = w.autod /\ V.did = w.did
    <3>1. w \in Worlds /\ QueueOK(w.idles) /\ V = NewFailed(w, d) /\ w.disp[d] = r
      BY <1>20
    <3>2. /\ V \in Worlds /\ QueueOK(V.idles)
          /\ Range(V.idles) = Range(w.idles) \cup {Purge}
          /\ V.disp[d] = [w.disp[d] EXCEPT !.status = "FAILED"]
          /\ Others(w, V, d) /\ KeepsOrder(w.idles, V.idles)
          /\ V.used = w.used /\ V.autod = w.autod /\ V.did = w.did
      BY ONLY <3>1, NewFailedResult, d \in Displays
    <3> QED BY ONLY <3>1, <3>2 DEF f
  <2>2. /\ f.seat = seat /\ f.class = "greeter" /\ f.status = "FAILED" /\ f.stored /\ ~f.registered
        /\ f.env = "ready" /\ ~f.window /\ f.sess = "none" /\ f.num = n /\ f.server = "none" /\ ~f.leaked
    BY <1>20 DEF Display, f
  <2>4. V.disp[d] = f /\ Others(W, V, d)
    BY <1>20, <2>1 DEF Others
  <2>5. RecordOK(f)
    BY <1>1, <2>2 DEF RecordOK, GoneIsEmpty, SeatZeroOK, SessionOK, ServerOK, LogsIn, Ended
  <2>6. Newborn(W, V, d)
    BY <1>18, <1>20, <2>1, <2>2, <2>4, <2>5 DEF Newborn, LogsIn
  <2>7. Created(W, V)
    BY <1>4, <1>18, <1>20, <2>1, <2>4, <2>6, OneMore
  <2> QED BY <1>1, <1>4, <2>2, <2>4, <2>6, <2>7 DEF NewOnSeat
<1>21. ASSUME V = NewFailed(P, d) PROVE Created(W, V) /\ NewOnSeat(W, V, d, seat)
  BY <1>8, <1>14, <1>20, <1>21
<1>22. ASSUME V = NewFailed(R, d) PROVE Created(W, V) /\ NewOnSeat(W, V, d, seat)
  BY <1>15, <1>16, <1>17, <1>20, <1>22
<1> QED BY <1>11, <1>19, <1>21, <1>22

(***************************************************************************)
(* What creating displays keeps.                                           *)
(***************************************************************************)
(* The sources of d, and whether there is a purge, as far as d needs them. *)
SameSources(W, V, d) ==
    /\ \A e \in {FinishOf(d), ReadyOf(d), StartOf(d)} : e \in Range(W.idles) <=> e \in Range(V.idles)
    /\ Purge \in Range(W.idles) => Purge \in Range(V.idles)

LEMMA Untouched ==
    ASSUME NEW W, NEW V, NEW d, Fine(W, d), V.disp[d] = W.disp[d], SameSources(W, V, d),
           V.autod = d => W.autod = d
    PROVE  Fine(V, d)
<1>1. /\ Queued(V, "finish", d) <=> Queued(W, "finish", d)
      /\ Queued(V, "ready", d) <=> Queued(W, "ready", d)
      /\ Queued(V, "start", d) <=> Queued(W, "start", d)
  BY DEF SameSources, FinishOf, ReadyOf, StartOf, Queued
<1>2. Purge \in Range(W.idles) => Purge \in Range(V.idles)
  BY DEF SameSources
<1>3. RecordOK(V.disp[d])
  BY DEF Fine
<1>4. SourcesOK(V, d)
  BY <1>1, <1>2 DEF Fine, SourcesOK
<1>5. AutoOK(V, d)
  BY DEF Fine, AutoOK
<1> QED BY <1>3, <1>4, <1>5 DEF Fine

LEMMA FineLeavesNoStray ==
    ASSUME NEW W, NEW X, FineBut(W, X), \A d \in X : W.disp[d].stored
    PROVE  NoStraySource(W)
<1> SUFFICES ASSUME NEW d \in Displays, ~W.disp[d].stored
             PROVE  {FinishOf(d), ReadyOf(d), StartOf(d)} \cap Range(W.idles) = {}
  BY DEF NoStraySource
<1>1. Fine(W, d)
  BY DEF FineBut
<1>2. W.disp[d].server = "none"
  <2>1. W.disp[d] = [Unused EXCEPT !.window = W.disp[d].window, !.seat = W.disp[d].seat,
                                   !.initial = W.disp[d].initial]
    BY <1>1 DEF Fine, RecordOK, GoneIsEmpty
  <2> QED BY <2>1 DEF Unused, New
<1>3. ~Queued(W, "finish", d) /\ ~Queued(W, "ready", d) /\ ~Queued(W, "start", d)
  BY <1>1, <1>2 DEF Fine, SourcesOK
<1> QED BY <1>3 DEF Queued, FinishOf, ReadyOf, StartOf

LEMMA CreatedKeepsFine ==
    ASSUME NEW W, NEW V, NEW X, FineBut(W, X), \A d \in X : W.disp[d].stored, Created(W, V)
    PROVE  FineBut(V, X)
<1>1. V \in Worlds /\ Once(V.idles)
  BY DEF Created, QueueOK
<1>2. NoStraySource(W)
  BY FineLeavesNoStray
<1>3. \A d \in Displays : SameSources(W, V, d)
  <2>1. Range(W.idles) \subseteq Range(V.idles) /\ Range(V.idles) \subseteq Range(W.idles) \cup {Purge}
    BY DEF Created
  <2> QED BY <2>1, EntriesOfDisplays DEF SameSources
<1> SUFFICES ASSUME NEW d \in Displays \ X PROVE Fine(V, d)
  BY <1>1 DEF FineBut
<1>4. Fine(W, d) /\ SameSources(W, V, d) /\ V.autod = W.autod
  BY <1>3 DEF FineBut, Created
<1>5. CASE V.disp[d] = W.disp[d]
  BY <1>4, <1>5, Untouched
<1>6. CASE W.disp[d] = Unused /\ Newborn(W, V, d)
  <2>1. ~W.disp[d].stored
    BY <1>6, UnusedIsNotStored
  <2>2. ~Queued(V, "finish", d) /\ ~Queued(V, "ready", d) /\ ~Queued(V, "start", d)
    BY <1>2, <1>4, <2>1 DEF NoStraySource, SameSources, Queued, FinishOf, ReadyOf, StartOf
  <2>3. SourcesOK(V, d)
    BY <1>6, <2>2 DEF SourcesOK, Newborn
  <2>4. AutoOK(V, d)
    BY <1>4, <2>1 DEF Fine, AutoOK
  <2> QED BY <1>6, <2>3, <2>4 DEF Fine, Newborn
<1>7. CASE Reused(W, V, d)
  <2> DEFINE r == W.disp[d]
             m == [r EXCEPT !.status = "MANAGED"]
  <2>1. V.disp[d] = m /\ r \in Display
    BY <1>7 DEF Reused, FineBut, Worlds
  <2>2. r.stored /\ r.class = "greeter" /\ r.status \in {"MANAGED", "WAITING_TO_FINISH"} /\ r.seat = Seat0
    BY <1>7 DEF Reused, Reusable
  <2>3. RecordOK(r) /\ SourcesOK(W, d) /\ AutoOK(W, d)
    BY <1>4 DEF Fine
  <2> HIDE DEF r
  <2>4. /\ m.status = "MANAGED" /\ m.seat = r.seat /\ m.class = r.class /\ m.initial = r.initial
        /\ m.setup = r.setup /\ m.stored = r.stored /\ m.registered = r.registered /\ m.env = r.env
        /\ m.window = r.window /\ m.sess = r.sess /\ m.num = r.num /\ m.server = r.server
        /\ m.leaked = r.leaked
    BY <2>1 DEF Display
  <2> HIDE DEF m
  <2>5. r.server = "none" /\ ~LogsIn(r) /\ r.num = -1
    BY <2>2, <2>3 DEF RecordOK, SeatZeroOK, SessionOK
  <2>6. RecordOK(m)
    BY <2>2, <2>3, <2>4, <2>5 DEF RecordOK, GoneIsEmpty, SeatZeroOK, SessionOK, ServerOK, LogsIn, Ended
  <2>7. /\ Queued(V, "finish", d) <=> Queued(W, "finish", d)
        /\ Queued(V, "ready", d) <=> Queued(W, "ready", d)
        /\ Queued(V, "start", d) <=> Queued(W, "start", d)
    BY <1>4 DEF SameSources, FinishOf, ReadyOf, StartOf, Queued
  <2>8. SourcesOK(V, d)
    BY <2>1, <2>2, <2>3, <2>4, <2>7 DEF SourcesOK, Ended, r
  <2>9. AutoOK(V, d)
    BY <1>4, <2>2, <2>3 DEF AutoOK, r
  <2> QED BY <2>1, <2>6, <2>8, <2>9 DEF Fine
<1> QED BY <1>5, <1>6, <1>7 DEF Created

LEMMA CreatedNothing ==
    ASSUME NEW W \in Worlds, QueueOK(W.idles)
    PROVE  Created(W, W)
BY DEF Created, KeepsOrder

LEMMA CreatedTwice ==
    ASSUME NEW W, NEW V, NEW X, Created(W, V), Created(V, X)
    PROVE  Created(W, X)
<1>1. /\ X \in Worlds /\ QueueOK(X.idles) /\ X.autod = W.autod /\ X.did = W.did
      /\ Range(W.idles) \subseteq Range(X.idles) /\ Range(X.idles) \subseteq Range(W.idles) \cup {Purge}
      /\ W.used \subseteq V.used /\ V.used \subseteq X.used
      /\ Range(V.idles) \subseteq Range(X.idles)
      /\ V.autod = W.autod /\ V.did = W.did /\ V \in Worlds
      /\ KeepsOrder(W.idles, X.idles)
  BY KeepsOrderTwice DEF Created
<1>2. \A d \in Displays : \/ V.disp[d] = W.disp[d]
                          \/ W.disp[d] = Unused /\ Newborn(W, V, d)
                          \/ Reused(W, V, d)
  BY DEF Created
<1>3. \A d \in Displays : \/ X.disp[d] = V.disp[d]
                          \/ V.disp[d] = Unused /\ Newborn(V, X, d)
                          \/ Reused(V, X, d)
  BY DEF Created
<1>4. \A d \in Displays : Newborn(W, V, d) => V.disp[d] # Unused /\ ~Reusable(V, d)
  BY UnusedIsNotStored DEF Newborn, Reusable
<1>5. \A d \in Displays : Reused(W, V, d) => V.disp[d] # Unused
  <2> SUFFICES ASSUME NEW d \in Displays, Reused(W, V, d) PROVE V.disp[d].stored
    BY UnusedIsNotStored
  <2>1. V.disp[d] = [W.disp[d] EXCEPT !.status = "MANAGED"] /\ W.disp[d].stored
    BY DEF Reused, Reusable
  <2> QED BY <2>1
<1>6. \A d \in Displays : W.disp[d] = Unused /\ Newborn(W, V, d) =>
         X.disp[d] = V.disp[d] /\ Newborn(W, X, d)
  <2> SUFFICES ASSUME NEW d \in Displays, W.disp[d] = Unused, Newborn(W, V, d)
               PROVE  X.disp[d] = V.disp[d] /\ Newborn(W, X, d)
    OBVIOUS
  <2>1. X.disp[d] = V.disp[d]
    BY <1>3, <1>4 DEF Reused
  <2> QED BY <1>1, <2>1 DEF Newborn
<1>7. \A d \in Displays : V.disp[d] = Unused /\ Newborn(V, X, d) =>
         W.disp[d] = Unused /\ Newborn(W, X, d) /\ (X.disp[d].seat # Seat0 => X.disp[d].num \notin V.used)
  <2> SUFFICES ASSUME NEW d \in Displays, V.disp[d] = Unused, Newborn(V, X, d)
               PROVE  W.disp[d] = Unused /\ Newborn(W, X, d)
                      /\ (X.disp[d].seat # Seat0 => X.disp[d].num \notin V.used)
    OBVIOUS
  <2>1. W.disp[d] = Unused
    BY <1>2, <1>4, <1>5
  <2> QED BY <1>1, <2>1 DEF Newborn
<1>8. \A d \in Displays : Reused(V, X, d) => Reused(W, X, d)
  <2> SUFFICES ASSUME NEW d \in Displays, Reused(V, X, d) PROVE Reused(W, X, d)
    OBVIOUS
  <2>1. Reusable(V, d) /\ V.disp[d].seat = Seat0 /\ X.disp[d] = [V.disp[d] EXCEPT !.status = "MANAGED"]
    BY DEF Reused
  <2>2. CASE V.disp[d] = W.disp[d]
    BY <2>1, <2>2 DEF Reused, Reusable
  <2>3. CASE Reused(W, V, d)
    <3>1. V.disp[d] = [W.disp[d] EXCEPT !.status = "MANAGED"]
      BY <2>3 DEF Reused
    <3>2. X.disp[d] = [W.disp[d] EXCEPT !.status = "MANAGED"]
      BY <2>1, <3>1
    <3> QED BY <2>3, <3>2 DEF Reused
  <2> QED BY <1>2, <1>4, <2>1, <2>2, <2>3
<1>9. \A d \in Displays : \/ X.disp[d] = W.disp[d]
                          \/ W.disp[d] = Unused /\ Newborn(W, X, d)
                          \/ Reused(W, X, d)
  <2> SUFFICES ASSUME NEW d \in Displays
               PROVE  \/ X.disp[d] = W.disp[d]
                      \/ W.disp[d] = Unused /\ Newborn(W, X, d)
                      \/ Reused(W, X, d)
    OBVIOUS
  <2>1. CASE X.disp[d] = V.disp[d]
    <3>1. CASE Reused(W, V, d)
      BY <2>1, <3>1 DEF Reused
    <3> QED BY <1>2, <1>6, <2>1, <3>1
  <2> QED BY <1>3, <1>7, <1>8, <2>1
<1>10. ASSUME NEW d \in Displays, NEW e \in Displays, d # e, W.disp[d] = Unused, W.disp[e] = Unused,
              X.disp[d] # Unused, X.disp[e] # Unused, X.disp[d].seat # Seat0, X.disp[e].seat # Seat0
       PROVE  X.disp[d].num # X.disp[e].num
  <2>1. \A c \in {d, e} : \/ /\ Newborn(W, V, c) /\ X.disp[c] = V.disp[c] /\ V.disp[c] # Unused
                             /\ X.disp[c].num \in V.used
                          \/ X.disp[c].num \notin V.used
    <3> SUFFICES ASSUME NEW c \in {d, e}
                 PROVE  \/ /\ Newborn(W, V, c) /\ X.disp[c] = V.disp[c] /\ V.disp[c] # Unused
                           /\ X.disp[c].num \in V.used
                        \/ X.disp[c].num \notin V.used
      OBVIOUS
    <3>1. c \in Displays /\ W.disp[c] = Unused /\ X.disp[c] # Unused /\ X.disp[c].seat # Seat0
      BY <1>10
    <3>2. ~Reusable(W, c)
      BY <3>1, UnusedIsNotStored DEF Reusable
    <3>3. CASE Newborn(W, V, c)
      BY <1>4, <1>6, <3>1, <3>3 DEF Newborn
    <3>4. CASE V.disp[c] = W.disp[c]
      <4>1. ~Reusable(V, c)
        BY <3>1, <3>4, UnusedIsNotStored DEF Reusable
      <4>2. V.disp[c] = Unused /\ Newborn(V, X, c)
        BY <1>3, <3>1, <3>4, <4>1 DEF Reused
      <4> QED BY <1>7, <3>1, <4>2
    <3> QED BY <1>2, <3>1, <3>2, <3>3, <3>4 DEF Reused
  <2>2. CASE V.disp[d] # Unused /\ V.disp[e] # Unused /\ X.disp[d] = V.disp[d] /\ X.disp[e] = V.disp[e]
    BY <1>10, <2>2 DEF Created
  <2>3. CASE ~(X.disp[d].num \in V.used /\ X.disp[e].num \in V.used)
    <3>1. CASE X.disp[d].num \notin V.used /\ X.disp[e].num \notin V.used
      <4>1. \A c \in {d, e} : V.disp[c] = Unused
        <5> SUFFICES ASSUME NEW c \in {d, e}, V.disp[c] # Unused PROVE FALSE
          OBVIOUS
        <5>1. c \in Displays /\ W.disp[c] = Unused /\ X.disp[c].seat # Seat0 /\ X.disp[c].num \notin V.used
          BY <1>10, <3>1
        <5>2. ~Reusable(W, c)
          BY <5>1, UnusedIsNotStored DEF Reusable
        <5>3. Newborn(W, V, c) /\ X.disp[c] = V.disp[c]
          BY <1>2, <1>6, <5>1, <5>2 DEF Reused
        <5> QED BY <5>1, <5>3 DEF Newborn
      <4> QED BY <1>10, <4>1 DEF Created
    <3> QED BY <2>1, <2>3, <3>1
  <2> QED BY <2>1, <2>2, <2>3
<1> QED BY <1>1, <1>9, <1>10 DEF Created

LEMMA CreatedLeavesNoStray ==
    ASSUME NEW W, NEW V, Created(W, V), NoStraySource(W)
    PROVE  NoStraySource(V)
<1> SUFFICES ASSUME NEW d \in Displays, ~V.disp[d].stored
             PROVE  {FinishOf(d), ReadyOf(d), StartOf(d)} \cap Range(V.idles) = {}
  BY DEF NoStraySource
<1>1. ~W.disp[d].stored
  <2>1. CASE Reused(W, V, d)
    <3>1. V.disp[d] = [W.disp[d] EXCEPT !.status = "MANAGED"]
      BY <2>1 DEF Reused
    <3> QED BY <3>1
  <2>2. CASE W.disp[d] = Unused
    BY <2>2, UnusedIsNotStored
  <2> QED BY <2>1, <2>2 DEF Created
<1>2. {FinishOf(d), ReadyOf(d), StartOf(d)} \cap Range(W.idles) = {}
  BY <1>1 DEF NoStraySource
<1>3. Range(V.idles) \subseteq Range(W.idles) \cup {Purge}
  BY DEF Created
<1>4. Purge \notin {FinishOf(d), ReadyOf(d), StartOf(d)}
  BY EntriesOfDisplays
<1> QED BY <1>2, <1>3, <1>4

(* Is there a login screen on seat0?  And is every display of seat0 that   *)
(* is being prepared one?                                                  *)
Screen(W) ==
    \E g \in Displays : /\ W.disp[g].stored /\ W.disp[g].seat = Seat0 /\ W.disp[g].class = "greeter"
                        /\ W.disp[g].status \in {"PREPARED", "MANAGED"}

PreparedGreet(W) ==
    \A d \in Displays : W.disp[d].stored /\ W.disp[d].seat = Seat0 /\ W.disp[d].status = "PREPARED"
                        => W.disp[d].class = "greeter"

LEMMA ReusedIsManaged ==
    ASSUME NEW W, NEW V, NEW d, Reused(W, V, d)
    PROVE  /\ V.disp[d].stored /\ V.disp[d].seat = Seat0 /\ V.disp[d].class = "greeter"
           /\ W.disp[d].stored /\ W.disp[d].class = "greeter" /\ W.disp[d].status \notin Ended
           /\ V.disp[d].sess = W.disp[d].sess
           /\ \/ V.disp[d].status = "MANAGED"
              \/ V.disp[d].status = W.disp[d].status
<1>1. /\ W.disp[d].stored /\ W.disp[d].class = "greeter" /\ W.disp[d].seat = Seat0
      /\ W.disp[d].status \in {"MANAGED", "WAITING_TO_FINISH"}
      /\ V.disp[d] = [W.disp[d] EXCEPT !.status = "MANAGED"]
  BY DEF Reused, Reusable
<1> QED BY <1>1 DEF Ended

LEMMA CreatedKeepsScreen ==
    ASSUME NEW W \in Worlds, NEW V, Created(W, V)
    PROVE  /\ PreparedGreet(W) => PreparedGreet(V)
           /\ Screen(W) => Screen(V)
<1>1. \A d \in Displays : \/ V.disp[d] = W.disp[d]
                          \/ W.disp[d] = Unused /\ Newborn(W, V, d)
                          \/ Reused(W, V, d)
  BY DEF Created
<1>2. ASSUME PreparedGreet(W), NEW d \in Displays, V.disp[d].stored, V.disp[d].seat = Seat0,
             V.disp[d].status = "PREPARED"
      PROVE  V.disp[d].class = "greeter"
  BY <1>1, <1>2, ReusedIsManaged DEF PreparedGreet, Newborn
<1>3. ASSUME Screen(W) PROVE Screen(V)
  <2>1. PICK g \in Displays : /\ W.disp[g].stored /\ W.disp[g].seat = Seat0 /\ W.disp[g].class = "greeter"
                              /\ W.disp[g].status \in {"PREPARED", "MANAGED"}
    BY <1>3 DEF Screen
  <2>2. W.disp[g] # Unused
    BY <2>1, UnusedIsNotStored
  <2>3. CASE V.disp[g] = W.disp[g]
    BY <2>1, <2>3 DEF Screen
  <2>4. CASE Reused(W, V, g)
    <3>1. /\ V.disp[g].stored /\ V.disp[g].seat = Seat0 /\ V.disp[g].class = "greeter"
          /\ V.disp[g].status \in {"PREPARED", "MANAGED"}
      <4>1. V.disp[g].status = "MANAGED" \/ V.disp[g].status = W.disp[g].status
        BY <2>4, ReusedIsManaged
      <4> QED BY <2>1, <2>4, <4>1, ReusedIsManaged
    <3> QED BY <3>1 DEF Screen
  <2> QED BY <1>1, <2>2, <2>3, <2>4
<1> QED BY <1>2, <1>3 DEF PreparedGreet

LEMMA CreateDisplayResult ==
    ASSUME NEW W \in Worlds, QueueOK(W.idles), NoStraySource(W), NEW seat \in SeatNames,
           NEW initial \in BOOLEAN, NEW V \in CreateDisplay(W, seat, initial)
    PROVE  /\ Created(W, V)
           /\ seat = Seat0 /\ known /\ PreparedGreet(W) => Screen(V)
<1>1. CASE SeatTaken(W, seat)
  <2>1. V = W
    BY <1>1 DEF CreateDisplay
  <2>2. Created(W, V)
    BY <2>1, CreatedNothing
  <2>3. ASSUME seat = Seat0, PreparedGreet(W) PROVE Screen(V)
    <3>1. PICK d \in OnSeat(W, Seat0) : W.disp[d].status = "PREPARED"
      BY <1>1, <2>3 DEF SeatTaken
    <3>2. d \in Displays /\ W.disp[d].stored /\ W.disp[d].seat = Seat0
      BY DEF OnSeat, InStore
    <3>3. W.disp[d].class = "greeter"
      BY <2>3, <3>1, <3>2 DEF PreparedGreet
    <3> QED BY <2>1, <3>1, <3>2, <3>3 DEF Screen
  <2> QED BY <2>2, <2>3
<1>2. ASSUME V \in NewDisplay(W, seat, initial)
      PROVE  Created(W, V) /\ (seat = Seat0 /\ known => Screen(V))
  <2>1. CASE seat = Seat0
    <3>1. Created(W, V) /\ \E d \in Displays : NewOnSeat(W, V, d, Seat0)
      BY <1>2, <2>1, NewDisplayOnSeatZero
    <3>2. PICK d \in Displays : NewOnSeat(W, V, d, Seat0)
      BY <3>1
    <3>3. ASSUME known PROVE Screen(V)
      <4>1. /\ V.disp[d].stored /\ V.disp[d].seat = Seat0 /\ V.disp[d].class = "greeter"
            /\ V.disp[d].status \in {"PREPARED", "MANAGED"}
        BY <3>2, <3>3 DEF NewOnSeat, Newborn
      <4> QED BY <4>1 DEF Screen
    <3> QED BY <3>1, <3>3
  <2>2. CASE seat # Seat0
    <3>1. seat \in SeatNames \ {Seat0}
      BY <2>2
    <3> QED BY <1>2, <2>2, <3>1, NewDisplayElsewhere
  <2> QED BY <2>1, <2>2
<1>3. ASSUME ~SeatTaken(W, seat), V \notin NewDisplay(W, seat, initial)
      PROVE  Created(W, V) /\ (seat = Seat0 => Screen(V))
  <2>1. PICK d \in LoginWindows(W, seat) : Reusable(W, d) /\ V = [W EXCEPT !.disp[d].status = "MANAGED"]
    BY <1>3 DEF CreateDisplay
  <2>2. d \in Displays /\ W.disp[d].seat = seat /\ W.disp[d].stored
    BY <2>1 DEF LoginWindows, Reusable
  <2>3. seat = Seat0
    BY <1>3, <2>2 DEF SeatTaken, OnSeat, InStore
  <2> DEFINE r == [W.disp[d] EXCEPT !.status = "MANAGED"]
  <2>4. r \in Display /\ V = Recorded(W, d, r)
    BY <2>1, <2>2, DisplayUpdates DEF Worlds, Recorded, Statuses
  <2> HIDE DEF r
  <2>5. /\ V \in Worlds /\ V.disp[d] = r /\ Others(W, V, d)
        /\ V.idles = W.idles /\ V.used = W.used
        /\ V.autod = W.autod /\ V.did = W.did
    BY <2>2, <2>4, RecordedWorld
  <2>6. Reused(W, V, d)
    BY <2>1, <2>2, <2>3, <2>5 DEF Reused, r
  <2>7. \A e \in Displays : W.disp[e] = Unused => V.disp[e] = Unused
    BY <2>2, <2>5, UnusedIsNotStored DEF Others
  <2>8. \A e \in Displays : V.disp[e] = W.disp[e] \/ Reused(W, V, e)
    BY <2>5, <2>6 DEF Others
  <2>9. Created(W, V)
    BY <2>5, <2>7, <2>8 DEF Created, KeepsOrder
  <2>10. Screen(V)
    <3>1. V.disp[d].status = "MANAGED"
      BY <2>2, <2>5 DEF r, Worlds, Display
    <3> QED BY <2>2, <2>6, <3>1, ReusedIsManaged DEF Screen
  <2> QED BY <2>9, <2>10
<1> QED BY <1>1, <1>2, <1>3

(***************************************************************************)
(* Every seat in turn.                                                     *)
(***************************************************************************)
(* The worlds after the seats of S, given those after fewer seats.         *)
SyncFrom(A, s) == UNION {CreateDisplay(w, s, s = Seat0) : w \in A}

SyncStep(W, f, S) == IF S = {} THEN {W} ELSE UNION {SyncFrom(f[S \ {s}], s) : s \in S}

LEMMA SyncStepIsLocal ==
    ASSUME NEW W, NEW f, NEW g, NEW S, \A s \in S : f[S \ {s}] = g[S \ {s}]
    PROVE  SyncStep(W, f, S) = SyncStep(W, g, S)
<1>1. {SyncFrom(f[S \ {s}], s) : s \in S} = {SyncFrom(g[S \ {s}], s) : s \in S}
  OBVIOUS
<1> QED BY <1>1 DEF SyncStep

(* The subsets of U with at most n elements.                               *)
UpTo(U, n) == {S \in SUBSET U : Cardinality(S) <= n}

LEMMA UpToGrows ==
    ASSUME NEW U, IsFiniteSet(U), NEW n \in Nat
    PROVE  /\ \A S \in UpTo(U, n + 1) : \A s \in S : S \ {s} \in UpTo(U, n)
           /\ UpTo(U, n) \subseteq UpTo(U, n + 1)
           /\ UpTo(U, 0) = {{}}
           /\ UpTo(U, Cardinality(U)) = SUBSET U
<1>1. \A S \in SUBSET U : IsFiniteSet(S) /\ Cardinality(S) \in Nat /\ Cardinality(S) <= Cardinality(U)
  BY FS_Subset, FS_CardinalityType
<1>2. \A S \in SUBSET U : \A s \in S : Cardinality(S \ {s}) = Cardinality(S) - 1
  BY <1>1, FS_RemoveElement
<1>3. \A S \in SUBSET U : Cardinality(S) = 0 => S = {}
  BY <1>1, FS_EmptySet
<1>4. Cardinality({}) = 0
  BY FS_EmptySet
<1>5. \A S \in UpTo(U, n + 1) : \A s \in S : S \ {s} \in UpTo(U, n)
  <2> SUFFICES ASSUME NEW S \in SUBSET U, Cardinality(S) <= n + 1, NEW s \in S
               PROVE  S \ {s} \in SUBSET U /\ Cardinality(S \ {s}) <= n
    BY DEF UpTo
  <2> QED BY <1>1, <1>2
<1>6. UpTo(U, n) \subseteq UpTo(U, n + 1)
  BY <1>1 DEF UpTo
<1>7. UpTo(U, 0) = {{}}
  <2>1. UpTo(U, 0) \subseteq {{}}
    <3> SUFFICES ASSUME NEW S \in SUBSET U, Cardinality(S) <= 0 PROVE S = {}
      BY DEF UpTo
    <3> QED BY <1>1, <1>3
  <2>2. {} \in UpTo(U, 0)
    BY <1>4 DEF UpTo
  <2> QED BY <2>1, <2>2
<1>8. UpTo(U, Cardinality(U)) = SUBSET U
  BY <1>1 DEF UpTo
<1> QED BY <1>5, <1>6, <1>7, <1>8

(* The recursion of SyncSeats has a solution.                              *)
LEMMA SyncSeatsIsDefined ==
    ASSUME NEW W, IsFiniteSet(seats)
    PROVE  \E f : /\ f = [S \in SUBSET ({Seat0} \cup seats) |-> SyncStep(W, f, S)]
                  /\ SyncSeats(W) = f[{Seat0} \cup seats]
<1> DEFINE all == {Seat0} \cup seats
           P == {n \in Nat : \E f : f = [S \in UpTo(all, n) |-> SyncStep(W, f, S)]}
<1>0. IsFiniteSet(all)
  BY FS_AddElement
<1>1. 0 \in P
  <2> DEFINE f == [S \in {{}} |-> {W}]
  <2>1. UpTo(all, 0) = {{}}
    BY <1>0, UpToGrows
  <2>2. \A S \in {{}} : SyncStep(W, f, S) = {W}
    BY DEF SyncStep
  <2>3. f = [S \in {{}} |-> SyncStep(W, f, S)]
    BY <2>2
  <2> QED BY <2>1, <2>3
<1>2. \A n \in Nat : n \in P => n + 1 \in P
  <2> SUFFICES ASSUME NEW n \in Nat, n \in P PROVE n + 1 \in P
    OBVIOUS
  <2>1. PICK f : f = [S \in UpTo(all, n) |-> SyncStep(W, f, S)]
    OBVIOUS
  <2> DEFINE g == [S \in UpTo(all, n + 1) |-> SyncStep(W, f, S)]
  <2>0. /\ \A S \in UpTo(all, n + 1) : \A s \in S : S \ {s} \in UpTo(all, n)
        /\ UpTo(all, n) \subseteq UpTo(all, n + 1)
    BY <1>0, UpToGrows
  <2> HIDE DEF all
  <2>2. \A S \in UpTo(all, n) : g[S] = f[S]
    <3> SUFFICES ASSUME NEW S \in UpTo(all, n) PROVE g[S] = f[S]
      OBVIOUS
    <3>0. S \in UpTo(all, n + 1)
      BY <2>0
    <3>1. g[S] = SyncStep(W, f, S)
      BY <3>0
    <3>2. f[S] = SyncStep(W, f, S)
      BY <2>1
    <3> QED BY <3>1, <3>2
  <2> HIDE DEF g
  <2>3. \A S \in UpTo(all, n + 1) : SyncStep(W, f, S) = SyncStep(W, g, S)
    <3> SUFFICES ASSUME NEW S \in UpTo(all, n + 1) PROVE SyncStep(W, f, S) = SyncStep(W, g, S)
      OBVIOUS
    <3>1. \A s \in S : f[S \ {s}] = g[S \ {s}]
      BY <2>0, <2>2
    <3> QED BY <3>1, SyncStepIsLocal
  <2>4. g = [S \in UpTo(all, n + 1) |-> SyncStep(W, g, S)]
    BY <2>3 DEF g
  <2> QED BY <2>4
<1>3. Cardinality(all) \in P
  <2>1. Cardinality(all) \in Nat
    BY <1>0, FS_CardinalityType
  <2> HIDE DEF P, all
  <2> QED BY <1>1, <1>2, <2>1, NatSetInduction
<1>4. UpTo(all, Cardinality(all)) = SUBSET all
  <2> HIDE DEF all
  <2> QED BY <1>0, UpToGrows
<1>5. PICK f : f = [S \in SUBSET all |-> SyncStep(W, f, S)]
  BY <1>3, <1>4
<1> DEFINE F == CHOOSE g : g = [S \in SUBSET all |-> SyncStep(W, g, S)]
<1>6. F = [S \in SUBSET all |-> SyncStep(W, F, S)]
  BY <1>5
<1>7. SyncSeats(W) = F[all]
  BY DEF SyncSeats, SyncStep, SyncFrom, Then
<1> HIDE DEF F
<1> QED BY <1>6, <1>7

LEMMA SyncSeatsResult ==
    ASSUME NEW W \in Worlds, QueueOK(W.idles), NoStraySource(W), seats \subseteq OtherSeats,
           NEW V \in SyncSeats(W)
    PROVE  Created(W, V) /\ (known /\ PreparedGreet(W) => Screen(V))
<1> DEFINE all == {Seat0} \cup seats
<1>0. IsFiniteSet(seats) /\ IsFiniteSet(all)
  <2>1. IsFiniteSet(seats)
    BY DisplaysAssumption, FS_Subset
  <2> QED BY <2>1, FS_AddElement
<1>1. PICK f : f = [S \in SUBSET all |-> SyncStep(W, f, S)] /\ SyncSeats(W) = f[all]
  BY <1>0, SyncSeatsIsDefined
<1> DEFINE Good(S, X) == Created(W, X) /\ (Seat0 \in S /\ known /\ PreparedGreet(W) => Screen(X))
           P == {S \in SUBSET all : \A X \in f[S] : Good(S, X)}
<1>2. \A S \in SUBSET all : (\A s \in S : S \ {s} \in P) => S \in P
  <2> SUFFICES ASSUME NEW S \in SUBSET all, \A s \in S : S \ {s} \in P, NEW X \in f[S] PROVE Good(S, X)
    OBVIOUS
  <2>1. f[S] = SyncStep(W, f, S)
    BY <1>1
  <2>2. CASE S = {}
    <3>1. X = W
      BY <2>1, <2>2 DEF SyncStep
    <3> QED BY <2>2, <3>1, CreatedNothing
  <2>3. CASE S # {}
    <3>1. PICK s \in S : X \in SyncFrom(f[S \ {s}], s)
      BY <2>1, <2>3 DEF SyncStep
    <3>2. PICK Y \in f[S \ {s}] : X \in CreateDisplay(Y, s, s = Seat0)
      BY <3>1 DEF SyncFrom
    <3>3. Good(S \ {s}, Y)
      OBVIOUS
    <3> HIDE DEF P
    <3>4. Created(W, Y)
      BY <3>3
    <3>5. Y \in Worlds /\ QueueOK(Y.idles) /\ NoStraySource(Y)
      BY <3>4, CreatedLeavesNoStray DEF Created
    <3>6. s \in SeatNames /\ (s = Seat0) \in BOOLEAN
      BY DEF SeatNames
    <3>7. Created(Y, X) /\ (s = Seat0 /\ known /\ PreparedGreet(Y) => Screen(X))
      BY <3>2, <3>5, <3>6, CreateDisplayResult
    <3>8. Created(W, X)
      BY <3>4, <3>7, CreatedTwice
    <3>9. PreparedGreet(W) => PreparedGreet(Y)
      BY <3>4, CreatedKeepsScreen
    <3>10. Screen(Y) => Screen(X)
      BY <3>5, <3>7, CreatedKeepsScreen
    <3>11. Seat0 \in S => s = Seat0 \/ Seat0 \in S \ {s}
      OBVIOUS
    <3> QED BY <3>3, <3>7, <3>8, <3>9, <3>10, <3>11
  <2> QED BY <2>2, <2>3
<1>3. SUBSET all \subseteq P
  <2> HIDE DEF P, all
  <2> QED BY <1>0, <1>2, SubsetInduction
<1>4. all \in P
  BY <1>3
<1>5. Good(all, V) /\ Seat0 \in all
  BY <1>1, <1>4
<1> QED BY <1>5

(***************************************************************************)
(* What the handlers leave alone.                                          *)
(***************************************************************************)
(* A display stays in the store, and one that has ended or shows a user's  *)
(* session stays as it is.                                                 *)
Spared(r, s) ==
    r.stored => s.stored /\ (r.class = "user" \/ r.status \in Ended => s = r)

(* What changes of the displays other than those of X.                     *)
Rest(W, V, X) ==
    /\ \A d \in Displays \ X : Spared(W.disp[d], V.disp[d])
    /\ W.autod \notin X => V.autod = W.autod /\ V.did = W.did
    /\ W.did /\ W.autod = NoDisplay =>
         \A d \in Displays \ X : LogsIn(V.disp[d]) => LogsIn(W.disp[d])

LEMMA RestTwice ==
    ASSUME NEW W, NEW V, NEW Z, NEW X \in SUBSET Displays, Rest(W, V, X), Rest(V, Z, X)
    PROVE  Rest(W, Z, X)
<1>1. NoDisplay \notin X
  BY DisplaysAssumption
<1>2. \A d \in Displays \ X : Spared(W.disp[d], Z.disp[d])
  BY DEF Rest, Spared
<1>3. W.autod \notin X => Z.autod = W.autod /\ Z.did = W.did
  BY DEF Rest
<1>4. W.did /\ W.autod = NoDisplay => V.did /\ V.autod = NoDisplay
  BY <1>1 DEF Rest
<1>5. W.did /\ W.autod = NoDisplay =>
         \A d \in Displays \ X : LogsIn(Z.disp[d]) => LogsIn(W.disp[d])
  BY <1>4 DEF Rest
<1> QED BY <1>2, <1>3, <1>5 DEF Rest

LEMMA OthersRest ==
    ASSUME NEW W, NEW V, NEW d, Others(W, V, d), W.autod # d => V.autod = W.autod /\ V.did = W.did
    PROVE  Rest(W, V, {d})
BY DEF Others, Rest, Spared

LEMMA CreatedRest ==
    ASSUME NEW W, NEW V, NEW X, Created(W, V)
    PROVE  Rest(W, V, X)
<1>1. \A d \in Displays : Spared(W.disp[d], V.disp[d])
  <2> SUFFICES ASSUME NEW d \in Displays PROVE Spared(W.disp[d], V.disp[d])
    OBVIOUS
  <2>1. CASE Reused(W, V, d)
    BY <2>1, ReusedIsManaged DEF Spared
  <2>2. CASE W.disp[d] = Unused
    BY <2>2, UnusedIsNotStored DEF Spared
  <2> QED BY <2>1, <2>2 DEF Created, Spared
<1>2. V.autod = W.autod /\ V.did = W.did
  BY DEF Created
<1>3. ASSUME W.did, W.autod = NoDisplay, NEW d \in Displays, LogsIn(V.disp[d])
      PROVE  LogsIn(W.disp[d])
  <2>1. CASE Reused(W, V, d)
    BY <1>3, <2>1, ReusedIsManaged DEF LogsIn
  <2>2. CASE Newborn(W, V, d)
    BY <1>3, <2>2 DEF Newborn
  <2> QED BY <1>3, <2>1, <2>2 DEF Created
<1> QED BY <1>1, <1>2, <1>3 DEF Rest

(* A display that cannot be switched back to is not touched.               *)
LEMMA CreatedSpares ==
    ASSUME NEW W, NEW V, NEW d \in Displays, Created(W, V), W.disp[d].stored, ~Reusable(W, d)
    PROVE  V.disp[d] = W.disp[d]
BY UnusedIsNotStored DEF Created, Reused

LEMMA CreatedSources ==
    ASSUME NEW W, NEW V, NEW d \in Displays, Created(W, V)
    PROVE  SameSources(W, V, d)
<1>1. Range(W.idles) \subseteq Range(V.idles) /\ Range(V.idles) \subseteq Range(W.idles) \cup {Purge}
  BY DEF Created
<1> QED BY <1>1, EntriesOfDisplays DEF SameSources

(* The queue changes for d only, and may have a purge more.                *)
OwnSources(d) == {FinishOf(d), ReadyOf(d), StartOf(d)}

LEMMA OwnSourcesAreOwn ==
    ASSUME NEW d \in Displays, NEW e \in Displays, d # e
    PROVE  OwnSources(d) \cap (OwnSources(e) \cup {Purge}) = {}
<1>1. \A x \in OwnSources(d) : x.d = d
  BY DEF OwnSources, FinishOf, ReadyOf, StartOf
<1>2. \A x \in OwnSources(e) : x.d = e
  BY DEF OwnSources, FinishOf, ReadyOf, StartOf
<1>3. Purge.d = NoDisplay /\ NoDisplay # d
  BY DisplaysAssumption DEF Purge
<1> QED BY <1>1, <1>2, <1>3

LEMMA OthersSources ==
    ASSUME NEW W, NEW V, NEW d \in Displays, NEW e \in Displays, d # e,
           Range(W.idles) \ OwnSources(d) \subseteq Range(V.idles),
           Range(V.idles) \subseteq Range(W.idles) \cup OwnSources(d) \cup {Purge}
    PROVE  SameSources(W, V, e)
<1>1. OwnSources(d) \cap (OwnSources(e) \cup {Purge}) = {}
  BY OwnSourcesAreOwn
<1>2. Purge \notin OwnSources(e)
  BY EntriesOfDisplays DEF OwnSources
<1>3. \A x \in OwnSources(e) : x \in Range(W.idles) <=> x \in Range(V.idles)
  BY <1>1, <1>2
<1>4. Purge \in Range(W.idles) => Purge \in Range(V.idles)
  BY <1>1
<1> QED BY <1>3, <1>4 DEF SameSources, OwnSources

LEMMA OneChanges ==
    ASSUME NEW W, NEW V, NEW d \in Displays, FineBut(W, {d}), V \in Worlds, QueueOK(V.idles),
           Others(W, V, d), V.autod \in {W.autod, d, NoDisplay},
           Range(W.idles) \ OwnSources(d) \subseteq Range(V.idles),
           Range(V.idles) \subseteq Range(W.idles) \cup OwnSources(d) \cup {Purge}
    PROVE  FineBut(V, {d})
<1> SUFFICES ASSUME NEW e \in Displays \ {d} PROVE Fine(V, e)
  BY DEF FineBut, QueueOK
<1>1. Fine(W, e) /\ V.disp[e] = W.disp[e]
  BY DEF FineBut, Others
<1>2. SameSources(W, V, e)
  BY OthersSources
<1>3. NoDisplay # e
  BY DisplaysAssumption
<1> QED BY <1>1, <1>2, <1>3, Untouched

(***************************************************************************)
(* Ending displays.                                                        *)
(***************************************************************************)
LEMMA AutoEndedResult ==
    ASSUME NEW W \in Worlds, NEW d \in Displays, NEW status, NEW V, V = AutoEnded(W, d, status)
    PROVE  /\ V \in Worlds /\ V.disp = W.disp /\ V.idles = W.idles /\ V.used = W.used /\ V.fails = W.fails
           /\ W.autod # d => V.autod = W.autod /\ V.did = W.did
           /\ W.autod = d => V.autod = NoDisplay /\ (V.did <=> status # "FAILED")
<1>1. CASE W.autod # d
  BY <1>1 DEF AutoEnded
<1>2. CASE W.autod = d
  <2>1. V = [W EXCEPT !.autod = NoDisplay, !.did = (status # "FAILED")]
    BY <1>2 DEF AutoEnded
  <2>2. (status # "FAILED") \in BOOLEAN
    OBVIOUS
  <2> QED BY <1>2, <2>1, <2>2 DEF Worlds
<1> QED BY <1>1, <1>2

(* The display d is not managed any more; a display that never registered  *)
(* has failed, and a registered one has stopped its X server.              *)
Stops(r) == r.registered /\ r.status # "UNMANAGED"

UnmanagedRecord(r) ==
    [r EXCEPT !.status = IF r.registered THEN "UNMANAGED" ELSE "FAILED",
              !.server = IF Stops(r) THEN "none" ELSE @]

Unmanaged(W, V, d) ==
    LET r == W.disp[d]
    IN /\ QueueOK(V.idles) /\ FineBut(V, {d}) /\ Rest(W, V, {d})
       /\ V.disp[d] = UnmanagedRecord(r)
       /\ FinishOf(d) \in Range(V.idles) <=> FinishOf(d) \in Range(W.idles)
       /\ StartOf(d) \in Range(V.idles) <=> StartOf(d) \in Range(W.idles)
       /\ ReadyOf(d) \in Range(V.idles) <=> ReadyOf(d) \in Range(W.idles) /\ ~Stops(r)
       /\ Purge \in Range(W.idles) => Purge \in Range(V.idles)
       /\ ~r.registered /\ r.status # "FAILED" => Purge \in Range(V.idles)
       /\ W.autod = d => \/ V.autod = d /\ V.did = W.did /\ V.disp[d] = r
                         \/ V.autod = NoDisplay /\ (V.did <=> r.registered)

LEMMA ServerStoppedResult ==
    ASSUME NEW W \in Worlds, QueueOK(W.idles), NEW d \in Displays, NEW V, V = ServerStopped(W, d)
    PROVE  /\ V \in Worlds /\ QueueOK(V.idles)
           /\ Range(V.idles) = Range(W.idles) \ {ReadyOf(d)}
           /\ V.disp[d] = [W.disp[d] EXCEPT !.server = "none"] /\ V.disp[d] \in Display
           /\ Others(W, V, d)
           /\ V.used = W.used /\ V.fails = W.fails /\ V.autod = W.autod /\ V.did = W.did
<1> DEFINE r == [W.disp[d] EXCEPT !.server = "none"]
           q == Without(W.idles, {[op |-> "ready", d |-> d]})
<1>1. QueueOK(q) /\ Range(q) = Range(W.idles) \ {ReadyOf(d)}
  BY WithoutQueue DEF ReadyOf
<1>2. q \in Seq(Entries)
  BY <1>1 DEF QueueOK
<1> HIDE DEF q
<1>3. r \in Display /\ [W.disp EXCEPT ![d] = r] \in [Displays -> Display]
  BY DisplayUpdates DEF Worlds, Servers
<1>4. V = [W EXCEPT !.disp = [W.disp EXCEPT ![d] = r], !.idles = q]
  BY DEF ServerStopped, Worlds, q
<1> HIDE DEF r
<1>5. W.disp \in [Displays -> Display]
  BY DEF Worlds
<1>6. /\ V.disp = [W.disp EXCEPT ![d] = r] /\ V.idles = q
      /\ V.used = W.used /\ V.fails = W.fails /\ V.autod = W.autod /\ V.did = W.did
  BY <1>4 DEF Worlds
<1>7. V \in Worlds
  BY <1>2, <1>3, <1>4 DEF Worlds
<1>8. V.disp[d] = r /\ Others(W, V, d)
  BY <1>5, <1>6 DEF Others
<1> QED BY <1>1, <1>3, <1>6, <1>7, <1>8 DEF r

(* d gets another status.                                                  *)
WithStatus(W, d, x) == [W EXCEPT !.disp[d].status = x]

LEMMA StatusResult ==
    ASSUME NEW W \in Worlds, NEW d \in Displays, NEW x \in Statuses,
           NEW V, V = WithStatus(W, d, x)
    PROVE  /\ V \in Worlds /\ V.disp[d] = [W.disp[d] EXCEPT !.status = x] /\ V.disp[d] \in Display
           /\ Others(W, V, d)
           /\ V.idles = W.idles /\ V.used = W.used /\ V.fails = W.fails
           /\ V.autod = W.autod /\ V.did = W.did
<1> DEFINE r == [W.disp[d] EXCEPT !.status = x]
<1>1. r \in Display
  BY DisplayUpdates DEF Worlds
<1>2. V = Recorded(W, d, r)
  BY DEF Worlds, Recorded, WithStatus
<1> HIDE DEF r
<1>3. /\ V \in Worlds /\ V.disp[d] = r
      /\ Others(W, V, d)
      /\ V.idles = W.idles /\ V.used = W.used /\ V.fails = W.fails
      /\ V.autod = W.autod /\ V.did = W.did
  BY <1>1, <1>2, RecordedWorld
<1> QED BY <1>1, <1>3 DEF r

LEMMA UnmanageResult ==
    ASSUME NEW W, NEW d \in Displays, FineBut(W, {d}), W.disp[d].stored, NEW V \in Unmanage(W, d)
    PROVE  Unmanaged(W, V, d)
<1> DEFINE r == W.disp[d]
           n == IF W.fails > MaxDisplayFailures THEN W.fails ELSE W.fails + 1
           A == AutoEnded(W, d, "FAILED")
           B == [A EXCEPT !.disp[d].status = "FAILED", !.fails = n]
           F == QueueIdle(B, "purge", NoDisplay)
           C == AutoEnded(W, d, "UNMANAGED")
           D == [C EXCEPT !.disp[d].status = "UNMANAGED"]
<1>1. W \in Worlds /\ QueueOK(W.idles) /\ r \in Display
  BY DEF FineBut, Worlds, QueueOK
<1>2. \/ r.registered /\ r.status = "UNMANAGED" /\ V = W
      \/ r.registered /\ r.status # "UNMANAGED" /\ V = ServerStopped(D, d)
      \/ ~r.registered /\ r.status = "FAILED" /\ V = W
      \/ ~r.registered /\ r.status # "FAILED" /\ (V = F \/ V \in CreateDisplay(F, r.seat, r.initial))
  BY DEF Unmanage
<1> HIDE DEF A, B, C, D, F, n, r
<1>3. CASE V = W /\ r.status = (IF r.registered THEN "UNMANAGED" ELSE "FAILED")
  <2>1. UnmanagedRecord(r) = r /\ ~Stops(r)
    BY <1>1, <1>3 DEF UnmanagedRecord, Stops, Display
  <2>2. Rest(W, V, {d})
    BY <1>3, OthersRest DEF Others
  <2> QED BY <1>1, <1>3, <2>1, <2>2 DEF Unmanaged, r
<1>4. CASE r.registered /\ r.status # "UNMANAGED" /\ V = ServerStopped(D, d)
  <2>1. /\ C \in Worlds /\ C.disp = W.disp /\ C.idles = W.idles
        /\ W.autod # d => C.autod = W.autod /\ C.did = W.did
        /\ W.autod = d => C.autod = NoDisplay /\ C.did
    <3>1. C = AutoEnded(W, d, "UNMANAGED")
      BY DEF C
    <3>2. "UNMANAGED" # "FAILED"
      OBVIOUS
    <3> QED BY ONLY <1>1, <3>1, <3>2, d \in Displays, AutoEndedResult
  <2>2. /\ D \in Worlds /\ D.disp[d] = [C.disp[d] EXCEPT !.status = "UNMANAGED"] /\ Others(C, D, d)
        /\ D.idles = C.idles /\ D.autod = C.autod /\ D.did = C.did
    <3>1. D = WithStatus(C, d, "UNMANAGED") /\ "UNMANAGED" \in Statuses
      BY DEF D, Statuses, WithStatus
    <3> QED BY ONLY <2>1, <3>1, d \in Displays, StatusResult
  <2>3. /\ V \in Worlds /\ QueueOK(V.idles) /\ Range(V.idles) = Range(D.idles) \ {ReadyOf(d)}
        /\ V.disp[d] = [D.disp[d] EXCEPT !.server = "none"] /\ Others(D, V, d)
        /\ V.autod = D.autod /\ V.did = D.did
    <3>1. D \in Worlds /\ QueueOK(D.idles) /\ V = ServerStopped(D, d)
      BY <1>1, <1>4, <2>1, <2>2
    <3> QED BY ONLY <3>1, d \in Displays, ServerStoppedResult
  <2>4. V.disp[d] = UnmanagedRecord(r)
    <3>1. V.disp[d] = [[r EXCEPT !.status = "UNMANAGED"] EXCEPT !.server = "none"]
      BY <2>1, <2>2, <2>3 DEF r
    <3> QED BY <1>1, <1>4, <3>1 DEF UnmanagedRecord, Stops, Display
  <2>5. Others(W, V, d)
    BY <2>1, <2>2, <2>3 DEF Others
  <2>6. Range(V.idles) = Range(W.idles) \ {ReadyOf(d)}
    BY <2>1, <2>2, <2>3
  <2>7. V.autod \in {W.autod, d, NoDisplay}
    BY <2>1, <2>2, <2>3
  <2>8. FineBut(V, {d})
    <3>1. Range(W.idles) \ OwnSources(d) \subseteq Range(V.idles)
      BY <2>6 DEF OwnSources
    <3> QED BY <2>3, <2>5, <2>6, <2>7, <3>1, OneChanges
  <2>9. Rest(W, V, {d})
    BY <2>1, <2>2, <2>3, <2>5, OthersRest
  <2>10. FinishOf(d) # ReadyOf(d) /\ StartOf(d) # ReadyOf(d) /\ Purge # ReadyOf(d)
    BY EntriesOfDisplays DEF FinishOf, ReadyOf, StartOf
  <2>11. W.autod = d => V.autod = NoDisplay /\ V.did
    BY <2>1, <2>2, <2>3
  <2> QED BY <1>4, <2>3, <2>4, <2>6, <2>8, <2>9, <2>10, <2>11 DEF Unmanaged, Stops, r
<1>5. CASE ~r.registered /\ r.status # "FAILED" /\ (V = F \/ V \in CreateDisplay(F, r.seat, r.initial))
  <2>1. /\ A \in Worlds /\ A.disp = W.disp /\ A.idles = W.idles
        /\ W.autod # d => A.autod = W.autod /\ A.did = W.did
        /\ W.autod = d => A.autod = NoDisplay /\ ~A.did
    <3>1. A = AutoEnded(W, d, "FAILED")
      BY DEF A
    <3> QED BY ONLY <1>1, <3>1, d \in Displays, AutoEndedResult
  <2> DEFINE f == [r EXCEPT !.status = "FAILED"]
  <2>2. /\ B \in Worlds /\ B.disp[d] = f /\ Others(W, B, d)
        /\ B.idles = W.idles /\ B.autod = A.autod /\ B.did = A.did
    <3>1. n \in 0..(MaxDisplayFailures + 1)
      BY <1>1, DisplaysAssumption DEF Worlds, n
    <3> DEFINE G == [A EXCEPT !.disp[d].status = "FAILED"]
    <3>2. /\ G \in Worlds /\ G.disp[d] = [A.disp[d] EXCEPT !.status = "FAILED"] /\ Others(A, G, d)
          /\ G.idles = A.idles /\ G.autod = A.autod /\ G.did = A.did
      <4>1. G = WithStatus(A, d, "FAILED") /\ "FAILED" \in Statuses
        BY DEF Statuses, WithStatus
      <4> HIDE DEF G
      <4> QED BY ONLY <2>1, <4>1, d \in Displays, StatusResult
    <3>3. B = [G EXCEPT !.fails = n]
      BY <2>1 DEF B, Worlds
    <3> HIDE DEF G
    <3>4. B \in Worlds /\ B.disp = G.disp /\ B.idles = G.idles /\ B.autod = G.autod /\ B.did = G.did
      BY <3>1, <3>2, <3>3 DEF Worlds
    <3> QED BY <2>1, <3>2, <3>4 DEF Others, r
  <2> HIDE DEF f
  <2>3. /\ F \in Worlds /\ QueueOK(F.idles) /\ Range(F.idles) = Range(W.idles) \cup {Purge}
        /\ F.disp = B.disp /\ F.autod = B.autod /\ F.did = B.did
    BY <1>1, <2>2, PushPurge DEF F
  <2>4. f.stored /\ f.status = "FAILED" /\ f = UnmanagedRecord(r)
    <3>1. r.stored
      BY DEF r
    <3>2. f = UnmanagedRecord(r)
      BY <1>1, <1>5 DEF UnmanagedRecord, Stops, Display, f
    <3> QED BY <1>1, <3>1, <3>2 DEF f, Display
  <2>5. Others(W, F, d) /\ F.disp[d] = f
    BY <2>2, <2>3 DEF Others
  <2>6. FineBut(F, {d})
    <3>1. Range(W.idles) \ OwnSources(d) \subseteq Range(F.idles)
          /\ Range(F.idles) \subseteq Range(W.idles) \cup OwnSources(d) \cup {Purge}
      BY <2>3
    <3>2. F.autod \in {W.autod, d, NoDisplay}
      BY <2>1, <2>2, <2>3
    <3> QED BY <2>3, <2>5, <3>1, <3>2, OneChanges
  <2>7. Rest(W, F, {d})
    BY <2>1, <2>2, <2>3, <2>5, OthersRest
  <2>8. Created(F, V)
    <3>1. CASE V = F
      BY <2>3, <3>1, CreatedNothing
    <3>2. CASE V \in CreateDisplay(F, r.seat, r.initial)
      <4>1. NoStraySource(F)
        BY <2>4, <2>5, <2>6, FineLeavesNoStray
      <4>2. r.seat \in SeatNames /\ r.initial \in BOOLEAN
        BY <1>1 DEF Display, SeatNames
      <4> QED BY <2>3, <3>2, <4>1, <4>2, CreateDisplayResult
    <3> QED BY <1>5, <3>1, <3>2
  <2>9. V.disp[d] = f
    BY <2>4, <2>5, <2>8, CreatedSpares DEF Reusable
  <2>10. FineBut(V, {d})
    BY <2>4, <2>5, <2>6, <2>8, CreatedKeepsFine
  <2>11. Rest(W, V, {d})
    <3>1. Rest(F, V, {d})
      BY <2>8, CreatedRest
    <3> QED BY <2>7, <3>1, RestTwice
  <2>12. SameSources(F, V, d)
    BY <2>8, CreatedSources
  <2>13. /\ FinishOf(d) \in Range(V.idles) <=> FinishOf(d) \in Range(W.idles)
         /\ StartOf(d) \in Range(V.idles) <=> StartOf(d) \in Range(W.idles)
         /\ ReadyOf(d) \in Range(V.idles) <=> ReadyOf(d) \in Range(W.idles)
         /\ Purge \in Range(V.idles)
    BY <2>3, <2>12, EntriesOfDisplays DEF SameSources
  <2>14. W.autod = d => V.autod = NoDisplay /\ ~V.did
    BY <2>1, <2>2, <2>3, <2>8 DEF Created
  <2>15. QueueOK(V.idles) /\ ~Stops(r)
    BY <1>5, <2>8 DEF Created, Stops
  <2>16. V.disp[d] = UnmanagedRecord(r)
    BY <2>4, <2>9
  <2>17. ~Stops(W.disp[d]) /\ ~W.disp[d].registered /\ V.disp[d] = UnmanagedRecord(W.disp[d])
    BY <1>5, <2>15, <2>16 DEF r
  <2> QED BY <2>10, <2>11, <2>13, <2>14, <2>15, <2>17 DEF Unmanaged
<1> QED BY <1>2, <1>3, <1>4, <1>5

LEMMA FineGreets ==
    ASSUME NEW W, NEW X, FineBut(W, X), \A d \in X : W.disp[d].status # "PREPARED"
    PROVE  PreparedGreet(W)
<1> SUFFICES ASSUME NEW d \in Displays, W.disp[d].stored, W.disp[d].seat = Seat0,
                    W.disp[d].status = "PREPARED"
             PROVE  W.disp[d].class = "greeter"
  BY DEF PreparedGreet
<1>1. Fine(W, d)
  BY DEF FineBut
<1>2. SessionOK(W.disp[d])
  BY <1>1 DEF Fine, RecordOK
<1>3. W.disp[d] \in Display
  BY DEF FineBut, Worlds
<1>4. W.disp[d].class \in {"greeter", "user"}
  BY <1>3 DEF Display
<1> QED BY <1>2, <1>4 DEF SessionOK

(* The display d is finished; its sources are, but for a start.            *)
FinishedRecord(r) == [r EXCEPT !.status = "FINISHED"]

Finished(W, V, d) ==
    LET r == W.disp[d]
    IN /\ QueueOK(V.idles) /\ FineBut(V, {d}) /\ Rest(W, V, {d})
       /\ V.disp[d] = FinishedRecord(r)
       /\ FinishOf(d) \notin Range(V.idles)
       /\ StartOf(d) \in Range(V.idles) <=> StartOf(d) \in Range(W.idles)
       /\ ReadyOf(d) \in Range(V.idles) <=> ReadyOf(d) \in Range(W.idles)
       /\ Purge \in Range(W.idles) => Purge \in Range(V.idles)
       /\ r.status # "FINISHED" => Purge \in Range(V.idles)
       /\ r.status = "FINISHED" => V.autod = W.autod /\ V.did = W.did
       /\ r.status # "FINISHED" /\ W.autod = d => V.autod = NoDisplay /\ V.did
       /\ r.status # "FINISHED" /\ r.class = "user" /\ known => Screen(V)

LEMMA FinishResult ==
    ASSUME NEW W, NEW d \in Displays, FineBut(W, {d}), W.disp[d].stored, seats \subseteq OtherSeats,
           NEW V \in Finish(W, d)
    PROVE  Finished(W, V, d)
<1> DEFINE r == W.disp[d]
           A == AutoEnded(W, d, "FINISHED")
           F == GreeterFinished(A, d)
           G == [F EXCEPT !.fails = 0]
           U == [W EXCEPT !.idles = Unqueued(@, d)]
<1>1. W \in Worlds /\ QueueOK(W.idles) /\ r \in Display
  BY DEF FineBut, Worlds, QueueOK
<1>2. \/ r.status = "FINISHED" /\ V = U
      \/ r.status # "FINISHED" /\ r.class = "greeter" /\ V = F
      \/ r.status # "FINISHED" /\ r.class # "greeter" /\ V \in SyncSeats(G)
  BY DEF Finish
<1>3. FinishOf(d) # ReadyOf(d) /\ FinishOf(d) # StartOf(d) /\ Purge \notin OwnSources(d)
  BY EntriesOfDisplays DEF FinishOf, ReadyOf, StartOf, OwnSources
<1> HIDE DEF A, F, G, U, r
<1>4. CASE r.status = "FINISHED" /\ V = U
  <2>1. QueueOK(Unqueued(W.idles, d)) /\ Range(Unqueued(W.idles, d)) = Range(W.idles) \ {FinishOf(d)}
    BY <1>1, WithoutQueue DEF Unqueued, FinishOf
  <2>2. /\ V \in Worlds /\ V.idles = Unqueued(W.idles, d) /\ V.disp = W.disp
        /\ V.autod = W.autod /\ V.did = W.did
    BY <1>1, <1>4, <2>1 DEF U, Worlds, QueueOK
  <2>3. Others(W, V, d)
    BY <2>2 DEF Others
  <2>4. /\ Range(W.idles) \ OwnSources(d) \subseteq Range(V.idles)
        /\ Range(V.idles) \subseteq Range(W.idles) \cup OwnSources(d) \cup {Purge}
    BY <2>1, <2>2 DEF OwnSources
  <2>5. FineBut(V, {d})
    BY <2>1, <2>2, <2>3, <2>4, OneChanges
  <2>6. Rest(W, V, {d})
    BY <2>2, <2>3, OthersRest
  <2>7. V.disp[d] = FinishedRecord(W.disp[d])
    BY <1>1, <1>4, <2>2 DEF FinishedRecord, r, Display
  <2>8. W.disp[d].status = "FINISHED"
    BY <1>4 DEF r
  <2> QED BY <1>3, <2>1, <2>2, <2>5, <2>6, <2>7, <2>8 DEF Finished, OwnSources
<1>5. ASSUME r.status # "FINISHED"
      PROVE  /\ F \in Worlds /\ QueueOK(F.idles) /\ FineBut(F, {d}) /\ Rest(W, F, {d})
             /\ Range(F.idles) = (Range(W.idles) \ {FinishOf(d)}) \cup {Purge}
             /\ F.disp[d] = FinishedRecord(r)
             /\ W.autod = d => F.autod = NoDisplay /\ F.did
  <2>1. A = AutoEnded(W, d, "FINISHED")
    BY DEF A
  <2>2. /\ A \in Worlds /\ A.disp = W.disp /\ A.idles = W.idles
        /\ W.autod # d => A.autod = W.autod /\ A.did = W.did
        /\ W.autod = d => A.autod = NoDisplay /\ A.did
    <3>1. "FINISHED" # "FAILED"
      OBVIOUS
    <3> QED BY ONLY <1>1, <2>1, <3>1, d \in Displays, AutoEndedResult
  <2>3. F = GreeterFinished(A, d) /\ A \in Worlds /\ QueueOK(A.idles)
    BY <1>1, <2>2 DEF F
  <2>4. /\ F \in Worlds /\ QueueOK(F.idles)
        /\ Range(F.idles) = (Range(A.idles) \ {FinishOf(d)}) \cup {Purge}
        /\ F.disp[d] = [A.disp[d] EXCEPT !.status = "FINISHED"]
        /\ Others(A, F, d)
        /\ F.used = A.used \ {A.disp[d].num} /\ F.fails = A.fails
        /\ F.autod = A.autod /\ F.did = A.did
        /\ KeepsOrder(A.idles, F.idles) /\ FinishOf(d) \notin Early(F.idles)
    <3> HIDE DEF A, F
    <3>1. GreeterFinishes(A, F, d)
      BY ONLY <2>3, d \in Displays, GreeterFinishedResult
    <3> QED BY ONLY <3>1 DEF GreeterFinishes
  <2>5. F.disp[d] = FinishedRecord(r) /\ Others(W, F, d)
    BY <2>2, <2>4 DEF FinishedRecord, r, Others
  <2>6. Range(F.idles) = (Range(W.idles) \ {FinishOf(d)}) \cup {Purge}
    BY <2>2, <2>4
  <2>7. /\ W.autod # d => F.autod = W.autod /\ F.did = W.did
        /\ W.autod = d => F.autod = NoDisplay /\ F.did
    BY <2>2, <2>4
  <2>8. /\ Range(W.idles) \ OwnSources(d) \subseteq Range(F.idles)
        /\ Range(F.idles) \subseteq Range(W.idles) \cup OwnSources(d) \cup {Purge}
    BY <2>6 DEF OwnSources
  <2>9. FineBut(F, {d})
    BY <2>4, <2>5, <2>7, <2>8, OneChanges
  <2>10. Rest(W, F, {d})
    BY <2>5, <2>7, OthersRest
  <2> QED BY <2>4, <2>5, <2>6, <2>7, <2>9, <2>10
<1>6. CASE r.status # "FINISHED" /\ r.class = "greeter" /\ V = F
  <2>1. V.disp[d] = FinishedRecord(W.disp[d]) /\ W.disp[d].status # "FINISHED" /\ W.disp[d].class = "greeter"
    BY <1>5, <1>6 DEF r
  <2> QED BY <1>3, <1>5, <1>6, <2>1 DEF Finished, OwnSources
<1>7. CASE r.status # "FINISHED" /\ r.class # "greeter" /\ V \in SyncSeats(G)
  <2>1. G \in Worlds /\ G.disp = F.disp /\ G.idles = F.idles /\ G.autod = F.autod /\ G.did = F.did
    <3>1. F \in Worlds
      BY <1>5, <1>7
    <3>2. 0 \in 0..(MaxDisplayFailures + 1)
      BY DisplaysAssumption
    <3> QED BY <3>1, <3>2 DEF G, Worlds
  <2>2. FineBut(G, {d})
    <3>1. FineBut(F, {d}) /\ QueueOK(G.idles)
      BY <1>5, <1>7, <2>1
    <3>2. Others(F, G, d)
      BY <2>1 DEF Others
    <3> QED BY <2>1, <3>1, <3>2, OneChanges
  <2>3. G.disp[d] = FinishedRecord(r) /\ G.disp[d].stored /\ G.disp[d].status = "FINISHED"
        /\ G.disp[d] # Unused
    <3>1. G.disp[d] = FinishedRecord(r) /\ r.stored
      BY <1>5, <1>7, <2>1 DEF r
    <3> QED BY <1>1, <3>1, UnusedIsNotStored DEF FinishedRecord, Display
  <2>4. NoStraySource(G) /\ PreparedGreet(G)
    BY <2>2, <2>3, FineLeavesNoStray, FineGreets
  <2>5. Created(G, V) /\ (known => Screen(V))
    <3>1. QueueOK(G.idles) /\ V \in SyncSeats(G)
      BY <1>5, <1>7, <2>1
    <3> QED BY <2>1, <2>4, <3>1, SyncSeatsResult
  <2>6. FineBut(V, {d})
    BY <2>2, <2>3, <2>5, CreatedKeepsFine
  <2>7. Rest(W, V, {d})
    <3>1. Rest(F, G, {d})
      BY <2>1, OthersRest DEF Others
    <3>2. Rest(G, V, {d})
      BY <2>5, CreatedRest
    <3>3. Rest(W, F, {d})
      BY <1>5, <1>7
    <3> QED BY <3>1, <3>2, <3>3, RestTwice
  <2>8. V.disp[d] = FinishedRecord(r)
    BY <2>3, <2>5, CreatedSpares DEF Reusable
  <2>9. SameSources(G, V, d)
    BY <2>5, CreatedSources
  <2>10. Range(G.idles) = (Range(W.idles) \ {FinishOf(d)}) \cup {Purge}
    BY <1>5, <1>7, <2>1
  <2>11. /\ FinishOf(d) \notin Range(V.idles)
         /\ StartOf(d) \in Range(V.idles) <=> StartOf(d) \in Range(W.idles)
         /\ ReadyOf(d) \in Range(V.idles) <=> ReadyOf(d) \in Range(W.idles)
         /\ Purge \in Range(V.idles)
    BY <1>3, <2>9, <2>10 DEF SameSources, OwnSources
  <2>12. W.autod = d => V.autod = NoDisplay /\ V.did
    <3>1. V.autod = G.autod /\ V.did = G.did
      BY <2>5 DEF Created
    <3> QED BY <1>5, <1>7, <2>1, <3>1
  <2>13. W.disp[d].status # "FINISHED" /\ QueueOK(V.idles) /\ V.disp[d] = FinishedRecord(W.disp[d])
    BY <1>7, <2>5, <2>8 DEF Created, r
  <2> QED BY <2>5, <2>6, <2>7, <2>11, <2>12, <2>13 DEF Finished
<1> QED BY <1>2, <1>4, <1>6, <1>7

(* r and s differ in the status and the X server only.                     *)
SameButStatus(r, s) ==
    /\ s.seat = r.seat /\ s.class = r.class /\ s.initial = r.initial /\ s.setup = r.setup
    /\ s.stored = r.stored /\ s.registered = r.registered /\ s.env = r.env /\ s.window = r.window
    /\ s.sess = r.sess /\ s.num = r.num /\ s.leaked = r.leaked

LEMMA EndedRecords ==
    ASSUME NEW r \in Display
    PROVE  /\ UnmanagedRecord(r) \in Display /\ SameButStatus(r, UnmanagedRecord(r))
           /\ UnmanagedRecord(r).status = (IF r.registered THEN "UNMANAGED" ELSE "FAILED")
           /\ UnmanagedRecord(r).server = (IF Stops(r) THEN "none" ELSE r.server)
           /\ FinishedRecord(r) \in Display /\ SameButStatus(r, FinishedRecord(r))
           /\ FinishedRecord(r).status = "FINISHED" /\ FinishedRecord(r).server = r.server
<1> DEFINE x == IF r.registered THEN "UNMANAGED" ELSE "FAILED"
           y == IF Stops(r) THEN "none" ELSE r.server
<1>1. x \in Statuses /\ y \in Servers
  BY DEF Statuses, Servers, Display
<1>2. UnmanagedRecord(r) = [[r EXCEPT !.status = x] EXCEPT !.server = y]
  BY DEF UnmanagedRecord, Display
<1> HIDE DEF x, y
<1>3. [r EXCEPT !.status = x] \in Display
  BY <1>1, DisplayUpdates
<1>4. UnmanagedRecord(r) \in Display
  BY <1>1, <1>2, <1>3, DisplayUpdates
<1>5. SameButStatus(r, UnmanagedRecord(r)) /\ UnmanagedRecord(r).status = x /\ UnmanagedRecord(r).server = y
  BY <1>2 DEF SameButStatus, Display
<1>6. FinishedRecord(r) \in Display
  BY DisplayUpdates DEF FinishedRecord, Statuses
<1>7. /\ SameButStatus(r, FinishedRecord(r))
      /\ FinishedRecord(r).status = "FINISHED" /\ FinishedRecord(r).server = r.server
  BY DEF SameButStatus, FinishedRecord, Display
<1> QED BY <1>4, <1>5, <1>6, <1>7 DEF x, y

(* The display d is unmanaged and finished.                                *)
Ousted(W, V, d) ==
    LET r == W.disp[d]
    IN /\ QueueOK(V.idles) /\ FineBut(V, {d}) /\ Rest(W, V, {d})
       /\ SameButStatus(r, V.disp[d]) /\ V.disp[d] \in Display
       /\ V.disp[d].status = "FINISHED"
       /\ V.disp[d].server = (IF Stops(r) THEN "none" ELSE r.server)
       /\ FinishOf(d) \notin Range(V.idles)
       /\ StartOf(d) \in Range(V.idles) <=> StartOf(d) \in Range(W.idles)
       /\ ReadyOf(d) \in Range(V.idles) <=> ReadyOf(d) \in Range(W.idles) /\ ~Stops(r)
       /\ Purge \in Range(V.idles)
       /\ W.autod = d => V.autod = NoDisplay /\ (r.registered => V.did)
       /\ r.class = "user" /\ known => Screen(V)

LEMMA UnmanageAndFinishResult ==
    ASSUME NEW W, NEW d \in Displays, FineBut(W, {d}), W.disp[d].stored, seats \subseteq OtherSeats,
           NEW V \in UnmanageAndFinish(W, d)
    PROVE  Ousted(W, V, d)
<1>1. PICK U \in Unmanage(W, d) : V \in Finish(U, d)
  BY DEF UnmanageAndFinish, Then
<1>2. Unmanaged(W, U, d)
  BY UnmanageResult
<1> DEFINE r == W.disp[d]
           u == U.disp[d]
<1>3. r \in Display /\ u = UnmanagedRecord(r) /\ FineBut(U, {d}) /\ Rest(W, U, {d})
  BY <1>2 DEF Unmanaged, FineBut, Worlds
<1> HIDE DEF r, u
<1>4. /\ u \in Display /\ SameButStatus(r, u)
      /\ u.status = (IF r.registered THEN "UNMANAGED" ELSE "FAILED")
      /\ u.server = (IF Stops(r) THEN "none" ELSE r.server)
  BY <1>3, EndedRecords
<1>5. r.stored /\ u.stored /\ u.status # "FINISHED" /\ u.class = r.class /\ u.registered = r.registered
  BY <1>4 DEF SameButStatus, r
<1>6. Finished(U, V, d)
  BY <1>1, <1>3, <1>5, FinishResult DEF u
<1>7. V.disp[d] = FinishedRecord(u)
  BY <1>6 DEF Finished, u
<1>8. SameButStatus(u, V.disp[d]) /\ V.disp[d] \in Display /\ V.disp[d].status = "FINISHED"
      /\ V.disp[d].server = u.server
  BY <1>4, <1>7, EndedRecords
<1>9. SameButStatus(r, V.disp[d])
  BY <1>4, <1>8 DEF SameButStatus
<1>10. Rest(W, V, {d})
  BY <1>3, <1>6, RestTwice DEF Finished
<1>11. U.disp[d].status # "FINISHED" /\ U.disp[d].class = W.disp[d].class
  BY <1>5 DEF u, r
<1>12. QueueOK(V.idles) /\ FineBut(V, {d}) /\ Purge \in Range(V.idles) /\ FinishOf(d) \notin Range(V.idles)
       /\ (W.disp[d].class = "user" /\ known => Screen(V))
  BY <1>6, <1>11 DEF Finished
<1>13. /\ StartOf(d) \in Range(V.idles) <=> StartOf(d) \in Range(W.idles)
       /\ ReadyOf(d) \in Range(V.idles) <=> ReadyOf(d) \in Range(W.idles) /\ ~Stops(W.disp[d])
  BY <1>2, <1>6 DEF Finished, Unmanaged
<1>14. W.autod = d => V.autod = NoDisplay /\ (W.disp[d].registered => V.did)
  <2> SUFFICES ASSUME W.autod = d PROVE V.autod = NoDisplay /\ (W.disp[d].registered => V.did)
    OBVIOUS
  <2>1. \/ U.autod = d
        \/ U.autod = NoDisplay /\ (U.did <=> W.disp[d].registered)
    BY <1>2 DEF Unmanaged
  <2>2. CASE U.autod = d
    BY <1>6, <1>11, <2>2 DEF Finished
  <2>3. CASE U.autod = NoDisplay /\ (U.did <=> W.disp[d].registered)
    <3>1. U.autod \notin {d}
      BY <2>3, DisplaysAssumption
    <3>2. V.autod = U.autod /\ V.did = U.did
      BY <1>6, <3>1 DEF Finished, Rest
    <3> QED BY <2>3, <3>2
  <2> QED BY <2>1, <2>2, <2>3
<1>15. V.disp[d].server = (IF Stops(W.disp[d]) THEN "none" ELSE W.disp[d].server)
  BY <1>4, <1>8 DEF r
<1> QED BY <1>8, <1>9, <1>10, <1>12, <1>13, <1>14, <1>15 DEF Ousted, r

(* The greeter of d has ended: d is on its way out.                        *)
LEMMA QueueFinish ==
    ASSUME NEW W, NEW d \in Displays, FineBut(W, {d}), NEW V, V = QueueIdle(W, "finish", d)
    PROVE  /\ FineBut(V, {d}) /\ Rest(W, V, {d}) /\ V.disp = W.disp
           /\ Range(V.idles) = Range(W.idles) \cup {FinishOf(d)}
           /\ V.autod = W.autod /\ V.did = W.did
<1>1. W \in Worlds /\ QueueOK(W.idles)
  BY DEF FineBut, QueueOK, Worlds
<1>2. [op |-> "finish", d |-> d] \in Entries
  BY EntriesOfDisplays DEF FinishOf
<1>3. /\ V \in Worlds /\ QueueOK(V.idles)
      /\ Range(V.idles) = Range(W.idles) \cup {FinishOf(d)}
      /\ V.disp = W.disp /\ V.autod = W.autod /\ V.did = W.did
  BY <1>1, <1>2, QueueIdlePushes DEF FinishOf
<1>4. Others(W, V, d)
  BY <1>3 DEF Others
<1>5. FineBut(V, {d})
  BY <1>3, <1>4, OneChanges DEF OwnSources
<1> QED BY <1>3, <1>4, <1>5, OthersRest

Destroyed(W, V, d) ==
    LET r == W.disp[d]
        s == V.disp[d]
    IN /\ FineBut(V, {d}) /\ Rest(W, V, {d})
       /\ s \in Display /\ SameButStatus(r, s)
       /\ r.status = "MANAGED" => /\ s.status \in {"UNMANAGED", "FAILED"}
                                 /\ s.server = (IF r.registered THEN "none" ELSE r.server)
       /\ r.status # "MANAGED" => s = r
       /\ r.status # "FINISHED" => FinishOf(d) \in Range(V.idles)
       /\ r.status = "FINISHED" /\ FinishOf(d) \in Range(V.idles) => FinishOf(d) \in Range(W.idles)
       /\ StartOf(d) \in Range(V.idles) <=> StartOf(d) \in Range(W.idles)
       /\ ReadyOf(d) \in Range(V.idles) => ReadyOf(d) \in Range(W.idles) /\ s.server = r.server
       /\ Purge \in Range(W.idles) => Purge \in Range(V.idles)
       /\ r.status = "MANAGED" /\ s.status \in Ended => Purge \in Range(V.idles)

LEMMA SelfDestructResult ==
    ASSUME NEW W, NEW d \in Displays, FineBut(W, {d}), W.disp[d].stored, NEW V \in SelfDestruct(W, d)
    PROVE  Destroyed(W, V, d)
<1> DEFINE r == W.disp[d]
<1>0. r \in Display /\ r.stored /\ W \in Worlds
  BY DEF FineBut, Worlds
<1>1. FinishOf(d) # ReadyOf(d) /\ FinishOf(d) # StartOf(d) /\ Purge # FinishOf(d)
  BY EntriesOfDisplays DEF FinishOf, ReadyOf, StartOf
<1>2. CASE r.status = "MANAGED"
  <2>1. PICK U \in Unmanage(W, d) : \/ U.disp[d].status = "FINISHED" /\ V = U
                                    \/ V = QueueIdle(U, "finish", d)
    BY <1>2 DEF SelfDestruct, Then
  <2>2. Unmanaged(W, U, d)
    BY UnmanageResult
  <2>3. U.disp[d] = UnmanagedRecord(r) /\ FineBut(U, {d}) /\ Rest(W, U, {d})
    BY <2>2 DEF Unmanaged
  <2>4. /\ U.disp[d] \in Display /\ SameButStatus(r, U.disp[d])
        /\ U.disp[d].status = (IF r.registered THEN "UNMANAGED" ELSE "FAILED")
        /\ U.disp[d].server = (IF r.registered THEN "none" ELSE r.server)
    BY ZenonT(40), <1>0, <1>2, <2>3, EndedRecords DEF Stops
  <2>5. V = QueueIdle(U, "finish", d)
    BY <2>1, <2>4
  <2>6. /\ FineBut(V, {d}) /\ Rest(U, V, {d}) /\ V.disp = U.disp
        /\ Range(V.idles) = Range(U.idles) \cup {FinishOf(d)}
        /\ V.autod = U.autod /\ V.did = U.did
    BY ONLY <2>3, <2>5, d \in Displays, QueueFinish
  <2>7. Rest(W, V, {d})
    BY <2>3, <2>6, RestTwice
  <2>8. /\ StartOf(d) \in Range(V.idles) <=> StartOf(d) \in Range(W.idles)
        /\ ReadyOf(d) \in Range(V.idles) => ReadyOf(d) \in Range(W.idles) /\ ~Stops(r)
    BY <1>1, <2>2, <2>6 DEF Unmanaged
  <2>9. V.disp[d].status \in Ended => Purge \in Range(V.idles)
    <3> SUFFICES ASSUME V.disp[d].status \in Ended PROVE Purge \in Range(U.idles)
      BY <2>6
    <3>1. ~r.registered /\ r.status # "FAILED"
      BY <1>2, <2>4, <2>6 DEF Ended
    <3> QED BY <2>2, <3>1 DEF Unmanaged
  <2>10. V.disp[d].status \in {"UNMANAGED", "FAILED"} /\ FinishOf(d) \in Range(V.idles)
    BY <2>4, <2>6
  <2>11. ~Stops(r) => V.disp[d].server = r.server
    BY <1>2, <2>4, <2>6 DEF Stops
  <2>12. V.disp[d] \in Display /\ SameButStatus(r, V.disp[d])
         /\ V.disp[d].server = (IF r.registered THEN "none" ELSE r.server)
    BY <2>4, <2>6
  <2>13. ReadyOf(d) \in Range(V.idles) => ReadyOf(d) \in Range(W.idles) /\ V.disp[d].server = r.server
    BY <2>8, <2>11
  <2>14. Purge \in Range(W.idles) => Purge \in Range(V.idles)
    BY <2>2, <2>6 DEF Unmanaged
  <2> QED BY <1>2, <2>6, <2>7, <2>8, <2>9, <2>10, <2>12, <2>13, <2>14 DEF Destroyed
<1>3. CASE r.status # "MANAGED"
  <2>1. \/ r.status = "FINISHED" /\ V = W
        \/ r.status # "FINISHED" /\ V = QueueIdle(W, "finish", d)
    BY <1>3 DEF SelfDestruct, Then
  <2>2. CASE r.status = "FINISHED" /\ V = W
    <3>1. Rest(W, V, {d}) /\ SameButStatus(r, r)
      BY <2>2, OthersRest DEF Others, SameButStatus
    <3>2. FineBut(V, {d})
      BY <2>2
    <3> QED BY <1>0, <1>3, <2>2, <3>1, <3>2 DEF Destroyed
  <2>3. CASE r.status # "FINISHED" /\ V = QueueIdle(W, "finish", d)
    <3>1. /\ FineBut(V, {d}) /\ Rest(W, V, {d}) /\ V.disp = W.disp
          /\ Range(V.idles) = Range(W.idles) \cup {FinishOf(d)}
          /\ V.autod = W.autod /\ V.did = W.did
      BY ONLY <2>3, d \in Displays, FineBut(W, {d}), QueueFinish
    <3>2. SameButStatus(r, r)
      BY DEF SameButStatus
    <3> QED BY <1>0, <1>1, <1>3, <2>3, <3>1, <3>2 DEF Destroyed
  <2> QED BY <2>1, <2>2, <2>3
<1> QED BY <1>2, <1>3

LEMMA FineSplits ==
    ASSUME NEW W, NEW d \in Displays
    PROVE  FineBut(W, {}) <=> FineBut(W, {d}) /\ Fine(W, d)
BY DEF FineBut

(* Only the record of d changes.                                           *)
Rewritten(W, V, d, r) ==
    /\ FineBut(V, {d}) /\ Rest(W, V, {d}) /\ V.disp[d] = r /\ V.idles = W.idles
    /\ V.autod = W.autod /\ V.did = W.did

LEMMA RecordedKeepsFine ==
    ASSUME NEW W, NEW d \in Displays, FineBut(W, {d}), NEW r \in Display, NEW V, V = Recorded(W, d, r)
    PROVE  Rewritten(W, V, d, r)
<1>1. W \in Worlds /\ QueueOK(W.idles)
  BY DEF FineBut, QueueOK, Worlds
<1>2. /\ V \in Worlds /\ V.disp[d] = r /\ Others(W, V, d)
      /\ V.idles = W.idles /\ V.autod = W.autod /\ V.did = W.did
  BY <1>1, RecordedWorld
<1>3. FineBut(V, {d})
  BY <1>1, <1>2, OneChanges
<1> QED BY <1>2, <1>3, OthersRest DEF Rewritten

(***************************************************************************)
(* The login screens that wait.                                            *)
(***************************************************************************)
WaitOne(W, w, d) ==
    IF InStore(w) # InStore(W) \/ w.disp[d].status # "WAITING_TO_FINISH" THEN {w}
    ELSE UnmanageAndFinish(StopGreeter(w, d), d)

LEMMA WaitOneResult ==
    ASSUME NEW W, NEW w, FineBut(w, {}), seats \subseteq OtherSeats,
           NEW d \in InStore(W), NEW V \in WaitOne(W, w, d)
    PROVE  FineBut(V, {}) /\ Rest(w, V, {})
<1>0. d \in Displays
  BY DEF InStore
<1>1. CASE V = w
  BY <1>1 DEF Rest, Spared
<1>2. CASE InStore(w) = InStore(W) /\ w.disp[d].status = "WAITING_TO_FINISH"
           /\ V \in UnmanageAndFinish(StopGreeter(w, d), d)
  <2> DEFINE r == w.disp[d]
             p == [r EXCEPT !.env = "none"]
             X == StopGreeter(w, d)
             s == V.disp[d]
  <2>1. FineBut(w, {d}) /\ Fine(w, d) /\ r \in Display /\ r.stored /\ w \in Worlds
    BY <1>0, <1>2, FineSplits DEF FineBut, Worlds, InStore
  <2>2. p \in Display
    BY <2>1, DisplayUpdates DEF Envs
  <2>3. X = Recorded(w, d, p)
    BY <1>0, <2>1 DEF StopGreeter, Recorded, Worlds
  <2>4. /\ p.seat = r.seat /\ p.class = r.class /\ p.initial = r.initial /\ p.setup = r.setup
        /\ p.stored = r.stored /\ p.registered = r.registered /\ p.env = "none" /\ p.window = r.window
        /\ p.sess = r.sess /\ p.num = r.num /\ p.leaked = r.leaked /\ p.status = r.status
        /\ p.server = r.server
    BY <2>1 DEF Display
  <2> HIDE DEF p, X, s
  <2>5. /\ FineBut(X, {d}) /\ Rest(w, X, {d}) /\ X.disp[d] = p /\ X.idles = w.idles
        /\ X.autod = w.autod /\ X.did = w.did
    <3>1. Rewritten(w, X, d, p)
      BY <1>0, <2>1, <2>2, <2>3, RecordedKeepsFine
    <3> QED BY <3>1 DEF Rewritten
  <2>6. Ousted(X, V, d)
    <3>1. X.disp[d].stored /\ V \in UnmanageAndFinish(X, d)
      BY <1>2, <2>1, <2>4, <2>5 DEF X
    <3> QED BY <1>0, <2>5, <3>1, UnmanageAndFinishResult
  <2>7. r.status = "WAITING_TO_FINISH" /\ RecordOK(r)
    BY <1>2, <2>1 DEF Fine
  <2> HIDE DEF r
  <2>8. r.seat = Seat0 /\ r.class = "greeter" /\ r.server = "none" /\ r.num = -1 /\ ~LogsIn(r)
        /\ r.sess \notin {"launched", "running"}
    BY <2>7 DEF RecordOK, SeatZeroOK, SessionOK
  <2>9. SameButStatus(p, s) /\ s \in Display /\ s.status = "FINISHED" /\ s.server = "none"
    <3>1. s.server = (IF Stops(p) THEN "none" ELSE p.server) /\ SameButStatus(p, s) /\ s \in Display
          /\ s.status = "FINISHED"
      BY <2>5, <2>6 DEF Ousted, s
    <3> QED BY <2>4, <2>8, <3>1
  <2>10. /\ s.seat = Seat0 /\ s.class = "greeter" /\ s.stored /\ s.env = "none" /\ s.sess = r.sess
         /\ s.num = -1
    BY <2>1, <2>4, <2>8, <2>9 DEF SameButStatus
  <2>11. RecordOK(s)
    BY <2>8, <2>9, <2>10 DEF RecordOK, GoneIsEmpty, SeatZeroOK, SessionOK, ServerOK, LogsIn, Ended, Alive
  <2>12. w.autod # d
    <3>1. AutoOK(w, d) /\ w.disp[d].class = "greeter"
      BY <2>1, <2>8 DEF Fine, r
    <3> QED BY <3>1 DEF AutoOK
  <2>13. V.autod = w.autod /\ V.did = w.did
    BY <2>5, <2>6, <2>12 DEF Ousted, Rest
  <2>14. SourcesOK(V, d)
    <3>1. SourcesOK(w, d)
      BY <2>1 DEF Fine
    <3>2. StartOf(d) \notin Range(w.idles) \/ r.sess \in {"starting", "autostart"}
      BY <3>1 DEF SourcesOK, Queued, StartOf, r
    <3>3. ReadyOf(d) \notin Range(w.idles)
      BY <2>8, <3>1 DEF SourcesOK, Queued, ReadyOf, r
    <3>4. FinishOf(d) \notin Range(V.idles) /\ Purge \in Range(V.idles)
          /\ (StartOf(d) \in Range(V.idles) <=> StartOf(d) \in Range(w.idles))
          /\ ReadyOf(d) \notin Range(V.idles)
      BY <2>5, <2>6, <3>3 DEF Ousted
    <3> QED BY <2>9, <2>10, <3>2, <3>4 DEF SourcesOK, Queued, StartOf, ReadyOf, FinishOf, s
  <2>15. Fine(V, d)
    BY <2>11, <2>12, <2>13, <2>14 DEF Fine, AutoOK, s
  <2>16. FineBut(V, {})
    BY <1>0, <2>6, <2>15, FineSplits DEF Ousted
  <2>17. Rest(w, V, {d})
    BY <1>0, <2>5, <2>6, RestTwice DEF Ousted
  <2>18. Rest(w, V, {})
    <3>1. Spared(w.disp[d], V.disp[d])
      BY <2>7, <2>8, <2>10 DEF Spared, r, s, Ended
    <3>2. ~LogsIn(V.disp[d])
      BY <2>8, <2>10 DEF LogsIn, r, s
    <3> QED BY <2>13, <2>17, <3>1, <3>2 DEF Rest
  <2> QED BY <2>16, <2>18
<1> QED BY <1>1, <1>2 DEF WaitOne

WaitFrom(W, A, d) == UNION {WaitOne(W, w, d) : w \in A}

WaitStep(W, f, S) == IF S = {} THEN {W} ELSE UNION {WaitFrom(W, f[S \ {d}], d) : d \in S}

Waiting(W) == {d \in InStore(W) : W.disp[d].status = "WAITING_TO_FINISH"}

LEMMA WaitStepIsLocal ==
    ASSUME NEW W, NEW f, NEW g, NEW S, \A s \in S : f[S \ {s}] = g[S \ {s}]
    PROVE  WaitStep(W, f, S) = WaitStep(W, g, S)
<1>1. {WaitFrom(W, f[S \ {s}], s) : s \in S} = {WaitFrom(W, g[S \ {s}], s) : s \in S}
  OBVIOUS
<1> QED BY <1>1 DEF WaitStep

(* The recursion of FinishWaiting has a solution.                          *)
LEMMA FinishWaitingIsDefined ==
    ASSUME NEW W
    PROVE  \E f : /\ f = [S \in SUBSET Waiting(W) |-> WaitStep(W, f, S)]
                  /\ FinishWaiting(W) = f[Waiting(W)]
<1> DEFINE all == Waiting(W)
           P == {n \in Nat : \E f : f = [S \in UpTo(all, n) |-> WaitStep(W, f, S)]}
<1>0. IsFiniteSet(all)
  <2>1. all \subseteq Displays
    BY DEF Waiting, InStore
  <2> QED BY <2>1, DisplaysAssumption, FS_Subset
<1>1. 0 \in P
  <2> DEFINE f == [S \in {{}} |-> {W}]
  <2>1. UpTo(all, 0) = {{}}
    BY <1>0, UpToGrows
  <2>2. \A S \in {{}} : WaitStep(W, f, S) = {W}
    BY DEF WaitStep
  <2>3. f = [S \in {{}} |-> WaitStep(W, f, S)]
    BY <2>2
  <2> QED BY <2>1, <2>3
<1>2. \A n \in Nat : n \in P => n + 1 \in P
  <2> SUFFICES ASSUME NEW n \in Nat, n \in P PROVE n + 1 \in P
    OBVIOUS
  <2>1. PICK f : f = [S \in UpTo(all, n) |-> WaitStep(W, f, S)]
    OBVIOUS
  <2> DEFINE g == [S \in UpTo(all, n + 1) |-> WaitStep(W, f, S)]
  <2>0. /\ \A S \in UpTo(all, n + 1) : \A s \in S : S \ {s} \in UpTo(all, n)
        /\ UpTo(all, n) \subseteq UpTo(all, n + 1)
    BY <1>0, UpToGrows
  <2> HIDE DEF all
  <2>2. \A S \in UpTo(all, n) : g[S] = f[S]
    <3> SUFFICES ASSUME NEW S \in UpTo(all, n) PROVE g[S] = f[S]
      OBVIOUS
    <3>0. S \in UpTo(all, n + 1)
      BY <2>0
    <3>1. g[S] = WaitStep(W, f, S)
      BY <3>0
    <3>2. f[S] = WaitStep(W, f, S)
      BY <2>1
    <3> QED BY <3>1, <3>2
  <2> HIDE DEF g
  <2>3. \A S \in UpTo(all, n + 1) : WaitStep(W, f, S) = WaitStep(W, g, S)
    <3> SUFFICES ASSUME NEW S \in UpTo(all, n + 1) PROVE WaitStep(W, f, S) = WaitStep(W, g, S)
      OBVIOUS
    <3>1. \A s \in S : f[S \ {s}] = g[S \ {s}]
      BY <2>0, <2>2
    <3> QED BY <3>1, WaitStepIsLocal
  <2>4. g = [S \in UpTo(all, n + 1) |-> WaitStep(W, g, S)]
    BY <2>3 DEF g
  <2> QED BY <2>4
<1>3. Cardinality(all) \in P
  <2>1. Cardinality(all) \in Nat
    BY <1>0, FS_CardinalityType
  <2> HIDE DEF P, all
  <2> QED BY <1>1, <1>2, <2>1, NatSetInduction
<1>4. UpTo(all, Cardinality(all)) = SUBSET all
  <2> HIDE DEF all
  <2> QED BY <1>0, UpToGrows
<1>5. PICK f : f = [S \in SUBSET all |-> WaitStep(W, f, S)]
  BY <1>3, <1>4
<1> DEFINE F == CHOOSE g : g = [S \in SUBSET all |-> WaitStep(W, g, S)]
<1>6. F = [S \in SUBSET all |-> WaitStep(W, F, S)]
  BY <1>5
<1>7. FinishWaiting(W) = F[all]
  BY DEF FinishWaiting, WaitStep, WaitFrom, WaitOne, Then, Waiting
<1> HIDE DEF F
<1> QED BY <1>6, <1>7

LEMMA FinishWaitingResult ==
    ASSUME NEW W, FineBut(W, {}), seats \subseteq OtherSeats, NEW V \in FinishWaiting(W)
    PROVE  FineBut(V, {}) /\ Rest(W, V, {})
<1> DEFINE all == Waiting(W)
<1>0. IsFiniteSet(all) /\ all \subseteq InStore(W)
  <2>1. all \subseteq Displays /\ all \subseteq InStore(W)
    BY DEF Waiting, InStore
  <2> QED BY <2>1, DisplaysAssumption, FS_Subset
<1>1. PICK f : f = [S \in SUBSET all |-> WaitStep(W, f, S)] /\ FinishWaiting(W) = f[all]
  BY FinishWaitingIsDefined
<1> DEFINE Good(X) == FineBut(X, {}) /\ Rest(W, X, {})
           P == {S \in SUBSET all : \A X \in f[S] : Good(X)}
<1>2. \A S \in SUBSET all : (\A s \in S : S \ {s} \in P) => S \in P
  <2> SUFFICES ASSUME NEW S \in SUBSET all, \A s \in S : S \ {s} \in P, NEW X \in f[S] PROVE Good(X)
    OBVIOUS
  <2>1. f[S] = WaitStep(W, f, S)
    BY <1>1
  <2>2. CASE S = {}
    <3>1. X = W
      BY <2>1, <2>2 DEF WaitStep
    <3>2. Rest(W, W, {})
      BY DEF Rest, Spared
    <3> QED BY <3>1, <3>2
  <2>3. CASE S # {}
    <3>1. PICK d \in S : X \in WaitFrom(W, f[S \ {d}], d)
      BY <2>1, <2>3 DEF WaitStep
    <3>2. PICK w \in f[S \ {d}] : X \in WaitOne(W, w, d)
      BY <3>1 DEF WaitFrom
    <3>3. Good(w) /\ d \in InStore(W)
      BY <1>0
    <3> HIDE DEF P
    <3>4. FineBut(X, {}) /\ Rest(w, X, {})
      BY <3>2, <3>3, WaitOneResult
    <3>5. Rest(W, X, {})
      BY <3>3, <3>4, RestTwice
    <3> QED BY <3>4, <3>5
  <2> QED BY <2>2, <2>3
<1>3. SUBSET all \subseteq P
  <2> HIDE DEF P, all
  <2> QED BY <1>0, <1>2, SubsetInduction
<1>4. all \in P
  BY <1>3
<1> QED BY <1>1, <1>4

(***************************************************************************)
(* Steps.                                                                  *)
(***************************************************************************)
(* What a step never does: use again a display that has ended, leave seat0 *)
(* without a login screen at the end of a user's session, forget that an   *)
(* automatic session came up, or begin another one after it.               *)
Steady(W, V) ==
    /\ \A d \in Displays : W.disp[d].stored /\ W.disp[d].status \in Ended /\ ~W.disp[d].setup
                           => V.disp[d].status \in Ended \/ ~V.disp[d].stored
    /\ \A d \in Displays :
         /\ W.disp[d].stored /\ W.disp[d].class = "user" /\ W.disp[d].seat = Seat0 /\ known
         /\ W.disp[d].status # "FINISHED" /\ V.disp[d].status = "FINISHED"
         => Screen(V)
    /\ W.autod # NoDisplay /\ V.autod = NoDisplay /\ W.disp[W.autod].registered => V.did
    /\ W.did /\ W.autod = NoDisplay =>
         V.did /\ \A d \in Displays : LogsIn(V.disp[d]) => LogsIn(W.disp[d])

Goes(V) == Becomes(V) /\ FineBut(V, {}) /\ Steady(World, V)

LEMMA BecomesWorld ==
    ASSUME NEW V, V \in Worlds, Becomes(V)
    PROVE  World' = V
BY DEF Becomes, World, Worlds

LEMMA WorldIsWorld ==
    /\ World.disp = disp /\ World.idles = idles /\ World.used = used /\ World.fails = fails
    /\ World.autod = autod /\ World.did = did
BY DEF World

LEMMA GoesKeepsFine ==
    ASSUME NEW V, Goes(V)
    PROVE  FineBut(World, {})'
<1>1. V \in Worlds /\ Becomes(V) /\ FineBut(V, {})
  BY DEF Goes, FineBut
<1>2. World' = V
  BY <1>1, BecomesWorld
<1> QED BY <1>1, <1>2

(* A step that changes d, and of the others what a handler may.            *)
LEMMA RestSteady ==
    ASSUME NEW W, NEW V, NEW d \in Displays, Rest(W, V, {d}),
           W.disp[d].stored /\ W.disp[d].status \in Ended /\ ~W.disp[d].setup
             => V.disp[d].status \in Ended \/ ~V.disp[d].stored,
           W.disp[d].stored /\ W.disp[d].class = "user" /\ W.disp[d].seat = Seat0 /\ known
             /\ W.disp[d].status # "FINISHED" /\ V.disp[d].status = "FINISHED" => Screen(V),
           W.autod = d /\ V.autod = NoDisplay /\ W.disp[d].registered => V.did,
           W.did /\ W.autod = NoDisplay /\ LogsIn(V.disp[d]) => LogsIn(W.disp[d])
    PROVE  Steady(W, V)
<1>1. NoDisplay # d
  BY DisplaysAssumption
<1>2. \A e \in Displays \ {d} : Spared(W.disp[e], V.disp[e])
  BY DEF Rest
<1>3. \A e \in Displays : W.disp[e].stored /\ W.disp[e].status \in Ended /\ ~W.disp[e].setup
                          => V.disp[e].status \in Ended \/ ~V.disp[e].stored
  BY <1>2 DEF Spared
<1>4. ASSUME NEW e \in Displays, W.disp[e].stored, W.disp[e].class = "user", W.disp[e].seat = Seat0, known,
             W.disp[e].status # "FINISHED", V.disp[e].status = "FINISHED"
      PROVE  Screen(V)
  BY <1>2, <1>4 DEF Spared
<1>5. W.autod # NoDisplay /\ V.autod = NoDisplay /\ W.disp[W.autod].registered => V.did
  BY DEF Rest
<1>6. ASSUME W.did, W.autod = NoDisplay
      PROVE  V.did /\ \A e \in Displays : LogsIn(V.disp[e]) => LogsIn(W.disp[e])
  BY <1>1, <1>6 DEF Rest
<1> QED BY <1>3, <1>4, <1>5, <1>6 DEF Steady

LEMMA CreatedSteady ==
    ASSUME NEW W, NEW V, FineBut(W, {}), Created(W, V)
    PROVE  FineBut(V, {}) /\ Steady(W, V)
<1>1. FineBut(V, {})
  BY CreatedKeepsFine
<1>2. Rest(W, V, {})
  BY CreatedRest
<1>3. \A e \in Displays : Spared(W.disp[e], V.disp[e])
  BY <1>2 DEF Rest
<1>4. V.autod = W.autod /\ V.did = W.did
  BY DEF Created
<1> QED BY <1>1, <1>2, <1>3, <1>4 DEF Steady, Rest, Spared

LEMMA RestAllSteady ==
    ASSUME NEW W, NEW V, Rest(W, V, {})
    PROVE  Steady(W, V)
<1>1. \A e \in Displays : Spared(W.disp[e], V.disp[e])
  BY DEF Rest
<1>2. V.autod = W.autod /\ V.did = W.did
  BY DEF Rest
<1> QED BY <1>1, <1>2 DEF Steady, Rest, Spared

(***************************************************************************)
(* The steps that change one record.                                       *)
(***************************************************************************)
(* r may become s without an end, a login or a revival.                    *)
Calm(r, s) ==
    /\ r.stored /\ r.status \in Ended /\ ~r.setup => s.status \in Ended \/ ~s.stored
    /\ s.status = "FINISHED" => r.status = "FINISHED"
    /\ LogsIn(s) => LogsIn(r)

LEMMA RewriteGoes ==
    ASSUME FineBut(World, {}), NEW d \in Displays, NEW s \in Display, NEW V, V = Recorded(World, d, s),
           Becomes(V), RecordOK(s), SourcesOK(V, d), autod = d => AutoOK(V, d), Calm(disp[d], s)
    PROVE  Goes(V)
<1>1. FineBut(World, {d}) /\ World.disp = disp /\ World.autod = autod /\ World.did = did
  BY FineSplits, WorldIsWorld
<1>2. Rewritten(World, V, d, s)
  BY <1>1, RecordedKeepsFine
<1>3. /\ FineBut(V, {d}) /\ Rest(World, V, {d}) /\ V.disp[d] = s /\ V.autod = autod /\ V.did = did
  BY <1>1, <1>2 DEF Rewritten
<1>4. AutoOK(V, d)
  BY <1>3 DEF AutoOK
<1>5. FineBut(V, {})
  BY <1>3, <1>4, FineSplits DEF Fine
<1>6. Steady(World, V)
  <2>1. d # NoDisplay
    BY DisplaysAssumption
  <2> QED BY <1>1, <1>3, <2>1, RestSteady DEF Calm
<1> QED BY <1>5, <1>6 DEF Goes

(* What the invariant says of one display, in the variables.               *)
Known(d) ==
    LET r == disp[d]
    IN /\ r \in Display /\ RecordOK(r)
       /\ Queued(World, "finish", d) =>
            /\ r.stored /\ r.env \in {"none", "exited", "stopped"}
            /\ IF r.seat = Seat0 THEN r.class = "greeter" ELSE r.status # "MANAGED"
       /\ Queued(World, "ready", d) => r.server = "signalled"
       /\ Queued(World, "start", d) => r.stored /\ r.sess \in {"starting", "autostart"}
       /\ r.stored /\ r.status \in Ended => Purge \in Range(World.idles)
       /\ r.stored /\ r.class = "greeter" /\ ~r.setup /\ r.env \in {"exited", "stopped"}
            => r.status \in Ended \/ Queued(World, "finish", d)
       /\ autod = d => r.stored /\ r.seat = Seat0 /\ r.class = "user" /\ r.status \notin Ended
       /\ r.env # "none" \/ r.sess # "none" \/ r.server # "none" \/ r.leaked => r.stored

LEMMA InvKnows ==
    ASSUME FineBut(World, {}), NEW d \in Displays
    PROVE  Known(d) /\ World \in Worlds /\ QueueOK(World.idles)
<1>1. World \in Worlds /\ Fine(World, d) /\ QueueOK(World.idles)
  BY DEF FineBut, QueueOK, Worlds
<1>2. disp[d] \in Display
  BY <1>1, WorldIsWorld DEF Worlds
<1>3. RecordOK(disp[d]) /\ SourcesOK(World, d) /\ AutoOK(World, d)
  BY <1>1, WorldIsWorld DEF Fine
<1>4. ~disp[d].stored => disp[d].env = "none" /\ disp[d].sess = "none" /\ disp[d].server = "none" /\ ~disp[d].leaked
  BY <1>3 DEF RecordOK, GoneIsEmpty, Unused, New
<1> QED BY <1>1, <1>2, <1>3, <1>4, WorldIsWorld DEF Known, SourcesOK, AutoOK

LEMMA CallbackOne ==
    ASSUME NEW V, Callback({V})
    PROVE  Becomes(V)
BY DEF Callback

LEMMA RecordedIdles ==
    ASSUME FineBut(World, {}), NEW d \in Displays, NEW s \in Display, NEW V, V = Recorded(World, d, s)
    PROVE  /\ V.disp[d] = s /\ V.idles = World.idles /\ V.autod = autod
           /\ \A op : Queued(V, op, d) <=> Queued(World, op, d)
<1>1. World \in Worlds /\ World.autod = autod
  BY WorldIsWorld DEF FineBut
<1>2. V.disp[d] = s /\ V.idles = World.idles /\ V.autod = autod
  BY <1>1, RecordedWorld
<1> QED BY <1>2 DEF Queued

LEMMA GreeterStartedGoes ==
    ASSUME FineBut(World, {}), NEW d \in Displays, GreeterStarted(d)
    PROVE  \E V : Goes(V)
<1> DEFINE r == disp[d]
           s == [r EXCEPT !.env = "running", !.window = TRUE]
           V == [World EXCEPT !.disp[d].env = "running", !.disp[d].window = TRUE]
<1>1. r.env = "starting" /\ Becomes(V)
  BY CallbackOne DEF GreeterStarted
<1>2. Known(d) /\ World \in Worlds /\ World.disp = disp
  BY InvKnows, WorldIsWorld
<1>3. r \in Display /\ RecordOK(r) /\ r.stored
  BY <1>1, <1>2 DEF Known
<1>4. s \in Display
  <2>1. [r EXCEPT !.env = "running"] \in Display
    BY <1>3, DisplayUpdates DEF Envs
  <2>2. [[r EXCEPT !.env = "running"] EXCEPT !.window = TRUE] \in Display
    BY <2>1, DisplayUpdates
  <2> QED BY <1>3, <2>2 DEF Display
<1>5. V = Recorded(World, d, s)
  BY <1>2 DEF Recorded, Worlds
<1>6. /\ s.seat = r.seat /\ s.class = r.class /\ s.initial = r.initial /\ s.setup = r.setup
      /\ s.stored = r.stored /\ s.registered = r.registered /\ s.env = "running" /\ s.window
      /\ s.sess = r.sess /\ s.num = r.num /\ s.leaked = r.leaked /\ s.status = r.status
      /\ s.server = r.server
  BY <1>3 DEF Display
<1> HIDE DEF r, s, V
<1>7. RecordOK(s) /\ ~LogsIn(s)
  BY <1>1, <1>3, <1>6 DEF RecordOK, GoneIsEmpty, SeatZeroOK, SessionOK, ServerOK, LogsIn, Alive
<1>8. V.disp[d] = s /\ V.idles = World.idles /\ V.autod = autod
      /\ \A op : Queued(V, op, d) <=> Queued(World, op, d)
  BY <1>4, <1>5, RecordedIdles
<1>9. SourcesOK(V, d)
  BY <1>1, <1>2, <1>6, <1>8 DEF Known, SourcesOK, r
<1>10. autod = d => AutoOK(V, d)
  BY <1>2, <1>6, <1>8 DEF Known, AutoOK, r
<1>11. Calm(r, s)
  BY <1>6, <1>7 DEF Calm
<1> QED BY <1>1, <1>4, <1>5, <1>7, <1>9, <1>10, <1>11, RewriteGoes DEF r

LEMMA GreeterNeverStartsGoes ==
    ASSUME FineBut(World, {}), NEW d \in Displays, GreeterNeverStarts(d)
    PROVE  \E V : Goes(V)
<1>0. PICK opened \in BOOLEAN : Becomes([World EXCEPT !.disp[d].env = "failed", !.disp[d].window = opened])
  BY DEF GreeterNeverStarts, Callback
<1> DEFINE r == disp[d]
           s == [r EXCEPT !.env = "failed", !.window = opened]
           V == [World EXCEPT !.disp[d].env = "failed", !.disp[d].window = opened]
<1>1. r.env = "starting" /\ Becomes(V)
  BY <1>0 DEF GreeterNeverStarts
<1>2. Known(d) /\ World \in Worlds /\ World.disp = disp
  BY InvKnows, WorldIsWorld
<1>3. r \in Display /\ RecordOK(r) /\ r.stored
  BY <1>1, <1>2 DEF Known
<1>4. s \in Display
  <2>1. [r EXCEPT !.env = "failed"] \in Display
    BY <1>3, DisplayUpdates DEF Envs
  <2>2. [[r EXCEPT !.env = "failed"] EXCEPT !.window = opened] \in Display
    BY <2>1, DisplayUpdates
  <2> QED BY <1>3, <2>2 DEF Display
<1>5. V = Recorded(World, d, s)
  BY <1>2 DEF Recorded, Worlds
<1>6. /\ s.seat = r.seat /\ s.class = r.class /\ s.initial = r.initial /\ s.setup = r.setup
      /\ s.stored = r.stored /\ s.registered = r.registered /\ s.env = "failed" /\ s.window = opened
      /\ s.sess = r.sess /\ s.num = r.num /\ s.leaked = r.leaked /\ s.status = r.status
      /\ s.server = r.server
  BY <1>3 DEF Display
<1> HIDE DEF r, s, V
<1>7. RecordOK(s) /\ (LogsIn(s) => LogsIn(r))
  BY <1>1, <1>3, <1>6 DEF RecordOK, GoneIsEmpty, SeatZeroOK, SessionOK, ServerOK, LogsIn, Alive, Ended
<1>8. V.disp[d] = s /\ V.idles = World.idles /\ V.autod = autod
      /\ \A op : Queued(V, op, d) <=> Queued(World, op, d)
  BY <1>4, <1>5, RecordedIdles
<1>9. SourcesOK(V, d)
  BY <1>1, <1>2, <1>6, <1>8 DEF Known, SourcesOK, Ended, r
<1>10. autod = d => AutoOK(V, d)
  BY <1>2, <1>6, <1>8 DEF Known, AutoOK, Ended, r
<1>11. Calm(r, s)
  BY <1>1, <1>6, <1>7 DEF Calm, Ended
<1> QED BY <1>1, <1>4, <1>5, <1>7, <1>9, <1>10, <1>11, RewriteGoes DEF r

LEMMA RegisterDisplayGoes ==
    ASSUME FineBut(World, {}), NEW d \in Displays, RegisterDisplay(d)
    PROVE  \E V : Goes(V)
<1> DEFINE r == disp[d]
           s == [r EXCEPT !.status = "MANAGED"]
           V == [World EXCEPT !.disp[d].status = "MANAGED"]
<1>1. /\ r.stored /\ r.seat = Seat0
      /\ \/ r.class = "greeter" /\ r.env = "running" /\ r.status = "PREPARED"
         \/ r.sess \in {"launched", "running"} /\ r.status = "UNMANAGED"
      /\ Becomes(V)
  BY CallbackOne DEF RegisterDisplay
<1>2. Known(d) /\ World \in Worlds /\ World.disp = disp
  BY InvKnows, WorldIsWorld
<1>3. r \in Display /\ RecordOK(r) /\ r.stored
  BY <1>1, <1>2 DEF Known
<1>4. s \in Display
  BY <1>3, DisplayUpdates DEF Statuses
<1>5. V = Recorded(World, d, s)
  BY <1>2 DEF Recorded, Worlds
<1>6. /\ s.seat = r.seat /\ s.class = r.class /\ s.initial = r.initial /\ s.setup = r.setup
      /\ s.stored = r.stored /\ s.registered = r.registered /\ s.env = r.env /\ s.window = r.window
      /\ s.sess = r.sess /\ s.num = r.num /\ s.leaked = r.leaked /\ s.status = "MANAGED"
      /\ s.server = r.server
  BY <1>3 DEF Display
<1> HIDE DEF r, s, V
<1>7. RecordOK(s) /\ (LogsIn(s) => LogsIn(r))
  BY <1>1, <1>3, <1>6 DEF RecordOK, GoneIsEmpty, SeatZeroOK, SessionOK, ServerOK, LogsIn, Alive, Ended
<1>8. V.disp[d] = s /\ V.idles = World.idles /\ V.autod = autod
      /\ \A op : Queued(V, op, d) <=> Queued(World, op, d)
  BY <1>4, <1>5, RecordedIdles
<1>9. SourcesOK(V, d)
  BY ZenonT(40), <1>1, <1>2, <1>6, <1>8 DEF Known, SourcesOK, Ended, r
<1>10. autod = d => AutoOK(V, d)
  BY <1>2, <1>6, <1>8 DEF Known, AutoOK, Ended, r
<1>11. Calm(r, s)
  BY <1>1, <1>6, <1>7 DEF Calm, Ended
<1> QED BY <1>1, <1>4, <1>5, <1>7, <1>9, <1>10, <1>11, RewriteGoes DEF r

LEMMA AutomaticLoginFailsGoes ==
    ASSUME FineBut(World, {}), NEW d \in Displays, AutomaticLoginFails(d)
    PROVE  \E V : Goes(V)
<1> DEFINE r == disp[d]
           s == [r EXCEPT !.sess = "dead"]
           V == [World EXCEPT !.disp[d].sess = "dead"]
<1>1. r.sess = "auto" /\ Becomes(V)
  BY CallbackOne DEF AutomaticLoginFails
<1>2. Known(d) /\ World \in Worlds /\ World.disp = disp
  BY InvKnows, WorldIsWorld
<1>3. r \in Display /\ RecordOK(r) /\ r.stored
  BY <1>1, <1>2 DEF Known
<1>4. s \in Display
  BY <1>3, DisplayUpdates DEF Sessions
<1>5. V = Recorded(World, d, s)
  BY <1>2 DEF Recorded, Worlds
<1>6. /\ s.seat = r.seat /\ s.class = r.class /\ s.initial = r.initial /\ s.setup = r.setup
      /\ s.stored = r.stored /\ s.registered = r.registered /\ s.env = r.env /\ s.window = r.window
      /\ s.sess = "dead" /\ s.num = r.num /\ s.leaked = r.leaked /\ s.status = r.status
      /\ s.server = r.server
  BY <1>3 DEF Display
<1> HIDE DEF r, s, V
<1>7. RecordOK(s) /\ (LogsIn(s) => LogsIn(r))
  BY <1>1, <1>3, <1>6 DEF RecordOK, GoneIsEmpty, SeatZeroOK, SessionOK, ServerOK, LogsIn, Alive, Ended
<1>8. V.disp[d] = s /\ V.idles = World.idles /\ V.autod = autod
      /\ \A op : Queued(V, op, d) <=> Queued(World, op, d)
  BY <1>4, <1>5, RecordedIdles
<1>9. SourcesOK(V, d)
  BY <1>1, <1>2, <1>6, <1>8 DEF Known, SourcesOK, Ended, r
<1>10. autod = d => AutoOK(V, d)
  BY <1>2, <1>6, <1>8 DEF Known, AutoOK, Ended, r
<1>11. Calm(r, s)
  BY <1>1, <1>6, <1>7 DEF Calm, Ended
<1> QED BY <1>1, <1>4, <1>5, <1>7, <1>9, <1>10, <1>11, RewriteGoes DEF r

LEMMA SessionStartedGoes ==
    ASSUME FineBut(World, {}), NEW d \in Displays, SessionStarted(d)
    PROVE  \E V : Goes(V)
<1> DEFINE r == disp[d]
           s == [r EXCEPT !.sess = "running"]
           V == [World EXCEPT !.disp[d].sess = "running"]
<1>1. r.sess = "launched" /\ Becomes(V)
  BY CallbackOne DEF SessionStarted
<1>2. Known(d) /\ World \in Worlds /\ World.disp = disp
  BY InvKnows, WorldIsWorld
<1>3. r \in Display /\ RecordOK(r) /\ r.stored
  BY <1>1, <1>2 DEF Known
<1>4. s \in Display
  BY <1>3, DisplayUpdates DEF Sessions
<1>5. V = Recorded(World, d, s)
  BY <1>2 DEF Recorded, Worlds
<1>6. /\ s.seat = r.seat /\ s.class = r.class /\ s.initial = r.initial /\ s.setup = r.setup
      /\ s.stored = r.stored /\ s.registered = r.registered /\ s.env = r.env /\ s.window = r.window
      /\ s.sess = "running" /\ s.num = r.num /\ s.leaked = r.leaked /\ s.status = r.status
      /\ s.server = r.server
  BY <1>3 DEF Display
<1> HIDE DEF r, s, V
<1>7. RecordOK(s) /\ (LogsIn(s) => LogsIn(r))
  BY <1>1, <1>3, <1>6 DEF RecordOK, GoneIsEmpty, SeatZeroOK, SessionOK, ServerOK, LogsIn, Alive, Ended
<1>8. V.disp[d] = s /\ V.idles = World.idles /\ V.autod = autod
      /\ \A op : Queued(V, op, d) <=> Queued(World, op, d)
  BY <1>4, <1>5, RecordedIdles
<1>9. SourcesOK(V, d)
  BY <1>1, <1>2, <1>6, <1>8 DEF Known, SourcesOK, Ended, r
<1>10. autod = d => AutoOK(V, d)
  BY <1>2, <1>6, <1>8 DEF Known, AutoOK, Ended, r
<1>11. Calm(r, s)
  BY <1>1, <1>6, <1>7 DEF Calm, Ended
<1> QED BY <1>1, <1>4, <1>5, <1>7, <1>9, <1>10, <1>11, RewriteGoes DEF r

LEMMA WindowClosesGoes ==
    ASSUME FineBut(World, {}), NEW d \in Displays, WindowCloses(d)
    PROVE  \E V : Goes(V)
<1> DEFINE r == disp[d]
           s == IF r.stored \/ r.leaked THEN [r EXCEPT !.window = FALSE] ELSE Unused
           V == [World EXCEPT !.disp[d] = IF disp[d].stored \/ disp[d].leaked
                                          THEN [@ EXCEPT !.window = FALSE] ELSE Unused]
<1>1. Becomes(V)
  BY CallbackOne DEF WindowCloses
<1>2. Known(d) /\ World \in Worlds /\ World.disp = disp
  BY InvKnows, WorldIsWorld
<1>3. r \in Display /\ RecordOK(r) /\ (r.leaked => r.stored)
  BY <1>2 DEF Known
<1>4. Unused \in Display
  <2>1. -1 \in -1..MaxNumber
    BY DisplaysAssumption
  <2>2. New("none", FALSE, -1) \in Display
    BY <2>1, NewIsDisplay DEF SeatNames
  <2> QED BY <2>2, DisplayUpdates DEF Unused
<1>5. s \in Display
  BY <1>3, <1>4, DisplayUpdates
<1>6. V = Recorded(World, d, s)
  BY <1>2 DEF Recorded, Worlds
<1> HIDE DEF V
<1>7. V.disp[d] = s /\ V.idles = World.idles /\ V.autod = autod
      /\ \A op : Queued(V, op, d) <=> Queued(World, op, d)
  <2> HIDE DEF s
  <2> QED BY <1>5, <1>6, RecordedIdles
<1>8. CASE r.stored
  <2>1. /\ s.seat = r.seat /\ s.class = r.class /\ s.initial = r.initial /\ s.setup = r.setup
        /\ s.stored = r.stored /\ s.registered = r.registered /\ s.env = r.env
        /\ s.sess = r.sess /\ s.num = r.num /\ s.leaked = r.leaked /\ s.status = r.status
        /\ s.server = r.server
    BY <1>3, <1>8 DEF Display
  <2> HIDE DEF r, s
  <2>2. RecordOK(s)
    BY <1>3, <1>8, <2>1 DEF RecordOK, GoneIsEmpty, SeatZeroOK, SessionOK, ServerOK, LogsIn
  <2>3. SourcesOK(V, d)
    BY <1>2, <1>7, <2>1 DEF Known, SourcesOK, r
  <2>4. autod = d => AutoOK(V, d)
    BY <1>2, <1>7, <2>1 DEF Known, AutoOK, r
  <2>5. Calm(r, s)
    BY <2>1 DEF Calm, LogsIn
  <2> QED BY <1>1, <1>5, <1>6, <2>2, <2>3, <2>4, <2>5, RewriteGoes DEF r
<1>9. CASE ~r.stored
  <2>1. s = Unused
    BY <1>3, <1>9
  <2>2. /\ s.status = "UNMANAGED" /\ ~s.stored /\ s.sess = "none" /\ s.env = "none" /\ s.class = "greeter"
        /\ s.server = "none" /\ s.num = -1 /\ ~s.leaked /\ ~s.registered
    BY <2>1 DEF Unused, New
  <2>3. RecordOK(s)
    <3>1. GoneIsEmpty(s)
      BY ZenonT(40), <1>4, <2>1 DEF GoneIsEmpty, Unused, New
    <3> HIDE DEF s
    <3> QED BY <2>2, <3>1 DEF RecordOK, SeatZeroOK, SessionOK, ServerOK, LogsIn, Ended
  <2> HIDE DEF r, s
  <2>4. SourcesOK(V, d)
    <3>1. r.server = "none" /\ r.sess = "none"
      BY <1>2, <1>9 DEF Known, r
    <3> QED BY <1>2, <1>7, <1>9, <2>2, <3>1 DEF Known, SourcesOK, r
  <2>5. autod = d => AutoOK(V, d)
    BY <1>2, <1>9 DEF Known, r
  <2>6. Calm(r, s)
    BY <2>2 DEF Calm, LogsIn
  <2> QED BY <1>1, <1>5, <1>6, <2>3, <2>4, <2>5, <2>6, RewriteGoes DEF r
<1> QED BY <1>8, <1>9

(* V is the world with the record s for d and the source e queued.         *)
QueuedFor(V, d, s, e) ==
    /\ V \in Worlds /\ QueueOK(V.idles)
    /\ Range(V.idles) = Range(World.idles) \cup {e}
    /\ FineBut(V, {d}) /\ Rest(World, V, {d}) /\ V.disp[d] = s /\ V.autod = autod /\ V.did = did

LEMMA QueueingResult ==
    ASSUME FineBut(World, {}), NEW d \in Displays, NEW s \in Display, NEW op,
           [op |-> op, d |-> d] \in OwnSources(d),
           NEW V, V = QueueIdle(Recorded(World, d, s), op, d)
    PROVE  QueuedFor(V, d, s, [op |-> op, d |-> d])
<1> DEFINE X == Recorded(World, d, s)
           e == [op |-> op, d |-> d]
<1>1. FineBut(World, {d}) /\ World.autod = autod /\ World.did = did /\ World \in Worlds
      /\ QueueOK(World.idles)
  BY FineSplits, WorldIsWorld, InvKnows
<1>2. V = QueueIdle(X, op, d)
  OBVIOUS
<1> HIDE DEF X
<1>3. /\ X \in Worlds /\ X.disp[d] = s /\ Others(World, X, d)
      /\ X.idles = World.idles /\ X.autod = World.autod /\ X.did = World.did
  BY <1>1, RecordedWorld DEF X
<1>4. e \in Entries
  BY EntriesOfDisplays DEF OwnSources
<1>5. /\ V \in Worlds /\ QueueOK(V.idles)
      /\ Range(V.idles) = Range(X.idles) \cup {e}
      /\ V.disp = X.disp /\ V.autod = X.autod /\ V.did = X.did
  BY <1>1, <1>2, <1>3, <1>4, QueueIdlePushes
<1>6. Others(World, V, d) /\ V.disp[d] = s
  BY <1>3, <1>5 DEF Others
<1>7. V.autod = World.autod /\ V.did = World.did /\ Range(V.idles) = Range(World.idles) \cup {e}
  BY <1>3, <1>5
<1>8. /\ Range(World.idles) \ OwnSources(d) \subseteq Range(V.idles)
      /\ Range(V.idles) \subseteq Range(World.idles) \cup OwnSources(d) \cup {Purge}
  BY <1>7
<1>9. FineBut(V, {d})
  BY <1>1, <1>5, <1>6, <1>7, <1>8, OneChanges
<1>10. Rest(World, V, {d})
  BY <1>6, <1>7, OthersRest
<1> QED BY <1>1, <1>5, <1>6, <1>7, <1>9, <1>10 DEF QueuedFor

LEMMA QueuedGoes ==
    ASSUME NEW V, NEW d \in Displays, NEW s, NEW e, QueuedFor(V, d, s, e), Becomes(V),
           RecordOK(s), SourcesOK(V, d), autod = d => AutoOK(V, d), Calm(disp[d], s)
    PROVE  Goes(V)
<1>1. /\ FineBut(V, {d}) /\ Rest(World, V, {d}) /\ V.disp[d] = s /\ V.autod = autod /\ V.did = did
  BY DEF QueuedFor
<1>2. FineBut(V, {})
  BY <1>1, FineSplits DEF Fine, AutoOK
<1>3. World.disp = disp /\ World.autod = autod /\ World.did = did
  BY WorldIsWorld
<1>4. d # NoDisplay
  BY DisplaysAssumption
<1>5. Steady(World, V)
  BY <1>1, <1>3, <1>4, RestSteady DEF Calm
<1> QED BY <1>2, <1>5 DEF Goes

LEMMA UserSessionOpenedGoes ==
    ASSUME FineBut(World, {}), NEW d \in Displays, UserSessionOpened(d)
    PROVE  \E V : Goes(V)
<1> DEFINE r == disp[d]
           s == [r EXCEPT !.sess = "starting"]
           X == [World EXCEPT !.disp[d].sess = "starting"]
           V == QueueIdle(X, "start", d)
<1>1. r.stored /\ r.sess = "fresh" /\ Becomes(V)
  BY DEF UserSessionOpened, InputCallback
<1>2. Known(d) /\ World \in Worlds /\ World.disp = disp
  BY InvKnows, WorldIsWorld
<1>3. r \in Display /\ RecordOK(r) /\ r.stored
  BY <1>1, <1>2 DEF Known
<1>4. s \in Display
  BY <1>3, DisplayUpdates DEF Sessions
<1>5. X = Recorded(World, d, s)
  BY <1>2 DEF Recorded, Worlds
<1>6. /\ s.seat = r.seat /\ s.class = r.class /\ s.initial = r.initial /\ s.setup = r.setup
      /\ s.stored = r.stored /\ s.registered = r.registered /\ s.env = r.env /\ s.window = r.window
      /\ s.sess = "starting" /\ s.num = r.num /\ s.leaked = r.leaked /\ s.status = r.status
      /\ s.server = r.server
  BY <1>3 DEF Display
<1> HIDE DEF r, s, X, V
<1>7. RecordOK(s) /\ (LogsIn(s) => LogsIn(r))
  BY <1>1, <1>3, <1>6 DEF RecordOK, GoneIsEmpty, SeatZeroOK, SessionOK, ServerOK, LogsIn, Alive, Ended
<1>8. V = QueueIdle(Recorded(World, d, s), "start", d) /\ StartOf(d) = [op |-> "start", d |-> d]
  BY <1>5 DEF V, StartOf
<1>12. QueuedFor(V, d, s, StartOf(d))
  BY <1>4, <1>8, QueueingResult DEF OwnSources
<1>9. SourcesOK(V, d)
  BY ZenonT(40), <1>1, <1>2, <1>6, <1>12, EntriesOfDisplays DEF Known, SourcesOK, Ended, r, QueuedFor, Queued, FinishOf, ReadyOf, StartOf
<1>10. autod = d => AutoOK(V, d)
  BY <1>2, <1>6, <1>12 DEF Known, AutoOK, Ended, r, QueuedFor
<1>11. Calm(r, s)
  BY <1>1, <1>6, <1>7 DEF Calm, Ended
<1> QED BY <1>1, <1>7, <1>9, <1>10, <1>11, <1>12, QueuedGoes DEF r

LEMMA AutomaticLoginOpenedGoes ==
    ASSUME FineBut(World, {}), NEW d \in Displays, AutomaticLoginOpened(d)
    PROVE  \E V : Goes(V)
<1> DEFINE r == disp[d]
           s == [r EXCEPT !.sess = "autostart"]
           X == [World EXCEPT !.disp[d].sess = "autostart"]
           V == QueueIdle(X, "start", d)
<1>1. r.sess = "auto" /\ Becomes(V)
  BY CallbackOne DEF AutomaticLoginOpened
<1>2. Known(d) /\ World \in Worlds /\ World.disp = disp
  BY InvKnows, WorldIsWorld
<1>3. r \in Display /\ RecordOK(r) /\ r.stored
  BY <1>1, <1>2 DEF Known
<1>4. s \in Display
  BY <1>3, DisplayUpdates DEF Sessions
<1>5. X = Recorded(World, d, s)
  BY <1>2 DEF Recorded, Worlds
<1>6. /\ s.seat = r.seat /\ s.class = r.class /\ s.initial = r.initial /\ s.setup = r.setup
      /\ s.stored = r.stored /\ s.registered = r.registered /\ s.env = r.env /\ s.window = r.window
      /\ s.sess = "autostart" /\ s.num = r.num /\ s.leaked = r.leaked /\ s.status = r.status
      /\ s.server = r.server
  BY <1>3 DEF Display
<1> HIDE DEF r, s, X, V
<1>7. RecordOK(s) /\ (LogsIn(s) => LogsIn(r))
  BY <1>1, <1>3, <1>6 DEF RecordOK, GoneIsEmpty, SeatZeroOK, SessionOK, ServerOK, LogsIn, Alive, Ended
<1>8. V = QueueIdle(Recorded(World, d, s), "start", d) /\ StartOf(d) = [op |-> "start", d |-> d]
  BY <1>5 DEF V, StartOf
<1>12. QueuedFor(V, d, s, StartOf(d))
  BY <1>4, <1>8, QueueingResult DEF OwnSources
<1>9. SourcesOK(V, d)
  BY <1>1, <1>2, <1>6, <1>12, EntriesOfDisplays DEF Known, SourcesOK, Ended, r, QueuedFor, Queued, FinishOf, ReadyOf, StartOf
<1>10. autod = d => AutoOK(V, d)
  BY <1>2, <1>6, <1>12 DEF Known, AutoOK, Ended, r, QueuedFor
<1>11. Calm(r, s)
  BY <1>1, <1>6, <1>7 DEF Calm, Ended
<1> QED BY <1>1, <1>7, <1>9, <1>10, <1>11, <1>12, QueuedGoes DEF r

LEMMA ServerSignalsGoes ==
    ASSUME FineBut(World, {}), NEW d \in Displays, ServerSignals(d)
    PROVE  \E V : Goes(V)
<1> DEFINE r == disp[d]
           s == [r EXCEPT !.server = "signalled"]
           X == [World EXCEPT !.disp[d].server = "signalled"]
           V == QueueIdle(X, "ready", d)
<1>1. r.server = "starting" /\ Becomes(V)
  BY CallbackOne DEF ServerSignals
<1>2. Known(d) /\ World \in Worlds /\ World.disp = disp
  BY InvKnows, WorldIsWorld
<1>3. r \in Display /\ RecordOK(r) /\ r.stored
  BY <1>1, <1>2 DEF Known
<1>4. s \in Display
  BY <1>3, DisplayUpdates DEF Servers
<1>5. X = Recorded(World, d, s)
  BY <1>2 DEF Recorded, Worlds
<1>6. /\ s.seat = r.seat /\ s.class = r.class /\ s.initial = r.initial /\ s.setup = r.setup
      /\ s.stored = r.stored /\ s.registered = r.registered /\ s.env = r.env /\ s.window = r.window
      /\ s.sess = r.sess /\ s.num = r.num /\ s.leaked = r.leaked /\ s.status = r.status
      /\ s.server = "signalled"
  BY <1>3 DEF Display
<1> HIDE DEF r, s, X, V
<1>7. RecordOK(s) /\ (LogsIn(s) => LogsIn(r))
  BY <1>1, <1>3, <1>6 DEF RecordOK, GoneIsEmpty, SeatZeroOK, SessionOK, ServerOK, LogsIn, Alive, Ended
<1>8. V = QueueIdle(Recorded(World, d, s), "ready", d) /\ ReadyOf(d) = [op |-> "ready", d |-> d]
  BY <1>5 DEF V, ReadyOf
<1>12. QueuedFor(V, d, s, ReadyOf(d))
  BY <1>4, <1>8, QueueingResult DEF OwnSources
<1>9. SourcesOK(V, d)
  BY <1>1, <1>2, <1>6, <1>12, EntriesOfDisplays DEF Known, SourcesOK, Ended, r, QueuedFor, Queued, FinishOf, ReadyOf, StartOf
<1>10. autod = d => AutoOK(V, d)
  BY <1>2, <1>6, <1>12 DEF Known, AutoOK, Ended, r, QueuedFor
<1>11. Calm(r, s)
  BY <1>1, <1>6, <1>7 DEF Calm, Ended
<1> QED BY <1>1, <1>7, <1>9, <1>10, <1>11, <1>12, QueuedGoes DEF r

(***************************************************************************)
(* The steps that end displays.                                            *)
(***************************************************************************)
LEMMA EndSteady ==
    ASSUME NEW V, NEW d \in Displays, FineBut(V, {d}), Fine(V, d), Rest(World, V, {d}), Becomes(V),
           disp[d].stored /\ disp[d].status \in Ended /\ ~disp[d].setup => V.disp[d].status \in Ended,
           disp[d].class = "user" /\ disp[d].seat = Seat0 /\ known => Screen(V),
           autod = d /\ V.autod = NoDisplay /\ disp[d].registered => V.did,
           LogsIn(V.disp[d]) => LogsIn(disp[d])
    PROVE  Goes(V)
<1>1. FineBut(V, {}) /\ World.disp = disp /\ World.autod = autod /\ World.did = did
  BY FineSplits, WorldIsWorld
<1>2. Steady(World, V)
  BY <1>1, RestSteady
<1> QED BY <1>1, <1>2 DEF Goes

LEMMA UserSessionEndsGoes ==
    ASSUME FineBut(World, {}), seats \subseteq OtherSeats, NEW d \in Displays, UserSessionEnds(d)
    PROVE  \E V : Goes(V)
<1> DEFINE r == disp[d]
           w == [r EXCEPT !.sess = "none"]
           W == [World EXCEPT !.disp[d].sess = "none"]
<1>1. r.sess \in {"launched", "running"} /\ \E V \in UnmanageAndFinish(W, d) : Becomes(V)
  BY DEF UserSessionEnds, Callback
<1>2. PICK V \in UnmanageAndFinish(W, d) : Becomes(V)
  BY <1>1
<1>3. Known(d) /\ World \in Worlds /\ World.disp = disp /\ FineBut(World, {d})
      /\ World.autod = autod /\ World.did = did
  BY InvKnows, WorldIsWorld, FineSplits
<1>4. r \in Display /\ RecordOK(r) /\ r.stored /\ r.class = "user" /\ r.env = "none"
  BY <1>1, <1>3 DEF Known, RecordOK, SessionOK
<1>5. w \in Display
  BY <1>4, DisplayUpdates DEF Sessions
<1>6. W = Recorded(World, d, w)
  BY <1>3 DEF Recorded, Worlds
<1>7. /\ w.seat = r.seat /\ w.class = r.class /\ w.initial = r.initial /\ w.setup = r.setup
      /\ w.stored = r.stored /\ w.registered = r.registered /\ w.env = r.env /\ w.window = r.window
      /\ w.sess = "none" /\ w.num = r.num /\ w.leaked = r.leaked /\ w.status = r.status
      /\ w.server = r.server
  BY <1>4 DEF Display
<1> HIDE DEF r, w, W
<1>8. Rewritten(World, W, d, w)
  BY <1>3, <1>5, <1>6, RecordedKeepsFine
<1>9. FineBut(W, {d}) /\ Rest(World, W, {d}) /\ W.disp[d] = w /\ W.idles = World.idles /\ W.autod = autod
  BY <1>3, <1>8 DEF Rewritten
<1>10. W.disp[d].stored
  BY <1>4, <1>7, <1>9
<1>11. Ousted(W, V, d)
  BY <1>2, <1>9, <1>10, UnmanageAndFinishResult
<1> DEFINE s == V.disp[d]
<1>12. /\ SameButStatus(w, s) /\ s \in Display /\ s.status = "FINISHED"
       /\ s.server = (IF Stops(w) THEN "none" ELSE w.server)
       /\ QueueOK(V.idles) /\ FineBut(V, {d}) /\ Rest(W, V, {d})
       /\ FinishOf(d) \notin Range(V.idles) /\ Purge \in Range(V.idles)
  BY <1>9, <1>11 DEF Ousted
<1>13. /\ StartOf(d) \in Range(V.idles) <=> StartOf(d) \in Range(World.idles)
       /\ ReadyOf(d) \in Range(V.idles) => ReadyOf(d) \in Range(World.idles)
  BY <1>9, <1>11 DEF Ousted
<1>14. autod = d => V.autod = NoDisplay /\ (r.registered => V.did)
  BY <1>7, <1>9, <1>11 DEF Ousted
<1>15. known => Screen(V)
  BY <1>4, <1>7, <1>9, <1>11 DEF Ousted
<1> HIDE DEF s
<1>16. RecordOK(s)
  <2>1. /\ s.seat = r.seat /\ s.class = "user" /\ s.stored /\ s.registered = r.registered
        /\ s.env = "none" /\ s.sess = "none" /\ s.num = r.num /\ s.leaked = r.leaked
    BY <1>4, <1>7, <1>12 DEF SameButStatus
  <2>2. s.server \in {"none", r.server} /\ (s.registered /\ s.server # "none" => ~Stops(w))
    BY <1>7, <1>12
  <2>3. s.server # "none" => ~s.registered
    BY <1>4, <1>7, <2>1, <2>2 DEF RecordOK, ServerOK, Stops
  <2> QED BY <1>4, <1>12, <2>1, <2>2, <2>3
       DEF RecordOK, GoneIsEmpty, SeatZeroOK, SessionOK, ServerOK, LogsIn, Ended, Alive
<1>17. s.stored /\ s.sess = "none" /\ s.class = "user" /\ s.env = "none"
  BY <1>4, <1>7, <1>12 DEF SameButStatus
<1>18. SourcesOK(V, d)
  <2>1. StartOf(d) \notin Range(World.idles)
    BY <1>1, <1>3 DEF Known, Queued, StartOf, r
  <2>2. ReadyOf(d) \notin Range(World.idles)
    BY <1>3, <1>4 DEF Known, Queued, ReadyOf, RecordOK, ServerOK, r
  <2> QED BY <1>12, <1>13, <1>17, <2>1, <2>2 DEF SourcesOK, Queued, StartOf, ReadyOf, FinishOf, s
<1>19. V.autod # d
  BY <1>9, <1>12, <1>14, DisplaysAssumption DEF Rest
<1>20. Fine(V, d)
  BY <1>16, <1>18, <1>19 DEF Fine, AutoOK, s
<1>21. Rest(World, V, {d})
  BY <1>9, <1>12, RestTwice
<1>22. V.disp[d].status \in Ended /\ ~LogsIn(V.disp[d])
  BY <1>12, <1>17 DEF LogsIn, Ended, s
<1> QED BY <1>2, <1>12, <1>14, <1>15, <1>20, <1>21, <1>22, EndSteady DEF r

LEMMA ServerEndsGoes ==
    ASSUME FineBut(World, {}), NEW d \in Displays, ServerEnds(d)
    PROVE  \E V : Goes(V)
<1> DEFINE r == disp[d]
<1>1. r.server # "none" /\ \E U \in Unmanage(World, d) : Becomes(ServerStopped(U, d))
  BY DEF ServerEnds, Callback
<1>2. PICK U \in Unmanage(World, d) : Becomes(ServerStopped(U, d))
  BY <1>1
<1> DEFINE V == ServerStopped(U, d)
           u == U.disp[d]
           s == V.disp[d]
<1>3. Known(d) /\ World \in Worlds /\ World.disp = disp /\ FineBut(World, {d})
      /\ World.autod = autod /\ World.did = did
  BY InvKnows, WorldIsWorld, FineSplits
<1>4. r \in Display /\ RecordOK(r) /\ r.stored
  BY <1>1, <1>3 DEF Known
<1>5. r.seat # Seat0 /\ ~r.leaked /\ ~LogsIn(r) /\ (r.registered => r.status = "MANAGED")
  BY <1>1, <1>4 DEF RecordOK, SeatZeroOK, SessionOK, ServerOK
<1>6. Unmanaged(World, U, d)
  BY <1>2, <1>3, <1>4, UnmanageResult
<1>7. /\ QueueOK(U.idles) /\ FineBut(U, {d}) /\ Rest(World, U, {d}) /\ u = UnmanagedRecord(r) /\ U \in Worlds
  BY <1>3, <1>6 DEF Unmanaged, FineBut
<1>8. /\ u \in Display /\ SameButStatus(r, u)
      /\ u.status = (IF r.registered THEN "UNMANAGED" ELSE "FAILED")
  BY <1>4, <1>7, EndedRecords
<1>9. V = ServerStopped(U, d)
  OBVIOUS
<1> HIDE DEF r, u, s, V
<1>10. /\ V \in Worlds /\ QueueOK(V.idles)
       /\ Range(V.idles) = Range(U.idles) \ {ReadyOf(d)}
       /\ s = [U.disp[d] EXCEPT !.server = "none"] /\ s \in Display
       /\ Others(U, V, d)
       /\ V.autod = U.autod /\ V.did = U.did
  BY <1>7, <1>9, ServerStoppedResult DEF s
<1>11. /\ SameButStatus(r, s) /\ s.server = "none" /\ s.status = (IF r.registered THEN "UNMANAGED" ELSE "FAILED")
  <2>1. s = [u EXCEPT !.server = "none"]
    BY <1>10 DEF u
  <2> QED BY <1>8, <2>1 DEF SameButStatus, Display
<1>12. FineBut(V, {d})
  BY <1>7, <1>10, OneChanges DEF OwnSources
<1>13. Rest(World, V, {d})
  <2>1. Rest(U, V, {d})
    BY <1>10, OthersRest
  <2> QED BY <1>7, <2>1, RestTwice
<1>14. RecordOK(s)
  BY <1>4, <1>5, <1>11 DEF RecordOK, GoneIsEmpty, SeatZeroOK, SessionOK, ServerOK, LogsIn, SameButStatus
<1>15. autod # d /\ V.autod # d
  <2>1. autod # d
    BY <1>3, <1>5 DEF Known, r
  <2> QED BY <1>3, <1>13, <2>1 DEF Rest
<1>16. SourcesOK(V, d)
  <2>1. /\ FinishOf(d) \in Range(V.idles) => FinishOf(d) \in Range(World.idles)
        /\ FinishOf(d) \in Range(World.idles) => FinishOf(d) \in Range(V.idles)
        /\ StartOf(d) \in Range(V.idles) => StartOf(d) \in Range(World.idles)
        /\ ReadyOf(d) \notin Range(V.idles)
        /\ Purge \in Range(World.idles) => Purge \in Range(V.idles)
        /\ ~r.registered /\ r.status # "FAILED" => Purge \in Range(V.idles)
    <3>1. FinishOf(d) # ReadyOf(d) /\ Purge # ReadyOf(d)
      BY EntriesOfDisplays DEF FinishOf, ReadyOf
    <3> QED BY <1>3, <1>6, <1>10, <3>1 DEF Unmanaged, r
  <2>2. s.status \in Ended => Purge \in Range(V.idles)
    <3>1. r.status = "FAILED" => Purge \in Range(World.idles)
      BY <1>3, <1>4 DEF Known, Ended, r
    <3> QED BY <1>11, <2>1, <3>1 DEF Ended
  <2>3. r.status \in Ended => s.status \in Ended
    BY <1>5, <1>11 DEF Ended
  <2> QED BY <1>3, <1>5, <1>11, <2>1, <2>2, <2>3
       DEF SourcesOK, Queued, StartOf, ReadyOf, FinishOf, Known, SameButStatus, s, r
<1>17. Fine(V, d)
  BY <1>14, <1>15, <1>16 DEF Fine, AutoOK, s
<1>18. ~LogsIn(V.disp[d]) /\ (r.status \in Ended => V.disp[d].status \in Ended)
  BY <1>5, <1>11 DEF LogsIn, SameButStatus, Ended, s
<1>19. Becomes(V)
  BY <1>2 DEF V
<1> QED BY <1>5, <1>12, <1>13, <1>15, <1>17, <1>18, <1>19, EndSteady DEF r

LEMMA UserLoadedGoes ==
    ASSUME FineBut(World, {}), seats \subseteq OtherSeats, NEW d \in Displays, UserLoaded(d)
    PROVE  \E V : Goes(V)
<1> DEFINE r == disp[d]
           w == [r EXCEPT !.sess = "none"]
           W == [World EXCEPT !.disp[d].sess = "none"]
           A == [W EXCEPT !.disp[d].sess = "auto"]
<1>1. /\ r.sess = "lookup"
      /\ \/ Becomes(A)
         \/ Becomes(StartGreeter(W, d))
         \/ \E V \in UnmanageAndFinish(W, d) : Becomes(V)
  BY DEF UserLoaded, Callback
<1>2. Known(d) /\ World \in Worlds /\ World.disp = disp /\ FineBut(World, {d})
      /\ World.autod = autod /\ World.did = did
  BY InvKnows, WorldIsWorld, FineSplits
<1>3. r \in Display /\ RecordOK(r) /\ r.stored
  BY <1>1, <1>2 DEF Known
<1>4. LogsIn(r) /\ r.seat = Seat0 /\ r.class = "greeter" /\ r.status = "PREPARED" /\ r.env = "ready"
      /\ ~r.leaked /\ r.server = "none"
  BY <1>1, <1>3 DEF RecordOK, SessionOK, SeatZeroOK, LogsIn
<1>5. w \in Display
  BY <1>3, DisplayUpdates DEF Sessions
<1>6. W = Recorded(World, d, w)
  BY <1>2 DEF Recorded, Worlds
<1>7. w.status = r.status /\ w.server = r.server
      /\ w.seat = r.seat /\ w.class = r.class /\ w.env = r.env /\ w.sess = "none"
      /\ w.stored = r.stored /\ w.leaked = r.leaked
  BY <1>3 DEF SameButStatus, Display
<1>8. /\ StartOf(d) \notin Range(World.idles) /\ FinishOf(d) \notin Range(World.idles)
      /\ ReadyOf(d) \notin Range(World.idles) /\ autod # d
  BY <1>1, <1>2, <1>4 DEF Known, Queued, StartOf, FinishOf, ReadyOf, r
<1>9. CASE Becomes(A)
  <2> DEFINE s == [r EXCEPT !.sess = "auto"]
  <2>1. s \in Display
    BY <1>3, DisplayUpdates DEF Sessions
  <2>2. A = Recorded(World, d, s)
    BY <1>2 DEF Recorded, Worlds
  <2>3. /\ s.seat = r.seat /\ s.class = r.class /\ s.setup = r.setup
        /\ s.stored = r.stored /\ s.registered = r.registered /\ s.env = r.env
        /\ s.sess = "auto" /\ s.num = r.num /\ s.leaked = r.leaked /\ s.status = r.status
        /\ s.server = r.server
    BY <1>3 DEF Display
  <2> HIDE DEF r, s, A, W, w
  <2>4. RecordOK(s) /\ LogsIn(s)
    BY <1>3, <1>4, <2>3 DEF RecordOK, GoneIsEmpty, SeatZeroOK, SessionOK, ServerOK, LogsIn, Alive, Ended
  <2>5. A.disp[d] = s /\ A.idles = World.idles /\ A.autod = autod
        /\ \A op : Queued(A, op, d) <=> Queued(World, op, d)
    BY <2>1, <2>2, RecordedIdles
  <2>6. SourcesOK(A, d)
    BY <1>4, <1>8, <2>3, <2>5 DEF SourcesOK, Ended, Queued, StartOf, FinishOf, ReadyOf
  <2>7. Calm(r, s)
    BY <1>4, <2>3, <2>4 DEF Calm, Ended
  <2> QED BY <1>8, <1>9, <2>1, <2>2, <2>4, <2>6, <2>7, RewriteGoes DEF r
<1>10. CASE Becomes(StartGreeter(W, d))
  <2> DEFINE s == [w EXCEPT !.sess = "fresh", !.env = "starting"]
             A2 == StartGreeter(W, d)
  <2>1. W \in Worlds /\ W.disp[d] = w
    <3> HIDE DEF w, W
    <3> QED BY <1>2, <1>5, <1>6, RecordedWorld
  <2>2. s \in Display /\ A2 = Recorded(W, d, s)
    BY <2>1, StartGreeterResult
  <2>3. A2 = Recorded(World, d, s)
    <3> HIDE DEF s, w, A2, W
    <3> QED BY <1>2, <1>6, <2>2 DEF Recorded, Worlds
  <2>4. /\ s.seat = w.seat /\ s.class = w.class
        /\ s.stored = w.stored /\ s.env = "starting"
        /\ s.sess = "fresh" /\ s.leaked = w.leaked /\ s.status = w.status
        /\ s.server = w.server /\ s.num = r.num /\ s.registered = r.registered
    BY <1>5 DEF Display
  <2> HIDE DEF r, s, A2, W, w
  <2>5. RecordOK(s)
    BY <1>3, <1>4, <1>7, <2>4 DEF RecordOK, GoneIsEmpty, SeatZeroOK, SessionOK, ServerOK, LogsIn, Alive, Ended
  <2>6. A2.disp[d] = s /\ A2.idles = World.idles /\ A2.autod = autod
        /\ \A op : Queued(A2, op, d) <=> Queued(World, op, d)
    BY <2>2, <2>3, RecordedIdles
  <2>7. SourcesOK(A2, d)
    BY <1>4, <1>7, <1>8, <2>4, <2>6 DEF SourcesOK, Ended, Queued, StartOf, FinishOf, ReadyOf
  <2>8. Calm(r, s)
    BY <1>4, <1>7, <2>4 DEF Calm, Ended
  <2> QED BY <1>8, <1>10, <2>2, <2>3, <2>5, <2>7, <2>8, RewriteGoes DEF r, A2
<1>11. CASE \E V \in UnmanageAndFinish(W, d) : Becomes(V)
  <2>1. PICK V \in UnmanageAndFinish(W, d) : Becomes(V)
    BY <1>11
  <2> HIDE DEF r, w, W, A
  <2>2. Rewritten(World, W, d, w)
    BY <1>2, <1>5, <1>6, RecordedKeepsFine
  <2>3. FineBut(W, {d}) /\ Rest(World, W, {d}) /\ W.disp[d] = w /\ W.idles = World.idles /\ W.autod = autod
    BY <1>2, <2>2 DEF Rewritten
  <2>4. W.disp[d].stored
    BY <1>3, <1>7, <2>3
  <2>5. Ousted(W, V, d)
    BY <2>1, <2>3, <2>4, UnmanageAndFinishResult
  <2> DEFINE s == V.disp[d]
  <2>6. /\ SameButStatus(w, s) /\ s \in Display /\ s.status = "FINISHED"
        /\ s.server = (IF Stops(w) THEN "none" ELSE w.server)
        /\ QueueOK(V.idles) /\ FineBut(V, {d}) /\ Rest(W, V, {d})
        /\ FinishOf(d) \notin Range(V.idles) /\ Purge \in Range(V.idles)
    BY <2>3, <2>5 DEF Ousted
  <2>7. /\ StartOf(d) \in Range(V.idles) => StartOf(d) \in Range(World.idles)
        /\ ReadyOf(d) \in Range(V.idles) => ReadyOf(d) \in Range(World.idles)
    BY <2>3, <2>5 DEF Ousted
  <2> HIDE DEF s
  <2>8. s.seat = Seat0 /\ s.class = "greeter" /\ s.env = "ready" /\ s.sess = "none"
        /\ s.stored /\ ~s.leaked /\ s.server = "none" /\ s.num = w.num
    BY <1>3, <1>4, <1>7, <2>6 DEF SameButStatus
  <2>9. RecordOK(s)
    <3>1. w.num = r.num
      BY <1>3 DEF w, Display
    <3>2. r.num = -1
      BY <1>3, <1>4 DEF RecordOK, SeatZeroOK
    <3> QED BY <2>6, <2>8, <3>1, <3>2
         DEF RecordOK, GoneIsEmpty, SeatZeroOK, SessionOK, ServerOK, LogsIn, Ended, Alive
  <2>10. SourcesOK(V, d)
    BY <1>8, <2>6, <2>7, <2>8 DEF SourcesOK, Queued, StartOf, ReadyOf, FinishOf, s
  <2>11. V.autod # d
    BY <1>8, <2>3, <2>6 DEF Rest
  <2>12. Fine(V, d)
    BY <2>9, <2>10, <2>11 DEF Fine, AutoOK, s
  <2>13. Rest(World, V, {d})
    BY <2>3, <2>6, RestTwice
  <2>14. V.disp[d].status \in Ended /\ ~LogsIn(V.disp[d])
    BY <2>6, <2>8 DEF LogsIn, Ended, s
  <2> QED BY <1>4, <1>8, <2>1, <2>6, <2>12, <2>13, <2>14, EndSteady DEF r
<1> QED BY <1>1, <1>9, <1>10, <1>11

(* The greeter of d has ended: d is on its way out.                        *)
LEMMA GreeterEndGoes ==
    ASSUME FineBut(World, {}), NEW d \in Displays, NEW x \in {"exited", "stopped"},
           disp[d].env \in {"running", "exited"},
           NEW W, W = Recorded(World, d, [disp[d] EXCEPT !.env = x]),
           NEW V \in SelfDestruct(W, d), Becomes(V)
    PROVE  Goes(V)
<1> DEFINE r == disp[d]
           w == [r EXCEPT !.env = x]
           s == V.disp[d]
<1>1. Known(d) /\ World \in Worlds /\ World.disp = disp /\ FineBut(World, {d})
      /\ World.autod = autod /\ World.did = did
  BY InvKnows, WorldIsWorld, FineSplits
<1>2. r \in Display /\ RecordOK(r) /\ r.stored /\ r.class = "greeter" /\ ~LogsIn(r)
      /\ r.server \notin {"starting", "signalled"} /\ r.env \in {"running", "exited"}
  <2>1. r \in Display /\ RecordOK(r) /\ r.stored
    BY <1>1 DEF Known
  <2>2. r.class \in {"greeter", "user"}
    BY <2>1 DEF Display
  <2> QED BY <2>1, <2>2 DEF RecordOK, SessionOK, ServerOK
<1>3. w \in Display /\ w.env = x
  <2>1. x \in Envs
    BY DEF Envs
  <2>2. w \in Display
    BY <1>2, <2>1, DisplayUpdates
  <2> QED BY <1>2, <2>2 DEF Display
<1>4. /\ w.seat = r.seat /\ w.class = r.class /\ w.initial = r.initial /\ w.setup = r.setup
      /\ w.stored = r.stored /\ w.registered = r.registered /\ w.window = r.window
      /\ w.sess = r.sess /\ w.num = r.num /\ w.leaked = r.leaked /\ w.status = r.status
      /\ w.server = r.server
  BY <1>2 DEF Display
<1>5. W = Recorded(World, d, w)
  OBVIOUS
<1> HIDE DEF r, w, s
<1>6. Rewritten(World, W, d, w)
  BY ONLY <1>1, <1>3, <1>5, d \in Displays, RecordedKeepsFine
<1>7. FineBut(W, {d}) /\ Rest(World, W, {d}) /\ W.disp[d] = w /\ W.idles = World.idles /\ W.autod = autod
  BY ONLY <1>1, <1>6 DEF Rewritten
<1>8. W.disp[d].stored
  BY ONLY <1>2, <1>4, <1>7
<1>9. Destroyed(W, V, d)
  BY ONLY <1>7, <1>8, d \in Displays, V \in SelfDestruct(W, d), SelfDestructResult
<1>10. /\ FineBut(V, {d}) /\ Rest(W, V, {d})
       /\ s \in Display /\ SameButStatus(w, s)
       /\ w.status = "MANAGED" => /\ s.status \in {"UNMANAGED", "FAILED"}
                                 /\ s.server = (IF w.registered THEN "none" ELSE w.server)
       /\ w.status # "MANAGED" => s = w
  BY ONLY <1>7, <1>9 DEF Destroyed, s
<1>11. /\ w.status # "FINISHED" => FinishOf(d) \in Range(V.idles)
       /\ w.status = "FINISHED" /\ FinishOf(d) \in Range(V.idles) => FinishOf(d) \in Range(World.idles)
       /\ StartOf(d) \in Range(V.idles) <=> StartOf(d) \in Range(World.idles)
       /\ ReadyOf(d) \in Range(V.idles) => ReadyOf(d) \in Range(World.idles)
       /\ Purge \in Range(World.idles) => Purge \in Range(V.idles)
       /\ w.status = "MANAGED" /\ s.status \in Ended => Purge \in Range(V.idles)
  BY ONLY <1>7, <1>9 DEF Destroyed, s
<1>12. /\ s.seat = r.seat /\ s.class = "greeter" /\ s.setup = r.setup
       /\ s.stored /\ s.registered = r.registered /\ s.env = x
       /\ s.sess = r.sess /\ s.num = r.num /\ s.leaked = r.leaked
  BY ONLY <1>2, <1>3, <1>4, <1>10 DEF SameButStatus
<1>13. s.server \in {"none", r.server} /\ (s.server # "none" /\ s.registered => s.status = "MANAGED")
  BY ONLY <1>2, <1>4, <1>10, <1>12 DEF RecordOK, ServerOK
<1>14. \/ s.status = r.status
       \/ r.status = "MANAGED" /\ s.status \in {"UNMANAGED", "FAILED"}
  BY ONLY <1>4, <1>10
<1>15. x \notin Alive /\ x # "none" /\ x # "ready"
  BY DEF Alive
<1>16. RecordOK(s) /\ ~LogsIn(s)
  <2>1. ~LogsIn(s)
    BY ONLY <1>2, <1>12 DEF LogsIn
  <2>2. SeatZeroOK(s)
    BY ONLY <1>2, <1>12, <1>13, <1>14, <1>15 DEF RecordOK, SeatZeroOK
  <2>3. SessionOK(s)
    BY ONLY <1>2, <1>12, <2>1 DEF RecordOK, SessionOK
  <2>4. ServerOK(s)
    BY ONLY <1>2, <1>13 DEF ServerOK
  <2> QED BY ONLY <1>12, <2>1, <2>2, <2>3, <2>4 DEF RecordOK, GoneIsEmpty
<1>17. autod # d /\ V.autod # d
  <2>1. autod # d
    BY ONLY <1>1, <1>2 DEF Known, r
  <2> QED BY ONLY <1>7, <1>10, <2>1, <1>1 DEF Rest
<1>18. SourcesOK(V, d)
  <2>1. s.status \in Ended => Purge \in Range(V.idles)
    <3>1. r.status \in Ended => Purge \in Range(World.idles)
      BY ONLY <1>1, <1>2 DEF Known, r
    <3> QED BY ONLY <1>4, <1>11, <1>14, <3>1
  <2>2. ReadyOf(d) \notin Range(V.idles)
    BY ONLY <1>1, <1>2, <1>11 DEF Known, Queued, ReadyOf, r
  <2>3. StartOf(d) \in Range(V.idles) => s.sess \in {"starting", "autostart"}
    BY ONLY <1>1, <1>11, <1>12 DEF Known, Queued, StartOf, r
  <2>4. FinishOf(d) \in Range(V.idles) =>
          IF s.seat = Seat0 THEN s.class = "greeter" ELSE s.status # "MANAGED"
    BY ONLY <1>12, <1>14, <1>10, <1>4
  <2>5. s.status \in Ended \/ FinishOf(d) \in Range(V.idles)
    BY ONLY <1>4, <1>11, <1>14 DEF Ended
  <2>6. /\ FinishOf(d) = [op |-> "finish", d |-> d] /\ ReadyOf(d) = [op |-> "ready", d |-> d]
        /\ StartOf(d) = [op |-> "start", d |-> d]
    BY DEF FinishOf, ReadyOf, StartOf
  <2> QED BY <1>12, <2>1, <2>2, <2>3, <2>4, <2>5, <2>6 DEF SourcesOK, Queued, s
<1>19. Fine(V, d)
  BY ONLY <1>16, <1>17, <1>18 DEF Fine, AutoOK, s
<1>20. Rest(World, V, {d})
  BY ONLY <1>7, <1>10, d \in Displays, RestTwice
<1>21. r.status \in Ended => s.status \in Ended
  BY <1>14 DEF Ended
<1> QED BY <1>2, <1>10, <1>16, <1>17, <1>19, <1>20, <1>21, EndSteady DEF r, s

LEMMA GreeterExitsGoes ==
    ASSUME FineBut(World, {}), NEW d \in Displays, GreeterExits(d)
    PROVE  \E V : Goes(V)
<1> DEFINE W == [World EXCEPT !.disp[d].env = "exited"]
<1>1. PICK V \in SelfDestruct(W, d) : Becomes(V)
  BY DEF GreeterExits, Callback
<1>2. World \in Worlds /\ World.disp = disp
  BY InvKnows, WorldIsWorld
<1>3. W = Recorded(World, d, [disp[d] EXCEPT !.env = "exited"])
  BY <1>2 DEF Recorded, Worlds
<1> HIDE DEF W
<1>4. disp[d].env \in {"running", "exited"}
  BY DEF GreeterExits
<1>5. Goes(V)
  BY <1>1, <1>3, <1>4, GreeterEndGoes
<1> QED BY <1>5

LEMMA GreeterStoppedGoes ==
    ASSUME FineBut(World, {}), NEW d \in Displays, GreeterStopped(d)
    PROVE  \E V : Goes(V)
<1> DEFINE W == [World EXCEPT !.disp[d].env = "stopped"]
<1>1. PICK V \in SelfDestruct(W, d) : Becomes(V)
  BY DEF GreeterStopped, Callback
<1>2. World \in Worlds /\ World.disp = disp
  BY InvKnows, WorldIsWorld
<1>3. W = Recorded(World, d, [disp[d] EXCEPT !.env = "stopped"])
  BY <1>2 DEF Recorded, Worlds
<1> HIDE DEF W
<1>4. disp[d].env \in {"running", "exited"}
  BY DEF GreeterStopped
<1>5. Goes(V)
  BY <1>1, <1>3, <1>4, GreeterEndGoes
<1> QED BY <1>5

(***************************************************************************)
(* The steps that create displays, and those that finish the ones that     *)
(* wait.                                                                   *)
(***************************************************************************)
LEMMA CreatedGoes ==
    ASSUME FineBut(World, {}), NEW V, Created(World, V), Becomes(V)
    PROVE  Goes(V)
<1>1. FineBut(V, {}) /\ Steady(World, V)
  BY CreatedSteady
<1> QED BY <1>1 DEF Goes

LEMMA WorldHasNoStray ==
    ASSUME FineBut(World, {})
    PROVE  World \in Worlds /\ QueueOK(World.idles) /\ NoStraySource(World)
<1>1. World \in Worlds /\ QueueOK(World.idles)
  BY DEF FineBut, QueueOK, Worlds
<1>2. NoStraySource(World)
  BY FineLeavesNoStray
<1> QED BY <1>1, <1>2

LEMMA StartGoes ==
    ASSUME FineBut(World, {}), seats \subseteq OtherSeats, Start
    PROVE  \E V : Goes(V)
<1>1. PICK V \in SyncSeats(World) : Becomes(V)
  BY DEF Start
<1>2. Created(World, V)
  BY WorldHasNoStray, SyncSeatsResult
<1>3. Goes(V)
  BY <1>1, <1>2, CreatedGoes
<1> QED BY <1>3

LEMMA SeatNewGoes ==
    ASSUME FineBut(World, {}), NEW s \in OtherSeats, SeatNew(s)
    PROVE  \E V : Goes(V)
<1>1. PICK V \in CreateDisplay(World, s, FALSE) : Becomes(V)
  BY DEF SeatNew
<1>2. s \in SeatNames /\ FALSE \in BOOLEAN
  BY DEF SeatNames
<1>3. Created(World, V)
  BY <1>2, WorldHasNoStray, CreateDisplayResult
<1>4. Goes(V)
  BY <1>1, <1>3, CreatedGoes
<1> QED BY <1>4

LEMMA CreateTransientDisplayGoes ==
    ASSUME FineBut(World, {}), CreateTransientDisplay
    PROVE  \E V : Goes(V)
<1>1. PICK V \in NewDisplay(World, Seat0, TRUE) : Becomes(V)
  BY DEF CreateTransientDisplay, InputCallback
<1>2. Created(World, V)
  BY WorldHasNoStray, NewDisplayOnSeatZero
<1>3. Goes(V)
  BY <1>1, <1>2, CreatedGoes
<1> QED BY <1>3

LEMMA WaitToFinishTimeoutGoes ==
    ASSUME FineBut(World, {}), seats \subseteq OtherSeats, WaitToFinishTimeout
    PROVE  \E V : Goes(V)
<1>1. PICK V \in FinishWaiting(World) : Becomes(V)
  BY DEF WaitToFinishTimeout
<1>2. FineBut(V, {}) /\ Rest(World, V, {})
  BY FinishWaitingResult
<1>3. Goes(V)
  BY <1>1, <1>2, RestAllSteady DEF Goes
<1> QED BY <1>3

LEMMA StaysGoes ==
    ASSUME FineBut(World, {}), UNCHANGED <<disp, idles, used, fails, autod, did>>
    PROVE  Goes(World)
<1>1. Becomes(World)
  BY WorldIsWorld DEF Becomes
<1>2. Steady(World, World)
  BY DEF Steady
<1> QED BY <1>1, <1>2 DEF Goes

(* First one display that has not ended gets another record, with no end   *)
(* and no login, and then of all of them what a handler may change.        *)
LEMMA CalmThenRest ==
    ASSUME FineBut(World, {}), NEW d \in Displays, NEW s \in Display, NEW W, W = Recorded(World, d, s),
           NEW V, Rest(W, V, {}), disp[d].stored, s.stored, s.class = disp[d].class,
           disp[d].status \notin Ended, s.status \notin Ended, LogsIn(s) => LogsIn(disp[d])
    PROVE  Steady(World, V)
<1>1. World \in Worlds /\ World.disp = disp
  BY WorldIsWorld DEF FineBut
<1>2. /\ W.disp[d] = s /\ W.autod = World.autod /\ W.did = World.did
      /\ Others(World, W, d)
  BY <1>1, RecordedWorld
<1>3. \A e \in Displays : Spared(W.disp[e], V.disp[e])
  BY DEF Rest
<1>4. V.autod = World.autod /\ V.did = World.did
  BY <1>2 DEF Rest
<1>5. ASSUME NEW e \in Displays, World.disp[e].stored, World.disp[e].status \in Ended
      PROVE  V.disp[e].status \in Ended
  <2>1. e # d
    BY <1>1, <1>5
  <2>2. W.disp[e] = World.disp[e]
    BY <1>2, <2>1 DEF Others
  <2> QED BY <1>3, <1>5, <2>2 DEF Spared
<1>6. ASSUME NEW e \in Displays, World.disp[e].stored, World.disp[e].class = "user",
             World.disp[e].status # "FINISHED", V.disp[e].status = "FINISHED"
      PROVE  FALSE
  <2>1. CASE e = d
    <3>1. V.disp[d] = s
      BY <1>1, <1>2, <1>3, <1>6, <2>1 DEF Spared
    <3> QED BY <1>6, <2>1, <3>1 DEF Ended
  <2>2. CASE e # d
    <3>1. W.disp[e] = World.disp[e]
      BY <1>2, <2>2 DEF Others
    <3> QED BY <1>3, <1>6, <3>1 DEF Spared
  <2> QED BY <2>1, <2>2
<1>7. ASSUME World.did, World.autod = NoDisplay, NEW e \in Displays, LogsIn(V.disp[e])
      PROVE  LogsIn(World.disp[e])
  <2>1. LogsIn(W.disp[e])
    BY <1>2, <1>7 DEF Rest
  <2> QED BY <1>1, <1>2, <2>1 DEF Others
<1> QED BY <1>4, <1>5, <1>6, <1>7 DEF Steady

LEMMA RecordedIsFine ==
    ASSUME FineBut(World, {}), NEW d \in Displays, NEW s \in Display, NEW V, V = Recorded(World, d, s),
           RecordOK(s), SourcesOK(V, d), autod = d => AutoOK(V, d)
    PROVE  FineBut(V, {})
<1>1. FineBut(World, {d}) /\ World.autod = autod
  BY FineSplits, WorldIsWorld
<1>2. Rewritten(World, V, d, s)
  BY <1>1, RecordedKeepsFine
<1>3. /\ FineBut(V, {d}) /\ V.disp[d] = s /\ V.autod = autod
  BY <1>1, <1>2 DEF Rewritten
<1>4. AutoOK(V, d)
  BY <1>3 DEF AutoOK
<1> QED BY <1>3, <1>4, FineSplits DEF Fine

LEMMA RegisterSessionGoes ==
    ASSUME FineBut(World, {}), seats \subseteq OtherSeats, NEW d \in Displays, RegisterSession(d)
    PROVE  \E V : Goes(V)
<1> DEFINE r == disp[d]
           s == [r EXCEPT !.registered = TRUE]
           W == [World EXCEPT !.disp[d].registered = TRUE]
<1>1. r.stored /\ r.status \in {"MANAGED", "WAITING_TO_FINISH"} /\ \E V \in FinishWaiting(W) : Becomes(V)
  BY DEF RegisterSession, Callback
<1>2. PICK V \in FinishWaiting(W) : Becomes(V)
  BY <1>1
<1>3. Known(d) /\ World \in Worlds /\ World.disp = disp
  BY InvKnows, WorldIsWorld
<1>4. r \in Display /\ RecordOK(r)
  BY <1>3 DEF Known
<1>5. s \in Display
  BY <1>4, DisplayUpdates
<1>6. W = Recorded(World, d, s)
  BY <1>3 DEF Recorded, Worlds
<1>7. /\ s.seat = r.seat /\ s.class = r.class /\ s.initial = r.initial /\ s.setup = r.setup
      /\ s.stored = r.stored /\ s.registered /\ s.env = r.env /\ s.window = r.window
      /\ s.sess = r.sess /\ s.num = r.num /\ s.leaked = r.leaked /\ s.status = r.status
      /\ s.server = r.server
  BY <1>4 DEF Display
<1> HIDE DEF r, s, W
<1>8. RecordOK(s) /\ (LogsIn(s) => LogsIn(r))
  BY <1>1, <1>4, <1>7 DEF RecordOK, GoneIsEmpty, SeatZeroOK, SessionOK, ServerOK, LogsIn
<1>9. W.disp[d] = s /\ W.idles = World.idles /\ W.autod = autod
      /\ \A op : Queued(W, op, d) <=> Queued(World, op, d)
  BY <1>5, <1>6, RecordedIdles
<1>10. SourcesOK(W, d)
  BY <1>1, <1>3, <1>7, <1>9 DEF Known, SourcesOK, Ended, r
<1>11. autod = d => AutoOK(W, d)
  BY <1>3, <1>7, <1>9 DEF Known, AutoOK, Ended, r
<1>12. FineBut(W, {})
  BY <1>5, <1>6, <1>8, <1>10, <1>11, RecordedIsFine
<1>13. FineBut(V, {}) /\ Rest(W, V, {})
  BY <1>2, <1>12, FinishWaitingResult
<1>14. r.status \notin Ended /\ s.status \notin Ended
  BY <1>1, <1>7 DEF Ended
<1>15. Steady(World, V)
  BY <1>1, <1>5, <1>6, <1>7, <1>8, <1>13, <1>14, CalmThenRest DEF r
<1> QED BY <1>2, <1>13, <1>15 DEF Goes

(* A login screen of seat0 that is left waits in the background.           *)
LEMMA BackgroundResult ==
    ASSUME FineBut(World, {}), NEW login \in LoginWindows(World, Seat0),
           NEW W, W \in {World, Background(World, login)}, NEW V, Created(W, V) \/ V = W, Becomes(V)
    PROVE  Goes(V)
<1> DEFINE d == login
           r == disp[d]
           s == [r EXCEPT !.status = "WAITING_TO_FINISH"]
           B == [World EXCEPT !.disp[d].status = "WAITING_TO_FINISH"]
<1>1. d \in Displays /\ r.seat = Seat0
  BY WorldIsWorld DEF LoginWindows
<1>2. CASE W = World
  <2>1. CASE V = W
    <3>1. UNCHANGED <<disp, idles, used, fails, autod, did>>
      BY <1>2, <2>1, WorldIsWorld DEF Becomes
    <3> QED BY <1>2, <2>1, <3>1, StaysGoes
  <2> QED BY <1>2, <2>1, CreatedGoes
<1>3. CASE W # World
  <2>1. r.stored /\ r.class = "greeter" /\ r.status = "MANAGED" /\ W = B
    BY <1>3 DEF Background
  <2>2. Known(d) /\ World \in Worlds /\ World.disp = disp
    BY <1>1, InvKnows, WorldIsWorld
  <2>3. r \in Display /\ RecordOK(r)
    BY <2>2 DEF Known
  <2>4. s \in Display
    BY <2>3, DisplayUpdates DEF Statuses
  <2>5. W = Recorded(World, d, s)
    BY <2>1, <2>2 DEF Recorded, Worlds
  <2>6. /\ s.seat = r.seat /\ s.class = r.class /\ s.initial = r.initial /\ s.setup = r.setup
        /\ s.stored = r.stored /\ s.registered = r.registered /\ s.env = r.env /\ s.window = r.window
        /\ s.sess = r.sess /\ s.num = r.num /\ s.leaked = r.leaked /\ s.status = "WAITING_TO_FINISH"
        /\ s.server = r.server
    BY <2>3 DEF Display
  <2> HIDE DEF r, s, B
  <2>7. RecordOK(s) /\ (LogsIn(s) => LogsIn(r))
    BY <1>1, <2>1, <2>3, <2>6 DEF RecordOK, GoneIsEmpty, SeatZeroOK, SessionOK, ServerOK, LogsIn, Ended
  <2>8. W.disp[d] = s /\ W.idles = World.idles /\ W.autod = autod
        /\ \A op : Queued(W, op, d) <=> Queued(World, op, d)
    BY <1>1, <2>4, <2>5, RecordedIdles
  <2>9. SourcesOK(W, d)
    BY ZenonT(40), <1>1, <2>1, <2>2, <2>6, <2>8 DEF Known, SourcesOK, Ended, r
  <2>10. autod = d => AutoOK(W, d)
    BY <2>1, <2>2 DEF Known, r
  <2>11. FineBut(W, {})
    BY <1>1, <2>4, <2>5, <2>7, <2>9, <2>10, RecordedIsFine
  <2>12. FineBut(V, {}) /\ Rest(W, V, {})
    <3>1. CASE Created(W, V)
      BY <2>11, <3>1, CreatedSteady, CreatedRest
    <3>2. CASE V = W
      BY <2>11, <3>2 DEF Rest, Spared
    <3> QED BY <3>1, <3>2
  <2>13. r.status \notin Ended /\ s.status \notin Ended
    BY <2>1, <2>6 DEF Ended
  <2>14. Steady(World, V)
    BY <1>1, <2>1, <2>4, <2>5, <2>6, <2>7, <2>12, <2>13, CalmThenRest DEF r
  <2> QED BY <2>12, <2>14 DEF Goes
<1> QED BY <1>2, <1>3

LEMMA VtChangedGoes ==
    ASSUME FineBut(World, {}), NEW v, VtChanged(v)
    PROVE  \E V : Goes(V)
<1> DEFINE ws == LoginWindows(World, Seat0)
           left(login) == IF login # NoDisplay /\ VtOf(login) = active
                            THEN Background(World, login) ELSE World
<1>1. PICK login \in IF ws = {} THEN {NoDisplay} ELSE ws :
        \E V \in IF v = "initial" THEN CreateDisplay(left(login), Seat0, TRUE)
                 ELSE {left(login)} : Becomes(V)
  BY DEF VtChanged
<1> DEFINE W == left(login)
<1>2. PICK V : /\ Becomes(V)
               /\ V \in CreateDisplay(W, Seat0, TRUE) \/ V = W
  BY <1>1
<1>3. W \in {World, Background(World, login)} /\ (login \notin ws => W = World)
  BY <1>1
<1>4. W.idles = World.idles /\ W \in Worlds /\ NoStraySource(W)
  <2>1. World \in Worlds /\ NoStraySource(World)
    BY WorldHasNoStray
  <2>2. CASE W = World
    BY <2>1, <2>2
  <2>3. CASE W # World
    <3> DEFINE s == [disp[login] EXCEPT !.status = "WAITING_TO_FINISH"]
    <3>1. login \in Displays /\ W = [World EXCEPT !.disp[login].status = "WAITING_TO_FINISH"]
      BY <1>3, <2>3 DEF Background, LoginWindows
    <3>2. disp[login] \in Display /\ World.disp = disp
      BY <3>1, <2>1, WorldIsWorld DEF Worlds
    <3>3. s \in Display /\ s.stored = disp[login].stored
      <4>1. s \in Display
        BY <3>2, DisplayUpdates DEF Statuses
      <4> QED BY <3>2, <4>1 DEF Display
    <3>4. W = Recorded(World, login, s)
      BY <2>1, <3>1, <3>2 DEF Recorded, Worlds
    <3>6. login \in Displays /\ World \in Worlds
      BY <2>1, <3>1
    <3> HIDE DEF s, W
    <3>5. W \in Worlds /\ W.disp[login] = s /\ Others(World, W, login) /\ W.idles = World.idles
      BY ONLY <3>3, <3>4, <3>6, RecordedWorld
    <3> QED BY <2>1, <3>2, <3>3, <3>5 DEF NoStraySource, Others
  <2> QED BY <2>2, <2>3
<1>5. QueueOK(W.idles) /\ Seat0 \in SeatNames /\ TRUE \in BOOLEAN
  BY <1>4, WorldHasNoStray DEF SeatNames
<1> HIDE DEF W
<1>6. Created(W, V) \/ V = W
  BY <1>2, <1>4, <1>5, CreateDisplayResult
<1>7. CASE login \in ws
  BY <1>2, <1>3, <1>6, <1>7, BackgroundResult
<1>8. CASE login \notin ws
  <2>1. W = World
    BY <1>3, <1>8
  <2>2. CASE V = W
    <3>1. UNCHANGED <<disp, idles, used, fails, autod, did>>
      BY <1>2, <2>1, <2>2, WorldIsWorld DEF Becomes
    <3> QED BY <2>1, <2>2, <3>1, StaysGoes
  <2>3. CASE Created(W, V)
    BY <1>2, <2>1, <2>3, CreatedGoes
  <2> QED BY <1>6, <2>2, <2>3
<1> QED BY <1>7, <1>8

(***************************************************************************)
(* The idle sources.                                                       *)
(***************************************************************************)
(* The source e of d is taken from the queue.                              *)
Popped(d, e) ==
    /\ IdleDone \in Worlds /\ QueueOK(IdleDone.idles)
    /\ FineBut(IdleDone, {d}) /\ Rest(World, IdleDone, {d})
    /\ IdleDone.disp = disp /\ IdleDone.autod = autod /\ IdleDone.did = did
    /\ \A x : x # e => (x \in Range(IdleDone.idles) <=> x \in Range(World.idles))
    /\ e \in Range(World.idles) /\ e \notin Range(IdleDone.idles)

LEMMA IdleDoneWorld ==
    ASSUME World \in Worlds, QueueOK(idles), idles # <<>>
    PROVE  /\ IdleDone \in Worlds /\ QueueOK(IdleDone.idles)
           /\ IdleDone.disp = disp /\ IdleDone.autod = autod /\ IdleDone.did = did
           /\ IdleDone.used = used /\ IdleDone.fails = fails
           /\ Head(idles) \in Entries
           /\ Range(idles) = Range(IdleDone.idles) \cup {Head(idles)}
           /\ Head(idles).d # NoDisplay => Head(idles) \notin Range(IdleDone.idles)
<1>1. /\ QueueOK(Tail(idles)) /\ Head(idles) \in Entries
      /\ Range(idles) = Range(Tail(idles)) \cup {Head(idles)}
      /\ Head(idles).d # NoDisplay => Head(idles) \notin Range(Tail(idles))
  BY TailQueue
<1>2. Tail(idles) \in Seq(Entries)
  BY <1>1 DEF QueueOK
<1> DEFINE q == Tail(idles)
<1>3. IdleDone = [World EXCEPT !.idles = q]
  BY WorldIsWorld DEF IdleDone
<1> HIDE DEF q
<1>4. /\ IdleDone.idles = q /\ IdleDone.disp = World.disp /\ IdleDone.autod = World.autod
      /\ IdleDone.did = World.did /\ IdleDone.used = World.used /\ IdleDone.fails = World.fails
  BY <1>3 DEF World
<1>5. IdleDone \in Worlds
  BY <1>2, <1>3 DEF Worlds, q
<1> QED BY <1>1, <1>4, <1>5, WorldIsWorld DEF q

LEMMA EntryOf ==
    ASSUME NEW e \in Entries
    PROVE  /\ e.op = "finish" => e.d \in Displays /\ e = FinishOf(e.d)
           /\ e.op = "ready" => e.d \in Displays /\ e = ReadyOf(e.d)
           /\ e.op = "start" /\ e.d # NoDisplay => e.d \in Displays /\ e = StartOf(e.d)
           /\ e.op = "purge" => e = Purge
<1>1. CASE e \in {Purge, [op |-> "start elsewhere", d |-> NoDisplay]}
  <2>1. CASE e = Purge
    <3>1. e.op = "purge"
      BY <2>1 DEF Purge
    <3> QED BY <2>1, <3>1
  <2>2. CASE e = [op |-> "start elsewhere", d |-> NoDisplay]
    <3>1. e.op = "start elsewhere"
      BY <2>2
    <3> QED BY <3>1
  <2> QED BY <1>1, <2>1, <2>2
<1>2. CASE e \in [op : {"finish", "ready"}, d : Displays]
  BY <1>2 DEF FinishOf, ReadyOf
<1>3. CASE e \in [op : {"start"}, d : Displays \cup {NoDisplay}]
  <2>1. e = [op |-> "start", d |-> e.d] /\ e.op = "start" /\ e.d \in Displays \cup {NoDisplay}
    BY <1>3
  <2> QED BY <2>1 DEF StartOf
<1> QED BY <1>1, <1>2, <1>3 DEF Entries

LEMMA EntryTypes ==
    ASSUME NEW e \in Entries
    PROVE  /\ e \in [op : {"finish", "purge", "ready", "start", "start elsewhere"},
                     d : Displays \cup {NoDisplay}]
           /\ e.d # NoDisplay => e.op \in {"finish", "ready", "start"}
<1>1. CASE e = Purge
  BY <1>1 DEF Purge
<1>2. CASE e = [op |-> "start elsewhere", d |-> NoDisplay]
  BY <1>2
<1>3. CASE e \in [op : {"finish", "ready"}, d : Displays]
  BY <1>3
<1>4. CASE e \in [op : {"start"}, d : Displays \cup {NoDisplay}]
  BY <1>4
<1> QED BY <1>1, <1>2, <1>3, <1>4 DEF Entries

LEMMA PoppedSource ==
    ASSUME FineBut(World, {}), NEW d \in Displays, idles # <<>>, Head(idles) \in OwnSources(d)
    PROVE  Popped(d, Head(idles))
<1> DEFINE e == Head(idles)
           W == IdleDone
<1>1. World \in Worlds /\ QueueOK(World.idles) /\ FineBut(World, {d})
  BY FineSplits, InvKnows
<1>2. World.disp = disp /\ World.idles = idles /\ World.autod = autod /\ World.did = did
  BY WorldIsWorld
<1>3. e.d = d /\ d # NoDisplay
  BY DisplaysAssumption DEF OwnSources, FinishOf, ReadyOf, StartOf
<1>4. QueueOK(idles)
  BY <1>1, <1>2
<1>5. /\ W \in Worlds /\ QueueOK(W.idles)
      /\ W.disp = disp /\ W.autod = autod /\ W.did = did
      /\ Range(idles) = Range(W.idles) \cup {e} /\ e \notin Range(W.idles)
  BY <1>1, <1>3, <1>4, IdleDoneWorld
<1> HIDE DEF e, W
<1>6. Others(World, W, d)
  BY <1>2, <1>5 DEF Others
<1>7. /\ Range(World.idles) \ OwnSources(d) \subseteq Range(W.idles)
      /\ Range(W.idles) \subseteq Range(World.idles) \cup OwnSources(d) \cup {Purge}
  BY <1>2, <1>5 DEF e
<1>8. FineBut(W, {d})
  BY <1>1, <1>2, <1>5, <1>6, <1>7, OneChanges
<1>9. Rest(World, W, {d})
  BY <1>2, <1>5, <1>6, OthersRest
<1> QED BY <1>2, <1>5, <1>8, <1>9 DEF Popped, e, W

LEMMA FinishIdleGoes ==
    ASSUME FineBut(World, {}), seats \subseteq OtherSeats, FinishIdle
    PROVE  \E V : Goes(V)
<1> DEFINE d == Head(idles).d
           r == disp[d]
           W == IdleDone
<1>1. idles # <<>> /\ Head(idles).op = "finish" /\ \E V \in Finish(W, d) : Becomes(V)
  BY DEF FinishIdle, IdleIs, Callback
<1>2. PICK V \in Finish(W, d) : Becomes(V)
  BY <1>1
<1>3. World \in Worlds /\ QueueOK(idles)
  BY WorldHasNoStray, WorldIsWorld
<1>4. d \in Displays /\ Head(idles) = FinishOf(d)
  BY <1>1, <1>3, IdleDoneWorld, EntryOf
<1>5. Popped(d, FinishOf(d))
  BY <1>1, <1>4, PoppedSource DEF OwnSources
<1>6. Known(d)
  BY <1>4, InvKnows
<1> HIDE DEF W, r, d
<1>7. /\ QueueOK(W.idles)
      /\ FineBut(W, {d}) /\ Rest(World, W, {d}) /\ W.disp[d] = r /\ W.autod = autod
      /\ FinishOf(d) \in Range(World.idles)
  BY <1>5 DEF Popped, W, r
<1>8. /\ StartOf(d) \in Range(W.idles) => StartOf(d) \in Range(World.idles)
      /\ ReadyOf(d) \in Range(W.idles) => ReadyOf(d) \in Range(World.idles)
      /\ Purge \in Range(World.idles) => Purge \in Range(W.idles)
  <2>1. StartOf(d) # FinishOf(d) /\ ReadyOf(d) # FinishOf(d) /\ Purge # FinishOf(d)
    BY <1>4, EntriesOfDisplays DEF StartOf, ReadyOf, FinishOf
  <2> QED BY <1>5, <2>1 DEF Popped, W
<1>9. /\ r \in Display /\ RecordOK(r)
      /\ r.stored /\ r.env \in {"none", "exited", "stopped"}
      /\ IF r.seat = Seat0 THEN r.class = "greeter" ELSE r.status # "MANAGED"
      /\ ReadyOf(d) \in Range(World.idles) => r.server = "signalled"
      /\ StartOf(d) \in Range(World.idles) => r.sess \in {"starting", "autostart"}
      /\ r.status \in Ended => Purge \in Range(World.idles)
      /\ autod = d => r.seat = Seat0 /\ r.class = "user"
  BY <1>6, <1>7 DEF Known, Queued, FinishOf, ReadyOf, StartOf, r
<1>10. ~LogsIn(r) /\ r.server \notin {"starting", "signalled"} /\ (r.server # "none" => ~r.registered)
  BY <1>9 DEF RecordOK, SessionOK, ServerOK, SeatZeroOK
<1>11. Finished(W, V, d)
  BY <1>2, <1>4, <1>7, <1>9, FinishResult
<1> DEFINE s == V.disp[d]
<1>12. /\ FineBut(V, {d}) /\ Rest(W, V, {d}) /\ s = FinishedRecord(r)
       /\ FinishOf(d) \notin Range(V.idles)
       /\ StartOf(d) \in Range(V.idles) => StartOf(d) \in Range(World.idles)
       /\ ReadyOf(d) \in Range(V.idles) => ReadyOf(d) \in Range(World.idles)
       /\ Purge \in Range(World.idles) => Purge \in Range(V.idles)
       /\ r.status # "FINISHED" => Purge \in Range(V.idles)
  BY <1>7, <1>8, <1>11 DEF Finished
<1> HIDE DEF s
<1>13. SameButStatus(r, s) /\ s.status = "FINISHED" /\ s.server = r.server
  BY <1>9, <1>12, EndedRecords
<1>14. /\ s.seat = r.seat /\ s.class = r.class /\ s.stored /\ s.registered = r.registered /\ s.env = r.env
       /\ s.sess = r.sess /\ s.num = r.num /\ s.leaked = r.leaked
  BY <1>9, <1>13 DEF SameButStatus
<1>15. RecordOK(s) /\ ~LogsIn(s)
  <2>1. ~LogsIn(s)
    BY <1>10, <1>14 DEF LogsIn
  <2> QED BY <1>9, <1>10, <1>13, <1>14, <2>1
       DEF RecordOK, GoneIsEmpty, SeatZeroOK, SessionOK, ServerOK, Ended, Alive
<1>16. SourcesOK(V, d)
  <2>1. Purge \in Range(V.idles)
    BY <1>9, <1>12 DEF Ended
  <2>2. ReadyOf(d) \notin Range(V.idles)
    BY <1>9, <1>10, <1>12
  <2>3. StartOf(d) \in Range(V.idles) => s.sess \in {"starting", "autostart"}
    BY <1>9, <1>12, <1>14
  <2> QED BY <1>12, <1>13, <1>14, <2>1, <2>2, <2>3 DEF SourcesOK, Queued, FinishOf, ReadyOf, StartOf, Ended, s
<1>17. autod # d /\ V.autod # d
  <2>1. autod # d
    BY <1>9
  <2> QED BY <1>7, <1>12, <2>1 DEF Rest
<1>18. Fine(V, d)
  BY <1>15, <1>16, <1>17 DEF Fine, AutoOK, s
<1>19. Rest(World, V, {d})
  BY <1>4, <1>7, <1>12, RestTwice
<1>20. V.disp[d].status \in Ended /\ ~LogsIn(V.disp[d])
  BY <1>13, <1>15 DEF Ended, s
<1>21. ~(r.class = "user" /\ r.seat = Seat0)
  BY <1>9
<1> QED BY <1>2, <1>4, <1>12, <1>17, <1>18, <1>19, <1>20, <1>21, EndSteady DEF r

(* A source of d that is ready: the sources that d has.                    *)
LEMMA ReadyIdleKnows ==
    ASSUME FineBut(World, {}), ReadyIdle, NEW d, d = Head(idles).d
    PROVE  /\ d \in Displays /\ Popped(d, ReadyOf(d)) /\ autod # d
           /\ disp[d] \in Display /\ RecordOK(disp[d]) /\ disp[d].stored /\ disp[d].server = "signalled"
           /\ disp[d].class = "greeter" /\ disp[d].status = "PREPARED" /\ ~disp[d].registered
           /\ disp[d].env = "ready" /\ disp[d].sess = "none" /\ disp[d].seat # Seat0 /\ ~disp[d].leaked
           /\ {FinishOf(d), StartOf(d), ReadyOf(d)} \cap Range(IdleDone.idles) = {}
<1> DEFINE r == disp[d]
<1>1. idles # <<>> /\ Head(idles).op = "ready"
  BY DEF ReadyIdle, IdleIs
<1>2. World \in Worlds /\ QueueOK(idles)
  BY WorldHasNoStray, WorldIsWorld
<1>3. d \in Displays /\ Head(idles) = ReadyOf(d)
  BY <1>1, <1>2, IdleDoneWorld, EntryOf
<1>4. Popped(d, ReadyOf(d))
  BY <1>1, <1>3, PoppedSource DEF OwnSources
<1>5. Known(d)
  BY <1>3, InvKnows
<1> HIDE DEF r
<1>6. ReadyOf(d) \in Range(World.idles) /\ ReadyOf(d) \notin Range(IdleDone.idles)
  BY <1>4 DEF Popped
<1>7. r \in Display /\ RecordOK(r) /\ r.server = "signalled" /\ r.stored
  BY <1>5, <1>6 DEF Known, Queued, ReadyOf, r
<1>8. /\ r.class = "greeter" /\ r.status = "PREPARED" /\ ~r.registered
      /\ r.env = "ready" /\ r.sess = "none" /\ r.seat # Seat0 /\ ~r.leaked
  BY <1>7 DEF RecordOK, SeatZeroOK, ServerOK
<1>9. autod # d /\ FinishOf(d) \notin Range(World.idles) /\ StartOf(d) \notin Range(World.idles)
  BY <1>5, <1>8 DEF Known, Queued, FinishOf, StartOf, r
<1>10. FinishOf(d) \notin Range(IdleDone.idles) /\ StartOf(d) \notin Range(IdleDone.idles)
  <2>1. FinishOf(d) # ReadyOf(d) /\ StartOf(d) # ReadyOf(d)
    BY DEF FinishOf, StartOf, ReadyOf
  <2> QED BY <1>4, <1>9, <2>1 DEF Popped
<1> QED BY <1>3, <1>4, <1>6, <1>7, <1>8, <1>9, <1>10 DEF r

LEMMA ReadyIdleGoes ==
    ASSUME FineBut(World, {}), ReadyIdle
    PROVE  \E V : Goes(V)
<1> DEFINE d == Head(idles).d
           r == disp[d]
           w == [r EXCEPT !.server = "up"]
           W == [IdleDone EXCEPT !.disp[d].server = "up"]
<1>1. PICK V \in Unmanage(W, d) \cup Connected(W, d) : Becomes(V)
  BY DEF ReadyIdle, Callback
<1>2. /\ d \in Displays /\ Popped(d, ReadyOf(d)) /\ autod # d
      /\ r \in Display /\ RecordOK(r) /\ r.stored
      /\ r.class = "greeter" /\ r.status = "PREPARED" /\ ~r.registered
      /\ r.env = "ready" /\ r.sess = "none" /\ r.seat # Seat0 /\ ~r.leaked
      /\ {FinishOf(d), StartOf(d), ReadyOf(d)} \cap Range(IdleDone.idles) = {}
  BY ReadyIdleKnows
<1>3. /\ IdleDone \in Worlds /\ FineBut(IdleDone, {d}) /\ Rest(World, IdleDone, {d})
      /\ IdleDone.disp = disp /\ IdleDone.autod = autod /\ IdleDone.did = did
  BY <1>2 DEF Popped
<1>4. w \in Display
  BY <1>2, DisplayUpdates DEF Servers
<1>5. W = Recorded(IdleDone, d, w)
  <2> HIDE DEF d
  <2> QED BY <1>3 DEF Recorded, Worlds
<1>6. /\ w.seat = r.seat /\ w.class = r.class /\ w.initial = r.initial /\ w.setup = r.setup
      /\ w.stored = r.stored /\ w.registered = r.registered /\ w.env = r.env /\ w.window = r.window
      /\ w.sess = r.sess /\ w.num = r.num /\ w.leaked = r.leaked /\ w.status = r.status
      /\ w.server = "up"
  BY <1>2 DEF Display
<1> HIDE DEF d, r, w, W
<1>7. Rewritten(IdleDone, W, d, w)
  BY <1>2, <1>3, <1>4, <1>5, RecordedKeepsFine
<1>8. /\ FineBut(W, {d}) /\ Rest(World, W, {d}) /\ W.disp[d] = w /\ W.autod = autod /\ W.did = did
      /\ {FinishOf(d), StartOf(d), ReadyOf(d)} \cap Range(W.idles) = {}
  <2>1. /\ FineBut(W, {d}) /\ Rest(IdleDone, W, {d}) /\ W.disp[d] = w /\ W.idles = IdleDone.idles
        /\ W.autod = autod /\ W.did = did
    BY <1>3, <1>7 DEF Rewritten
  <2>2. Rest(World, W, {d})
    BY <1>2, <1>3, <2>1, RestTwice
  <2> QED BY <1>2, <2>1, <2>2
<1>9. W \in Worlds /\ QueueOK(W.idles) /\ W.disp[d].stored
  BY <1>2, <1>6, <1>8 DEF FineBut, QueueOK, Worlds
<1>10. ASSUME FineBut(V, {d}), Rest(World, V, {d}), Fine(V, d), ~LogsIn(V.disp[d])
       PROVE  Goes(V)
  BY <1>1, <1>2, <1>10, EndSteady DEF Ended, r
<1>11. CASE V \in Unmanage(W, d)
  <2>1. Unmanaged(W, V, d)
    BY <1>2, <1>8, <1>9, <1>11, UnmanageResult
  <2> DEFINE s == V.disp[d]
  <2>2. FineBut(V, {d}) /\ Rest(W, V, {d}) /\ s = UnmanagedRecord(w) /\ Purge \in Range(V.idles)
        /\ {FinishOf(d), StartOf(d), ReadyOf(d)} \cap Range(V.idles) = {}
    <3>1. ~w.registered /\ w.status # "FAILED"
      BY <1>2, <1>6
    <3> QED BY <1>8, <2>1, <3>1 DEF Unmanaged
  <2> HIDE DEF s
  <2>3. SameButStatus(w, s) /\ s.status = "FAILED" /\ s.server = "up"
    BY <1>2, <1>4, <1>6, <2>2, EndedRecords DEF Stops
  <2>4. Rest(World, V, {d})
    BY <1>2, <1>8, <2>2, RestTwice
  <2>5. /\ s.seat # Seat0 /\ s.class = "greeter" /\ s.stored /\ ~s.registered /\ s.env = "ready"
        /\ s.sess = "none" /\ ~s.leaked
    BY <1>2, <1>6, <2>3 DEF SameButStatus
  <2>6. RecordOK(s) /\ ~LogsIn(s)
    BY <2>3, <2>5 DEF RecordOK, GoneIsEmpty, SeatZeroOK, SessionOK, ServerOK, LogsIn
  <2>7. SourcesOK(V, d)
    BY <2>2, <2>3, <2>5 DEF SourcesOK, Queued, FinishOf, ReadyOf, StartOf, Ended, s
  <2>8. V.autod # d
    BY <1>2, <1>3, <2>4, WorldIsWorld DEF Rest
  <2>9. Fine(V, d)
    BY <2>6, <2>7, <2>8 DEF Fine, AutoOK, s
  <2> QED BY <1>10, <2>2, <2>4, <2>6, <2>9 DEF s
<1>12. CASE V \in Connected(W, d)
  <2> DEFINE m == [w EXCEPT !.status = "MANAGED"]
             M == [W EXCEPT !.disp[d].status = "MANAGED"]
  <2>1. V \in SetUpSession(M, d)
    BY <1>12 DEF Connected
  <2>2. m \in Display
    BY <1>4, DisplayUpdates DEF Statuses
  <2>3. M = Recorded(W, d, m)
    BY <1>8, <1>9 DEF Recorded, Worlds
  <2>4. /\ m.seat = r.seat /\ m.class = r.class /\ m.initial = r.initial /\ m.setup = r.setup
        /\ m.stored = r.stored /\ m.registered = r.registered /\ m.env = r.env /\ m.window = r.window
        /\ m.sess = r.sess /\ m.num = r.num /\ m.leaked = r.leaked /\ m.status = "MANAGED"
        /\ m.server = "up"
    BY <1>4, <1>6 DEF Display
  <2> HIDE DEF m, M
  <2>5. Rewritten(W, M, d, m)
    BY <1>2, <1>8, <2>2, <2>3, RecordedKeepsFine
  <2>6. FineBut(M, {d}) /\ Rest(W, M, {d}) /\ M.disp[d] = m /\ M.idles = W.idles /\ M.autod = autod /\ M.did = did
    BY <1>8, <2>5 DEF Rewritten
  <2>7. M \in Worlds /\ QueueOK(M.idles)
    BY <2>6 DEF FineBut, QueueOK, Worlds
  <2>8. SetUp(M, V, d)
    BY <1>2, <2>1, <2>7, SetUpSessionResult
  <2> DEFINE s == V.disp[d]
             fresh == [m EXCEPT !.sess = "fresh", !.env = "starting"]
  <2>9. /\ V \in Worlds /\ QueueOK(V.idles) /\ Others(M, V, d) /\ V.autod = M.autod /\ V.did = M.did
        /\ \/ s = fresh /\ V.idles = M.idles
           \/ s = FinishedRecord(m) /\ Range(V.idles) = (Range(M.idles) \ {FinishOf(d)}) \cup {Purge}
    <3>1. m.seat # Seat0
      BY <1>2, <2>4
    <3> QED BY <2>6, <2>8, <3>1 DEF SetUp, FinishedRecord
  <2>10. /\ fresh.seat = r.seat /\ fresh.class = r.class /\ fresh.stored = r.stored
         /\ fresh.registered = r.registered /\ fresh.env = "starting" /\ fresh.sess = "fresh"
         /\ fresh.leaked = r.leaked /\ fresh.status = "MANAGED" /\ fresh.server = "up"
    BY <2>2, <2>4 DEF Display
  <2> HIDE DEF s, fresh
  <2>11. /\ s.seat # Seat0 /\ s.class = "greeter" /\ s.stored /\ ~s.registered /\ s.server = "up"
         /\ s.sess \in {"none", "fresh"} /\ ~s.leaked /\ s.env \in {"ready", "starting"}
         /\ \/ s.status = "MANAGED"
            \/ s.status = "FINISHED" /\ Purge \in Range(V.idles)
    <3>1. CASE s = fresh
      BY <1>2, <2>10, <3>1
    <3>2. CASE s = FinishedRecord(m) /\ Purge \in Range(V.idles)
      <4>1. SameButStatus(m, s) /\ s.status = "FINISHED" /\ s.server = m.server
        BY <2>2, <3>2, EndedRecords
      <4> QED BY <1>2, <2>4, <3>2, <4>1 DEF SameButStatus
    <3> QED BY <2>9, <3>1, <3>2
  <2>12. RecordOK(s) /\ ~LogsIn(s)
    BY <2>11 DEF RecordOK, GoneIsEmpty, SeatZeroOK, SessionOK, ServerOK, LogsIn
  <2>13. {FinishOf(d), StartOf(d), ReadyOf(d)} \cap Range(V.idles) = {}
    BY <1>2, <1>8, <2>6, <2>9, EntriesOfDisplays
  <2>14. FineBut(V, {d})
    <3>1. /\ Range(M.idles) \ OwnSources(d) \subseteq Range(V.idles)
          /\ Range(V.idles) \subseteq Range(M.idles) \cup OwnSources(d) \cup {Purge}
      BY <2>9 DEF OwnSources
    <3> QED BY <1>2, <2>6, <2>9, <3>1, OneChanges
  <2>15. Rest(World, V, {d})
    <3>1. Rest(M, V, {d})
      BY <1>2, <2>9, OthersRest
    <3>2. Rest(World, M, {d})
      BY <1>2, <1>8, <2>6, RestTwice
    <3> QED BY <1>2, <3>1, <3>2, RestTwice
  <2>16. SourcesOK(V, d)
    BY <2>11, <2>13 DEF SourcesOK, Queued, FinishOf, ReadyOf, StartOf, Ended, s
  <2>17. Fine(V, d)
    BY <1>2, <2>6, <2>9, <2>12, <2>16 DEF Fine, AutoOK, s
  <2> QED BY <1>10, <2>12, <2>14, <2>15, <2>17 DEF s
<1> QED BY <1>1, <1>11, <1>12

(***************************************************************************)
(* Displays that go.                                                       *)
(***************************************************************************)
Dangling(q, gone) == {e \in Range(q) : e.d \in gone /\ e.op \in {"finish", "ready"}}

Cleaned(W, gone, e) ==
    IF e.d \notin gone THEN e
    ELSE [op |-> IF W.disp[e.d].seat = Seat0 THEN "start" ELSE "start elsewhere", d |-> NoDisplay]

CleanQueue(W, gone) ==
    LET kept == Without(W.idles, Dangling(W.idles, gone))
    IN [i \in 1..Len(kept) |-> Cleaned(W, gone, kept[i])]

(* The queue p has what q has, but for the displays that are gone.         *)
NothingOf(gone, p, q) ==
    /\ \A d \in gone : OwnSources(d) \cap Range(p) = {}
    /\ \A x \in UNION {OwnSources(d) : d \in Displays \ gone} : x \in Range(p) <=> x \in Range(q)
    /\ Purge \in Range(p) <=> Purge \in Range(q)
    /\ \A x \in UNION {OwnSources(d) : d \in Displays \ gone} : x \in Early(p) => x \in Early(q)

LEMMA CleanedIsEntry ==
    ASSUME NEW W, NEW gone \in SUBSET Displays, NEW e \in Entries
    PROVE  /\ Cleaned(W, gone, e) \in Entries
           /\ Cleaned(W, gone, e).d \notin gone
           /\ Cleaned(W, gone, e).d # NoDisplay => Cleaned(W, gone, e) = e
           /\ e.d \notin gone => Cleaned(W, gone, e) = e
           /\ Cleaned(W, gone, e) = Purge => e = Purge
<1>0. NoDisplay \notin gone
  BY DisplaysAssumption
<1>1. CASE e.d \notin gone
  <2>1. Cleaned(W, gone, e) = e
    BY <1>1 DEF Cleaned
  <2> QED BY <1>1, <2>1
<1>2. CASE e.d \in gone
  <2> DEFINE op == IF W.disp[e.d].seat = Seat0 THEN "start" ELSE "start elsewhere"
  <2>1. Cleaned(W, gone, e) = [op |-> op, d |-> NoDisplay]
    BY <1>2 DEF Cleaned
  <2>2. op = "start" \/ op = "start elsewhere"
    OBVIOUS
  <2> HIDE DEF op
  <2>3. [op |-> op, d |-> NoDisplay].d = NoDisplay /\ [op |-> op, d |-> NoDisplay].op = op /\ op # "purge"
    BY <2>2
  <2>4. [op |-> op, d |-> NoDisplay] # Purge
    BY <2>3 DEF Purge
  <2>5. [op |-> op, d |-> NoDisplay] \in Entries
    BY <2>2 DEF Entries
  <2> QED BY <1>0, <1>2, <2>1, <2>3, <2>4, <2>5
<1> QED BY <1>1, <1>2

LEMMA CleanQueueResult ==
    ASSUME NEW W, QueueOK(W.idles), NEW gone \in SUBSET Displays
    PROVE  QueueOK(CleanQueue(W, gone)) /\ NothingOf(gone, CleanQueue(W, gone), W.idles)
<1> DEFINE q == W.idles
           E == Dangling(q, gone)
           k == Without(q, E)
           p == CleanQueue(W, gone)
<1>1. QueueOK(k) /\ Range(k) = Range(q) \ E
  BY WithoutQueue
<1>2. p = [i \in 1..Len(k) |-> Cleaned(W, gone, k[i])]
  BY DEF CleanQueue
<1> HIDE DEF q, E, k, p
<1>3. k \in Seq(Entries) /\ Len(k) \in Nat /\ \A i \in 1..Len(k) : k[i] \in Entries
  BY <1>1 DEF QueueOK
<1>4. \A i \in 1..Len(k) : Cleaned(W, gone, k[i]) \in Entries
  BY <1>3, CleanedIsEntry
<1>5. p \in Seq(Entries) /\ Len(p) = Len(k) /\ \A i \in 1..Len(k) : p[i] = Cleaned(W, gone, k[i])
  BY <1>2, <1>3, <1>4
<1>6. Range(k) = {k[i] : i \in 1..Len(k)} /\ Range(p) = {p[i] : i \in 1..Len(k)}
  BY <1>3, <1>5, QueueRange
<1>7. Once(p)
  <2> SUFFICES ASSUME NEW i \in 1..Len(k), NEW j \in 1..Len(k), i # j, p[i] = p[j], p[i].d # NoDisplay
               PROVE  FALSE
    BY <1>5 DEF Once
  <2>1. p[i] = k[i] /\ p[j] = k[j]
    BY <1>3, <1>5, CleanedIsEntry
  <2> QED BY <1>1, <2>1 DEF QueueOK, Once
<1>8. ASSUME NEW d \in gone, NEW x \in OwnSources(d), x \in Range(p)
      PROVE  FALSE
  <2>1. PICK i \in 1..Len(k) : x = Cleaned(W, gone, k[i])
    BY <1>5, <1>6, <1>8
  <2>2. x.d = d
    BY <1>8 DEF OwnSources, FinishOf, ReadyOf, StartOf
  <2> QED BY <1>3, <1>8, <2>1, <2>2, CleanedIsEntry
<1>9. ASSUME NEW d \in Displays \ gone, NEW x \in OwnSources(d)
      PROVE  x \in Range(p) <=> x \in Range(q)
  <2>1. x.d = d /\ d # NoDisplay
    BY <1>9, DisplaysAssumption DEF OwnSources, FinishOf, ReadyOf, StartOf
  <2>2. ASSUME x \in Range(p) PROVE x \in Range(q)
    <3>1. PICK i \in 1..Len(k) : x = Cleaned(W, gone, k[i])
      BY <1>5, <1>6, <2>2
    <3>2. x = k[i]
      BY <1>3, <2>1, <3>1, CleanedIsEntry
    <3> QED BY <1>1, <1>6, <3>2
  <2>3. ASSUME x \in Range(q) PROVE x \in Range(p)
    <3>1. x \notin E
      BY <1>9, <2>1 DEF E, Dangling
    <3>2. PICK i \in 1..Len(k) : x = k[i]
      BY <1>1, <1>6, <2>3, <3>1
    <3>3. p[i] = x
      BY <1>3, <1>5, <1>9, <2>1, <3>2, CleanedIsEntry
    <3> QED BY <1>6, <3>3
  <2> QED BY <2>2, <2>3
<1>10. Purge \in Range(p) <=> Purge \in Range(q)
  <2>1. Purge.d = NoDisplay /\ NoDisplay \notin gone
    BY DisplaysAssumption DEF Purge
  <2>2. ASSUME Purge \in Range(p) PROVE Purge \in Range(q)
    <3>1. PICK i \in 1..Len(k) : Purge = Cleaned(W, gone, k[i])
      BY <1>5, <1>6, <2>2
    <3>2. Purge = k[i]
      BY <1>3, <3>1, CleanedIsEntry
    <3> QED BY <1>1, <1>6, <3>2
  <2>3. ASSUME Purge \in Range(q) PROVE Purge \in Range(p)
    <3>1. Purge \notin E
      BY <2>1 DEF E, Dangling
    <3>2. PICK i \in 1..Len(k) : Purge = k[i]
      BY <1>1, <1>6, <2>3, <3>1
    <3>3. p[i] = Purge
      BY <1>3, <1>5, <2>1, <3>2, CleanedIsEntry
    <3> QED BY <1>6, <3>3
  <2> QED BY <2>2, <2>3
<1>11. ASSUME NEW d \in Displays \ gone, NEW x \in OwnSources(d), NEW i \in 1..Len(p), x = p[i],
              \A j \in 1..(i - 1) : p[j] # Purge
       PROVE  x \in Early(q)
  <2>1. x.d = d /\ d # NoDisplay
    BY <1>11, DisplaysAssumption DEF OwnSources, FinishOf, ReadyOf, StartOf
  <2>2. Purge.d = NoDisplay /\ NoDisplay \notin gone
    BY DisplaysAssumption DEF Purge
  <2>3. i \in 1..Len(k) /\ x = k[i]
    BY <1>3, <1>5, <1>11, <2>1, CleanedIsEntry
  <2>4. ASSUME NEW j \in 1..(i - 1) PROVE k[j] # Purge
    <3>1. j \in 1..Len(k) /\ p[j] # Purge
      BY <1>3, <1>11, <2>3
    <3> QED BY <1>5, <2>2, <3>1 DEF Cleaned
  <2>5. x \in Early(k)
    BY <2>3, <2>4 DEF Early
  <2>6. Purge \notin E
    BY <2>2 DEF E, Dangling
  <2>7. k = Without(q, E) /\ QueueOK(q)
    BY DEF k, q
  <2> QED BY <2>5, <2>6, <2>7, WithoutEarly
<1>12. QueueOK(p)
  BY <1>5, <1>7 DEF QueueOK
<1>13. \A x \in UNION {OwnSources(d) : d \in Displays \ gone} : x \in Early(p) => x \in Early(q)
  BY <1>11 DEF Early
<1>14. NothingOf(gone, p, q)
  BY <1>8, <1>9, <1>10, <1>13 DEF NothingOf
<1> QED BY <1>12, <1>14 DEF p, q

(* What is left of an object that was given back.                          *)
Emptied(r) ==
    IF r.window THEN [Unused EXCEPT !.window = TRUE, !.seat = r.seat, !.initial = r.initial] ELSE Unused

LEMMA EmptiedIsFine ==
    ASSUME NEW r \in Display
    PROVE  /\ Emptied(r) \in Display /\ RecordOK(Emptied(r)) /\ ~Emptied(r).stored
           /\ Emptied(r).sess = "none" /\ Emptied(r).status = "UNMANAGED" /\ Emptied(r).server = "none"
<1> DEFINE s == Emptied(r)
           u == Unused
<1>1. u \in Display
  <2>1. -1 \in -1..MaxNumber
    BY DisplaysAssumption
  <2>2. New("none", FALSE, -1) \in Display
    BY <2>1, NewIsDisplay DEF SeatNames
  <2> QED BY <2>2, DisplayUpdates DEF Unused
<1>2. /\ u.class = "greeter" /\ ~u.stored /\ u.status = "UNMANAGED" /\ u.env = "none" /\ u.sess = "none"
      /\ u.server = "none" /\ u.num = -1 /\ ~u.leaked /\ ~u.registered /\ ~u.window
  BY DEF Unused, New
<1> HIDE DEF u
<1>3. r.seat \in OtherSeats \cup {Seat0, "none"} /\ r.initial \in BOOLEAN
  BY DEF Display
<1>4. \E w \in BOOLEAN, seat \in OtherSeats \cup {Seat0, "none"}, i \in BOOLEAN :
        s = [u EXCEPT !.window = w, !.seat = seat, !.initial = i]
  <2>1. CASE r.window
    BY <1>3, <2>1 DEF Emptied, u
  <2>2. CASE ~r.window
    <3>1. s = u
      BY <2>2 DEF Emptied, u
    <3>2. u = [u EXCEPT !.window = u.window, !.seat = u.seat, !.initial = u.initial]
      BY <1>1 DEF Display
    <3>3. u.window \in BOOLEAN /\ u.seat \in OtherSeats \cup {Seat0, "none"} /\ u.initial \in BOOLEAN
      BY <1>1 DEF Display
    <3> QED BY <3>1, <3>2, <3>3
  <2> QED BY <2>1, <2>2
<1>5. PICK w \in BOOLEAN, seat \in OtherSeats \cup {Seat0, "none"}, i \in BOOLEAN :
        s = [u EXCEPT !.window = w, !.seat = seat, !.initial = i]
  BY <1>4
<1> HIDE DEF s
<1>6. /\ s \in Display /\ s.class = "greeter" /\ ~s.stored /\ s.status = "UNMANAGED" /\ s.env = "none"
      /\ s.sess = "none" /\ s.server = "none" /\ s.num = -1 /\ ~s.leaked /\ ~s.registered
      /\ s.window = w /\ s.seat = seat /\ s.initial = i
  <2>1. s \in Display
    BY <1>1, <1>5 DEF Display
  <2> QED BY <1>1, <1>2, <1>5, <2>1 DEF Display
<1>7. GoneIsEmpty(s)
  BY <1>5, <1>6 DEF GoneIsEmpty, u
<1>8. RecordOK(s)
  BY <1>6, <1>7 DEF RecordOK, SeatZeroOK, SessionOK, ServerOK, LogsIn, Ended
<1> QED BY <1>6, <1>8 DEF s

(* The displays of gone are gone.                                          *)
Away(W, V, gone) ==
    /\ FineBut(V, {})
    /\ V.did = W.did /\ V.autod = (IF W.autod \in gone THEN NoDisplay ELSE W.autod)
    /\ V.used = W.used
    /\ \A d \in Displays \ gone : V.disp[d] = W.disp[d]
    /\ \A x \in UNION {OwnSources(d) : d \in Displays \ gone} :
         x \in Early(V.idles) => x \in Early(W.idles)
    /\ \A d \in gone : ~V.disp[d].stored /\ ~LogsIn(V.disp[d]) /\ V.disp[d].status = "UNMANAGED"

LEMMA RemovedResult ==
    ASSUME NEW W, NEW gone \in SUBSET Displays, FineBut(W, gone),
           \A d \in gone : ~(W.disp[d].leaked /\ W.disp[d].env \in Alive),
           NEW V, V = Removed(W, gone)
    PROVE  Away(W, V, gone)
<1> DEFINE D == [d \in Displays |-> IF d \in gone THEN Emptied(W.disp[d]) ELSE W.disp[d]]
           q == CleanQueue(W, gone)
           a == IF W.autod \in gone THEN NoDisplay ELSE W.autod
<1>1. W \in Worlds /\ QueueOK(W.idles)
  BY DEF FineBut, QueueOK, Worlds
<1>2. V = [W EXCEPT !.disp = D, !.idles = q, !.autod = a]
  <2> DEFINE orphan(d) == W.disp[d].leaked /\ W.disp[d].env \in Alive
             rest(d) == IF orphan(d) THEN [W.disp[d] EXCEPT !.stored = FALSE]
                        ELSE IF W.disp[d].window THEN [Unused EXCEPT !.window = TRUE, !.seat = W.disp[d].seat,
                                                                    !.initial = W.disp[d].initial]
                        ELSE Unused
             dangling(e) == e.d \in gone /\ ~orphan(e.d)
             E == {e \in Range(W.idles) : dangling(e) /\ e.op \in {"finish", "ready"}}
             kept == Without(W.idles, E)
             cleaned(e) == IF ~dangling(e) THEN e
                           ELSE [op |-> IF W.disp[e.d].seat = Seat0 THEN "start" ELSE "start elsewhere",
                                 d |-> NoDisplay]
             D1 == [d \in Displays |-> IF d \in gone THEN rest(d) ELSE W.disp[d]]
             q1 == [i \in DOMAIN kept |-> cleaned(kept[i])]
  <2>1. V = [W EXCEPT !.disp = D1, !.idles = q1, !.autod = a]
    BY <1>1 DEF Removed, Worlds
  <2>2. \A d \in gone : rest(d) = Emptied(W.disp[d])
    BY DEF Emptied
  <2>3. D1 = D
    BY <2>2
  <2>4. \A e : dangling(e) <=> e.d \in gone
    OBVIOUS
  <2>5. E = Dangling(W.idles, gone)
    BY <2>4 DEF Dangling
  <2>6. \A e : cleaned(e) = Cleaned(W, gone, e)
    BY <2>4 DEF Cleaned
  <2>7. kept \in Seq(Entries)
    BY <1>1, WithoutQueue DEF QueueOK
  <2>8. kept = Without(W.idles, Dangling(W.idles, gone))
    BY <2>5
  <2> HIDE DEF kept, cleaned
  <2>9. q1 = q
    BY <2>6, <2>7, <2>8 DEF CleanQueue
  <2> HIDE DEF q1, D1, D, q, a
  <2> QED BY <2>1, <2>3, <2>9
<1>3. QueueOK(q) /\ NothingOf(gone, q, W.idles)
  BY <1>1, CleanQueueResult
<1>4. D \in [Displays -> Display] /\ a \in Displays \cup {NoDisplay}
  <2>1. \A d \in Displays : W.disp[d] \in Display
    BY <1>1 DEF Worlds
  <2>2. \A d \in Displays : Emptied(W.disp[d]) \in Display
    BY <2>1, EmptiedIsFine
  <2>3. W.autod \in Displays \cup {NoDisplay}
    BY <1>1 DEF Worlds
  <2> QED BY <2>1, <2>2, <2>3
<1>5. \A d \in Displays : D[d] = IF d \in gone THEN Emptied(W.disp[d]) ELSE W.disp[d]
  OBVIOUS
<1>6. q \in Seq(Entries)
  BY <1>3 DEF QueueOK
<1> HIDE DEF D, q, a
<1>7. V \in Worlds /\ V.disp = D /\ V.idles = q /\ V.autod = a /\ V.did = W.did /\ V.used = W.used
  BY <1>1, <1>2, <1>4, <1>6 DEF Worlds
<1>8. \A d \in gone : /\ V.disp[d] \in Display /\ RecordOK(V.disp[d]) /\ ~V.disp[d].stored
                      /\ V.disp[d].sess = "none" /\ V.disp[d].status = "UNMANAGED"
                      /\ V.disp[d].server = "none"
  <2> SUFFICES ASSUME NEW d \in gone
               PROVE  /\ V.disp[d] \in Display /\ RecordOK(V.disp[d]) /\ ~V.disp[d].stored
                      /\ V.disp[d].sess = "none" /\ V.disp[d].status = "UNMANAGED"
                      /\ V.disp[d].server = "none"
    OBVIOUS
  <2>1. V.disp[d] = Emptied(W.disp[d]) /\ W.disp[d] \in Display
    BY <1>1, <1>5, <1>7 DEF Worlds
  <2> QED BY <2>1, EmptiedIsFine
<1>9. \A d \in Displays \ gone : V.disp[d] = W.disp[d]
  BY <1>5, <1>7
<1>10. ASSUME NEW d \in Displays \ gone PROVE Fine(V, d)
  <2>1. SameSources(W, V, d)
    BY <1>3, <1>7 DEF SameSources, NothingOf, OwnSources
  <2>2. V.autod = d => W.autod = d
    BY <1>7, DisplaysAssumption DEF a
  <2> QED BY <1>9, <2>1, <2>2, Untouched DEF FineBut
<1>11. ASSUME NEW d \in gone PROVE Fine(V, d)
  <2>1. OwnSources(d) \cap Range(V.idles) = {}
    BY <1>3, <1>7 DEF NothingOf
  <2>2. SourcesOK(V, d)
    BY <1>8, <2>1 DEF SourcesOK, Queued, OwnSources, FinishOf, ReadyOf, StartOf
  <2>3. V.autod # d
    BY <1>7, DisplaysAssumption DEF a
  <2> QED BY <1>8, <2>2, <2>3 DEF Fine, AutoOK
<1>12. FineBut(V, {})
  BY <1>3, <1>7, <1>10, <1>11 DEF FineBut, QueueOK
<1>13. \A d \in gone : ~LogsIn(V.disp[d])
  BY <1>8 DEF LogsIn
<1>14. \A x \in UNION {OwnSources(d) : d \in Displays \ gone} :
          x \in Early(V.idles) => x \in Early(W.idles)
  BY <1>3, <1>7 DEF NothingOf
<1> QED BY <1>7, <1>8, <1>9, <1>12, <1>13, <1>14 DEF Away, a

LEMMA CalmSteady ==
    ASSUME NEW V, \A e \in Displays : Calm(disp[e], V.disp[e]),
           autod # NoDisplay => V.autod # NoDisplay, did => V.did
    PROVE  Steady(World, V)
BY WorldIsWorld DEF Steady, Calm

LEMMA AwaySteady ==
    ASSUME NEW V, NEW gone \in SUBSET Displays, NEW W, W.disp = disp, W.autod = autod, W.did = did,
           Away(W, V, gone), autod \notin gone
    PROVE  Steady(World, V)
<1>1. ASSUME NEW e \in Displays
      PROVE  /\ V.disp[e].status = "FINISHED" => disp[e].status = "FINISHED"
             /\ disp[e].status \in Ended => V.disp[e].status \in Ended \/ ~V.disp[e].stored
             /\ LogsIn(V.disp[e]) => LogsIn(disp[e])
  <2>1. CASE e \in gone
    BY <2>1 DEF Away
  <2>2. CASE e \notin gone
    BY <2>2 DEF Away
  <2> QED BY <2>1, <2>2
<1>2. V.autod = autod /\ V.did = did
  BY DEF Away
<1> QED BY <1>1, <1>2, CalmSteady DEF Calm

LEMMA SeatRemovedAway ==
    ASSUME FineBut(World, {}), NEW s \in OtherSeats, NEW gone, gone = OnSeat(World, s),
           NEW V, V = Removed(World, gone)
    PROVE  gone \in SUBSET Displays /\ autod \notin gone /\ Away(World, V, gone)
<1>1. World.disp = disp /\ World.autod = autod
  BY WorldIsWorld
<1>2. \A d \in gone : d \in Displays /\ disp[d].seat = s
  BY <1>1 DEF OnSeat, InStore
<1>3. s # Seat0
  BY DisplaysAssumption
<1>4. ASSUME NEW d \in gone PROVE ~disp[d].leaked /\ autod # d
  <2>1. Known(d)
    BY <1>2, InvKnows
  <2> QED BY <1>2, <1>3, <2>1 DEF Known, RecordOK, SeatZeroOK
<1>5. FineBut(World, gone)
  BY DEF FineBut
<1>6. gone \in SUBSET Displays
  BY <1>2
<1>7. Away(World, V, gone)
  BY <1>1, <1>4, <1>5, <1>6, RemovedResult
<1> QED BY <1>4, <1>6, <1>7

LEMMA SeatRemovedGoes ==
    ASSUME FineBut(World, {}), NEW s \in OtherSeats, SeatRemoved(s)
    PROVE  \E V : Goes(V)
<1> DEFINE gone == OnSeat(World, s)
           V == Removed(World, gone)
<1>1. Becomes(V)
  BY DEF SeatRemoved
<1>2. gone \in SUBSET Displays /\ autod \notin gone /\ Away(World, V, gone)
  BY SeatRemovedAway
<1> HIDE DEF gone, V
<1>3. World.disp = disp /\ World.autod = autod /\ World.did = did
  BY WorldIsWorld
<1>4. Steady(World, V)
  BY <1>2, <1>3, AwaySteady
<1>5. Goes(V)
  BY <1>1, <1>2, <1>4 DEF Goes, Away
<1> QED BY <1>5

(* The displays that a purge finds.                                        *)
Outdated == {d \in InStore(World) : disp[d].status \in Ended}

LEMMA PurgeIdleAway ==
    ASSUME FineBut(World, {}), idles # <<>>, Head(idles).op = "purge",
           NEW V, V = Removed(IdleDone, Outdated)
    PROVE  /\ IdleDone.disp = disp /\ IdleDone.autod = autod /\ IdleDone.did = did
           /\ IdleDone.used = used
           /\ Outdated \in SUBSET Displays /\ autod \notin Outdated
           /\ \A d \in Displays : d \in Outdated <=> disp[d].stored /\ disp[d].status \in Ended
           /\ Away(IdleDone, V, Outdated)
<1> DEFINE gone == Outdated
           W == IdleDone
<1>1. World.disp = disp /\ World.autod = autod /\ World.did = did /\ World.idles = idles
      /\ World \in Worlds /\ QueueOK(idles)
  BY WorldIsWorld, WorldHasNoStray
<1>2. /\ W \in Worlds /\ QueueOK(W.idles)
      /\ W.disp = disp /\ W.autod = autod /\ W.did = did /\ W.used = used
      /\ Range(idles) = Range(W.idles) \cup {Purge}
  BY <1>1, IdleDoneWorld, EntryOf
<1>3. \A d \in Displays : d \in gone <=> disp[d].stored /\ disp[d].status \in Ended
  BY <1>1 DEF InStore, Outdated
<1>4. gone \in SUBSET Displays
  BY DEF InStore, Outdated
<1> HIDE DEF gone, W
<1>5. ASSUME NEW d \in gone PROVE ~(disp[d].leaked /\ disp[d].env \in Alive) /\ autod # d
  <2>1. Known(d) /\ disp[d].status \in Ended
    BY <1>3, <1>4, InvKnows
  <2> QED BY <2>1 DEF Known, RecordOK, SeatZeroOK
<1>6. ASSUME NEW d \in Displays \ gone PROVE Fine(W, d)
  <2>1. Fine(World, d)
    BY DEF FineBut
  <2>2. Purge \notin OwnSources(d)
    BY EntriesOfDisplays DEF OwnSources
  <2>3. \A x \in OwnSources(d) : x \in Range(W.idles) <=> x \in Range(World.idles)
    BY <1>1, <1>2, <2>2
  <2>4. /\ Queued(W, "finish", d) <=> Queued(World, "finish", d)
        /\ Queued(W, "ready", d) <=> Queued(World, "ready", d)
        /\ Queued(W, "start", d) <=> Queued(World, "start", d)
    BY <2>3 DEF OwnSources, FinishOf, ReadyOf, StartOf, Queued
  <2>5. ~(disp[d].stored /\ disp[d].status \in Ended)
    BY <1>3
  <2>6. SourcesOK(World, d) /\ AutoOK(World, d) /\ RecordOK(disp[d])
    BY <1>1, <2>1 DEF Fine
  <2>7. SourcesOK(W, d)
    BY <1>1, <1>2, <2>4, <2>5, <2>6 DEF SourcesOK
  <2>8. AutoOK(W, d)
    BY <1>1, <1>2, <2>6 DEF AutoOK
  <2> QED BY <1>2, <2>6, <2>7, <2>8 DEF Fine
<1>7. FineBut(W, gone)
  BY <1>2, <1>6 DEF FineBut, QueueOK
<1>8. \A d \in gone : ~(W.disp[d].leaked /\ W.disp[d].env \in Alive)
  BY <1>2, <1>5
<1>9. Away(W, V, gone)
  <2>1. V = Removed(W, gone)
    BY DEF W, gone
  <2> QED BY <1>4, <1>7, <1>8, <2>1, RemovedResult
<1>10. autod \notin gone
  BY <1>5
<1> QED BY <1>2, <1>3, <1>4, <1>9, <1>10 DEF W, gone

LEMMA PurgeIdleGoes ==
    ASSUME FineBut(World, {}), PurgeIdle
    PROVE  \E V : Goes(V)
<1> DEFINE V == Removed(IdleDone, Outdated)
<1>1. idles # <<>> /\ Head(idles).op = "purge" /\ Becomes(V)
  BY CallbackOne DEF PurgeIdle, IdleIs, Outdated
<1>2. /\ IdleDone.disp = disp /\ IdleDone.autod = autod /\ IdleDone.did = did
      /\ Outdated \in SUBSET Displays /\ autod \notin Outdated
      /\ Away(IdleDone, V, Outdated)
  BY <1>1, PurgeIdleAway
<1> HIDE DEF V
<1>3. Steady(World, V)
  BY <1>2, AwaySteady
<1>4. Goes(V)
  BY <1>1, <1>2, <1>3 DEF Goes, Away
<1> QED BY <1>4

(* The display u of a user session that got one.                           *)
UserRecord(r) ==
    /\ r \in Display /\ r.stored /\ r.class = "user" /\ r.seat = Seat0 /\ r.status = "UNMANAGED"
    /\ r.env = "none" /\ r.sess = "launched" /\ r.server = "none" /\ r.num = -1 /\ ~r.leaked /\ ~r.registered

Given(W, V, u, auto) ==
    /\ W.disp[u] = Unused /\ UserRecord(V.disp[u]) /\ Others(W, V, u)
    /\ V.autod = (IF auto THEN u ELSE W.autod) /\ V.did = W.did
    /\ V.used = W.used /\ V.idles = W.idles

LEMMA WithUserDisplayResult ==
    ASSUME NEW W, NEW X, FineBut(W, X), \A d \in X : W.disp[d].stored, NEW auto,
           NEW V \in WithUserDisplay(W, auto)
    PROVE  FineBut(V, X) /\ \E u \in Displays : Given(W, V, u, auto)
<1> DEFINE n == New(Seat0, FALSE, -1)
           r == [n EXCEPT !.class = "user", !.sess = "launched"]
<1>1. PICK u \in Displays : /\ W.disp[u] = Unused
                            /\ V = [W EXCEPT !.disp[u] = r, !.autod = IF auto THEN u ELSE @]
  BY DEF WithUserDisplay, FreeSlots
<1>2. W \in Worlds /\ QueueOK(W.idles) /\ NoStraySource(W)
  BY FineLeavesNoStray DEF FineBut, QueueOK, Worlds
<1>3. UserRecord(r) /\ RecordOK(r)
  <2>1. -1 \in -1..MaxNumber /\ Seat0 \in SeatNames
    BY DisplaysAssumption DEF SeatNames
  <2>2. n \in Display
    BY <2>1, NewIsDisplay
  <2>3. r \in Display
    <3>1. [n EXCEPT !.class = "user"] \in Display
      BY <2>2, DisplayUpdates
    <3>2. [[n EXCEPT !.class = "user"] EXCEPT !.sess = "launched"] \in Display
      BY <3>1, DisplayUpdates DEF Sessions
    <3> QED BY <2>2, <3>2 DEF Display
  <2>4. /\ n.stored /\ n.seat = Seat0 /\ n.status = "UNMANAGED" /\ n.env = "none" /\ n.server = "none"
        /\ n.num = -1 /\ ~n.leaked /\ ~n.registered
    BY DEF New
  <2> HIDE DEF n
  <2>5. UserRecord(r)
    BY <2>2, <2>3, <2>4 DEF UserRecord, Display
  <2> HIDE DEF r
  <2> QED BY <2>5 DEF UserRecord, RecordOK, GoneIsEmpty, SeatZeroOK, SessionOK, ServerOK, LogsIn, Ended
<1> HIDE DEF r, n
<1>4. r \in Display
  BY <1>3 DEF UserRecord
<1> DEFINE a == IF auto THEN u ELSE W.autod
           D == [W.disp EXCEPT ![u] = r]
<1>5. D \in [Displays -> Display] /\ a \in Displays \cup {NoDisplay} /\ W.disp \in [Displays -> Display]
  BY <1>2, <1>4 DEF Worlds
<1>6. V = [W EXCEPT !.disp = D, !.autod = a]
  BY <1>1, <1>2 DEF Worlds
<1>7. D[u] = r /\ \A e \in Displays \ {u} : D[e] = W.disp[e]
  BY <1>5
<1> HIDE DEF D, a
<1>8. /\ V \in Worlds /\ V.disp = D /\ V.autod = a /\ V.idles = W.idles /\ V.did = W.did
      /\ V.used = W.used
  BY <1>2, <1>5, <1>6 DEF Worlds
<1>9. Given(W, V, u, auto)
  BY <1>1, <1>3, <1>7, <1>8 DEF Given, Others, a
<1>10. u \notin X
  BY <1>1, UnusedIsNotStored
<1>11. ASSUME NEW e \in Displays \ X PROVE Fine(V, e)
  <2>1. CASE e # u
    <3>1. SameSources(W, V, e) /\ V.disp[e] = W.disp[e] /\ (V.autod = e => W.autod = e)
      BY <1>7, <1>8, <2>1 DEF SameSources, a
    <3> QED BY <3>1, Untouched DEF FineBut
  <2>2. CASE e = u
    <3>1. {FinishOf(u), ReadyOf(u), StartOf(u)} \cap Range(V.idles) = {}
      BY <1>1, <1>2, <1>8, UnusedIsNotStored DEF NoStraySource
    <3>2. V.disp[u] = r
      BY <1>7, <1>8
    <3>3. SourcesOK(V, u)
      BY <1>3, <3>1, <3>2 DEF SourcesOK, Queued, FinishOf, ReadyOf, StartOf, UserRecord, Ended
    <3>4. AutoOK(V, u)
      BY <1>3, <3>2 DEF AutoOK, UserRecord, Ended
    <3> QED BY <1>3, <2>2, <3>2, <3>3, <3>4 DEF Fine
  <2> QED BY <2>1, <2>2
<1>12. FineBut(V, X)
  BY <1>2, <1>8, <1>11 DEF FineBut, QueueOK
<1> QED BY <1>9, <1>12

LEMMA GivenIsCalm ==
    ASSUME NEW W, NEW V, NEW u \in Displays, NEW auto, Given(W, V, u, auto), ~disp[u].stored,
           \A e \in Displays : Calm(disp[e], W.disp[e])
    PROVE  \A e \in Displays : Calm(disp[e], V.disp[e])
<1> SUFFICES ASSUME NEW e \in Displays PROVE Calm(disp[e], V.disp[e])
  OBVIOUS
<1>1. CASE e = u
  BY <1>1 DEF Given, UserRecord, Calm, LogsIn
<1>2. CASE e # u
  BY <1>2 DEF Given, Others
<1> QED BY <1>1, <1>2

LEMMA NullIsGiven ==
    ASSUME FineBut(World, {}), StartIdleNull, NEW V \in WithUserDisplay(IdleDone, FALSE)
    PROVE  /\ IdleDone.disp = disp /\ IdleDone.autod = autod /\ IdleDone.did = did
           /\ FineBut(V, {}) /\ \E u \in Displays : Given(IdleDone, V, u, FALSE)
<1> DEFINE W == IdleDone
           h == Head(idles)
<1>1. idles # <<>> /\ h.op = "start" /\ h.d = NoDisplay
  BY DEF StartIdleNull, IdleIs
<1>2. V \in WithUserDisplay(W, FALSE)
  OBVIOUS
<1>3. World.disp = disp /\ World.autod = autod /\ World.did = did /\ World.idles = idles
      /\ World \in Worlds /\ QueueOK(idles)
  BY WorldIsWorld, WorldHasNoStray
<1>4. /\ W \in Worlds /\ QueueOK(W.idles)
      /\ W.disp = disp /\ W.autod = autod /\ W.did = did
      /\ Range(idles) = Range(W.idles) \cup {h}
  BY <1>1, <1>3, IdleDoneWorld
<1> HIDE DEF W, h
<1>5. ASSUME NEW e \in Displays PROVE Fine(W, e)
  <2>1. \A x \in OwnSources(e) : x.d # NoDisplay
    BY DisplaysAssumption DEF OwnSources, FinishOf, ReadyOf, StartOf
  <2>2. h # Purge
    BY <1>1 DEF Purge
  <2>3. \A x \in OwnSources(e) : x \in Range(World.idles) <=> x \in Range(W.idles)
    BY <1>1, <1>3, <1>4, <2>1
  <2>4. SameSources(World, W, e)
    BY <1>3, <1>4, <2>2, <2>3 DEF SameSources, OwnSources
  <2> QED BY <1>3, <1>4, <2>4, Untouched DEF FineBut
<1>6. FineBut(W, {})
  BY <1>4, <1>5 DEF FineBut, QueueOK
<1>7. FineBut(V, {}) /\ \E u \in Displays : Given(W, V, u, FALSE)
  <2> DEFINE X == {}
             auto == FALSE
  <2>1. FineBut(W, X) /\ V \in WithUserDisplay(W, auto) /\ \A d \in X : W.disp[d].stored
    BY <1>2, <1>6
  <2> HIDE DEF X, auto
  <2>2. FineBut(V, X) /\ \E u \in Displays : Given(W, V, u, auto)
    BY ONLY <2>1, WithUserDisplayResult
  <2> QED BY <2>2 DEF X, auto
<1> QED BY <1>4, <1>7 DEF W

LEMMA StartIdleNullGoes ==
    ASSUME FineBut(World, {}), StartIdleNull
    PROVE  \E V : Goes(V)
<1> DEFINE W == IdleDone
<1>1. PICK V \in WithUserDisplay(W, FALSE) : Becomes(V)
  BY DEF StartIdleNull, Callback
<1>2. /\ W.disp = disp /\ W.autod = autod /\ W.did = did
      /\ FineBut(V, {}) /\ \E u \in Displays : Given(W, V, u, FALSE)
  BY <1>1, NullIsGiven
<1> HIDE DEF W
<1>3. PICK u \in Displays : Given(W, V, u, FALSE)
  BY <1>2
<1>4. ~disp[u].stored /\ V.autod = autod /\ V.did = did
  BY <1>2, <1>3, UnusedIsNotStored DEF Given
<1>5. \A e \in Displays : Calm(disp[e], W.disp[e])
  BY <1>2 DEF Calm
<1>6. \A e \in Displays : Calm(disp[e], V.disp[e])
  BY <1>3, <1>4, <1>5, GivenIsCalm
<1>7. Steady(World, V)
  BY <1>4, <1>6, CalmSteady
<1>8. Goes(V)
  BY <1>1, <1>2, <1>7 DEF Goes
<1> QED BY <1>8

(* What the start of a session of d finds.                                 *)
StartKnows(d) ==
    LET r == disp[d]
        W == IdleDone
    IN /\ d \in Displays /\ Popped(d, StartOf(d))
       /\ r \in Display /\ RecordOK(r) /\ r.stored /\ r.sess \in {"starting", "autostart"}
       /\ r.class = "greeter" /\ r.server \notin {"starting", "signalled"} /\ autod # d
       /\ StartOf(d) \notin Range(W.idles) /\ ReadyOf(d) \notin Range(W.idles)
       /\ FinishOf(d) \in Range(W.idles) =>
            r.env \in {"none", "exited", "stopped"} /\ (r.seat # Seat0 => r.status # "MANAGED")
       /\ r.status \in Ended => Purge \in Range(W.idles)
       /\ ~r.setup /\ r.env \in {"exited", "stopped"} => r.status \in Ended \/ FinishOf(d) \in Range(W.idles)

LEMMA StartIdleKnows ==
    ASSUME FineBut(World, {}), StartIdle, NEW d, d = Head(idles).d
    PROVE  StartKnows(d)
<1> DEFINE r == disp[d]
           W == IdleDone
<1>1. idles # <<>> /\ Head(idles).op = "start" /\ d # NoDisplay
  BY DEF StartIdle, IdleIs
<1>2. World \in Worlds /\ QueueOK(idles)
  BY WorldHasNoStray, WorldIsWorld
<1>3. d \in Displays /\ Head(idles) = StartOf(d)
  BY <1>1, <1>2, IdleDoneWorld, EntryOf
<1>4. Popped(d, StartOf(d))
  BY <1>1, <1>3, PoppedSource DEF OwnSources
<1>5. Known(d)
  BY <1>3, InvKnows
<1> HIDE DEF r, W
<1>6. /\ StartOf(d) \in Range(World.idles) /\ StartOf(d) \notin Range(W.idles)
      /\ FinishOf(d) \in Range(W.idles) <=> FinishOf(d) \in Range(World.idles)
      /\ ReadyOf(d) \in Range(W.idles) <=> ReadyOf(d) \in Range(World.idles)
      /\ Purge \in Range(W.idles) <=> Purge \in Range(World.idles)
  <2>1. FinishOf(d) # StartOf(d) /\ ReadyOf(d) # StartOf(d) /\ Purge # StartOf(d)
    BY <1>3, EntriesOfDisplays DEF FinishOf, StartOf, ReadyOf
  <2> QED BY <1>4, <2>1 DEF Popped, W
<1>7. /\ r \in Display /\ RecordOK(r) /\ r.stored /\ r.sess \in {"starting", "autostart"}
      /\ FinishOf(d) \in Range(World.idles) =>
           /\ r.env \in {"none", "exited", "stopped"}
           /\ IF r.seat = Seat0 THEN r.class = "greeter" ELSE r.status # "MANAGED"
      /\ ReadyOf(d) \in Range(World.idles) => r.server = "signalled"
      /\ r.status \in Ended => Purge \in Range(World.idles)
      /\ r.class = "greeter" /\ ~r.setup /\ r.env \in {"exited", "stopped"}
           => r.status \in Ended \/ FinishOf(d) \in Range(World.idles)
      /\ autod = d => r.class = "user"
  BY <1>5, <1>6 DEF Known, Queued, FinishOf, ReadyOf, StartOf, r
<1>8. r.class = "greeter" /\ r.server \notin {"starting", "signalled"}
  <2>1. r.class \in {"greeter", "user"}
    BY <1>7 DEF Display
  <2> QED BY <1>7, <2>1 DEF RecordOK, SessionOK, ServerOK
<1>9. autod # d /\ ReadyOf(d) \notin Range(World.idles)
  BY <1>7, <1>8
<1> QED BY <1>3, <1>4, <1>6, <1>7, <1>8, <1>9 DEF StartKnows, W, r

(* The record s for d in the world without the source.                     *)
PoppedWith(d, X, s) ==
    /\ X \in Worlds /\ FineBut(X, {d}) /\ X.disp[d] = s /\ Others(World, X, d)
    /\ X.idles = IdleDone.idles /\ X.autod = autod /\ X.did = did

LEMMA PoppedRecorded ==
    ASSUME NEW d \in Displays, NEW e, Popped(d, e), NEW s \in Display, NEW X, X = Recorded(IdleDone, d, s)
    PROVE  PoppedWith(d, X, s)
<1>1. /\ IdleDone \in Worlds /\ FineBut(IdleDone, {d}) /\ IdleDone.disp = disp
      /\ IdleDone.autod = autod /\ IdleDone.did = did
  BY DEF Popped
<1>2. /\ X \in Worlds /\ X.disp[d] = s /\ Others(IdleDone, X, d)
      /\ X.idles = IdleDone.idles /\ X.autod = autod /\ X.did = did
  BY <1>1, RecordedWorld
<1>3. Rewritten(IdleDone, X, d, s)
  BY <1>1, RecordedKeepsFine
<1>4. Others(World, X, d)
  BY <1>1, <1>2, WorldIsWorld DEF Others
<1> QED BY <1>2, <1>3, <1>4 DEF PoppedWith, Rewritten

LEMMA StartResets ==
    ASSUME FineBut(World, {}), StartIdle, NEW d, d = Head(idles).d, NEW x \in {"dead", "fresh"},
           NEW V, V = [IdleDone EXCEPT !.disp[d].sess = x], Becomes(V)
    PROVE  Goes(V)
<1> DEFINE r == disp[d]
           s == [r EXCEPT !.sess = x]
<1>1. StartKnows(d)
  BY StartIdleKnows
<1>2. d \in Displays /\ Popped(d, StartOf(d)) /\ r \in Display /\ RecordOK(r) /\ r.stored
      /\ r.class = "greeter" /\ r.server \notin {"starting", "signalled"} /\ autod # d
  BY <1>1 DEF StartKnows
<1>3. s \in Display
  BY <1>2, DisplayUpdates DEF Sessions
<1>4. V = Recorded(IdleDone, d, s)
  <2>1. IdleDone \in Worlds /\ IdleDone.disp = disp
    BY <1>2 DEF Popped
  <2> QED BY <2>1 DEF Recorded, Worlds
<1>5. /\ s.seat = r.seat /\ s.class = r.class /\ s.initial = r.initial /\ s.setup = r.setup
      /\ s.stored = r.stored /\ s.registered = r.registered /\ s.env = r.env /\ s.window = r.window
      /\ s.sess = x /\ s.num = r.num /\ s.leaked = r.leaked /\ s.status = r.status
      /\ s.server = r.server
  BY <1>2 DEF Display
<1> HIDE DEF r, s
<1>6. PoppedWith(d, V, s)
  BY ONLY <1>2, <1>3, <1>4, PoppedRecorded
<1>7. /\ FineBut(V, {d}) /\ V.disp[d] = s /\ Others(World, V, d)
      /\ V.idles = IdleDone.idles /\ V.autod = autod /\ V.did = did
  BY ONLY <1>6 DEF PoppedWith
<1>8. RecordOK(s) /\ ~LogsIn(s)
  BY ONLY <1>2, <1>5, x \in {"dead", "fresh"} DEF RecordOK, GoneIsEmpty, SeatZeroOK, SessionOK, ServerOK, LogsIn
<1>9. SourcesOK(V, d)
  BY ONLY ZenonT(40), <1>1, <1>2, <1>5, <1>7 DEF StartKnows, SourcesOK, Queued, FinishOf, ReadyOf, StartOf, r
<1>10. Fine(V, d)
  BY ONLY <1>2, <1>7, <1>8, <1>9 DEF Fine, AutoOK
<1>11. FineBut(V, {})
  BY ONLY <1>2, <1>7, <1>10, FineSplits
<1>12. ASSUME NEW e \in Displays PROVE Calm(disp[e], V.disp[e])
  <2>1. CASE e = d
    BY ONLY <1>5, <1>7, <1>8, <2>1 DEF Calm, r
  <2>2. CASE e # d
    <3>1. V.disp[e] = disp[e]
      BY <1>7, <2>2, WorldIsWorld DEF Others
    <3> QED BY <3>1 DEF Calm
  <2> QED BY <2>1, <2>2
<1>13. Steady(World, V)
  BY <1>7, <1>12, CalmSteady
<1> QED BY <1>11, <1>13 DEF Goes

(* A display of an X server is taken over from the greeter.                *)
LEMMA StartReuses ==
    ASSUME FineBut(World, {}), StartIdle, NEW d, d = Head(idles).d, disp[d].seat # Seat0,
           NEW V, V = [StopGreeter(IdleDone, d) EXCEPT !.disp[d].class = "user", !.disp[d].sess = "launched"],
           Becomes(V)
    PROVE  Goes(V)
<1> DEFINE r == disp[d]
           s == [r EXCEPT !.env = "none", !.class = "user", !.sess = "launched"]
<1>1. StartKnows(d)
  BY StartIdleKnows
<1>2. d \in Displays /\ Popped(d, StartOf(d)) /\ r \in Display /\ RecordOK(r) /\ r.stored /\ r.seat # Seat0
      /\ r.class = "greeter" /\ r.server \notin {"starting", "signalled"} /\ autod # d
      /\ ~r.leaked /\ r.status # "WAITING_TO_FINISH"
  BY <1>1 DEF StartKnows, RecordOK, SeatZeroOK
<1>3. s \in Display
  <2>1. [r EXCEPT !.env = "none"] \in Display
    BY <1>2, DisplayUpdates DEF Envs
  <2>2. [[r EXCEPT !.env = "none"] EXCEPT !.class = "user"] \in Display
    BY <2>1, DisplayUpdates
  <2>3. [[[r EXCEPT !.env = "none"] EXCEPT !.class = "user"] EXCEPT !.sess = "launched"] \in Display
    BY <2>2, DisplayUpdates DEF Sessions
  <2> QED BY <1>2, <2>3 DEF Display
<1>4. V = Recorded(IdleDone, d, s)
  <2>1. IdleDone \in Worlds /\ IdleDone.disp = disp
    BY <1>2 DEF Popped
  <2>2. V = [StopGreeter(IdleDone, d) EXCEPT !.disp[d].class = "user", !.disp[d].sess = "launched"]
    OBVIOUS
  <2> QED BY ONLY ZenonT(60), <2>1, <2>2 DEF Recorded, Worlds, StopGreeter, s, r
<1>5. /\ s.seat = r.seat /\ s.class = "user" /\ s.initial = r.initial /\ s.setup = r.setup
      /\ s.stored = r.stored /\ s.registered = r.registered /\ s.env = "none" /\ s.window = r.window
      /\ s.sess = "launched" /\ s.num = r.num /\ s.leaked = r.leaked /\ s.status = r.status
      /\ s.server = r.server
  BY <1>2 DEF Display
<1> HIDE DEF r, s
<1>6. PoppedWith(d, V, s)
  BY ONLY <1>2, <1>3, <1>4, PoppedRecorded
<1>7. /\ FineBut(V, {d}) /\ V.disp[d] = s /\ Others(World, V, d)
      /\ V.idles = IdleDone.idles /\ V.autod = autod /\ V.did = did
  BY ONLY <1>6 DEF PoppedWith
<1>8. RecordOK(s) /\ ~LogsIn(s)
  BY ONLY <1>2, <1>5 DEF RecordOK, GoneIsEmpty, SeatZeroOK, SessionOK, ServerOK, LogsIn
<1>9. SourcesOK(V, d)
  BY ONLY <1>1, <1>2, <1>5, <1>7 DEF StartKnows, SourcesOK, Queued, FinishOf, ReadyOf, StartOf, r
<1>10. Fine(V, d)
  BY ONLY <1>2, <1>7, <1>8, <1>9 DEF Fine, AutoOK
<1>11. FineBut(V, {})
  BY ONLY <1>2, <1>7, <1>10, FineSplits
<1>12. ASSUME NEW e \in Displays PROVE Calm(disp[e], V.disp[e])
  <2>1. CASE e = d
    BY ONLY <1>5, <1>7, <1>8, <2>1 DEF Calm, r
  <2>2. CASE e # d
    <3>1. V.disp[e] = disp[e]
      BY <1>7, <2>2, WorldIsWorld DEF Others
    <3> QED BY <3>1 DEF Calm
  <2> QED BY <2>1, <2>2
<1>13. Steady(World, V)
  BY <1>7, <1>12, CalmSteady
<1> QED BY <1>11, <1>13 DEF Goes

(* On seat0 the session gets a display of its own, and the greeter stays.  *)
LEMMA StartUnties ==
    ASSUME FineBut(World, {}), StartIdle, NEW d, d = Head(idles).d, disp[d].seat = Seat0,
           disp[d].sess # "autostart",
           NEW W, W = [IdleDone EXCEPT !.disp[d].sess = "fresh", !.disp[d].leaked = TRUE,
                                       !.disp[d].status = IF disp[d].setup THEN "WAITING_TO_FINISH" ELSE @],
           NEW auto, ~auto, NEW V \in WithUserDisplay(W, auto), Becomes(V)
    PROVE  Goes(V)
<1> DEFINE r == disp[d]
           x == IF r.setup THEN "WAITING_TO_FINISH" ELSE r.status
           s == [r EXCEPT !.sess = "fresh", !.leaked = TRUE, !.status = x]
<1>1. StartKnows(d)
  BY StartIdleKnows
<1>2. d \in Displays /\ Popped(d, StartOf(d)) /\ r \in Display /\ RecordOK(r) /\ r.stored /\ r.seat = Seat0
      /\ r.class = "greeter" /\ r.server = "none" /\ autod # d
  BY <1>1 DEF StartKnows, RecordOK, SeatZeroOK
<1>3. s \in Display
  <2>1. x \in Statuses
    BY <1>2 DEF Statuses, Display
  <2> HIDE DEF x
  <2>2. [r EXCEPT !.sess = "fresh"] \in Display
    BY <1>2, DisplayUpdates DEF Sessions
  <2>3. [[r EXCEPT !.sess = "fresh"] EXCEPT !.leaked = TRUE] \in Display
    BY <2>2, DisplayUpdates
  <2>4. [[[r EXCEPT !.sess = "fresh"] EXCEPT !.leaked = TRUE] EXCEPT !.status = x] \in Display
    BY <2>1, <2>3, DisplayUpdates
  <2> QED BY <1>2, <2>4 DEF Display
<1>4. W = Recorded(IdleDone, d, s)
  <2> DEFINE t == [r EXCEPT !.sess = "fresh", !.leaked = TRUE,
                            !.status = IF r.setup THEN "WAITING_TO_FINISH" ELSE @]
  <2>1. IdleDone \in Worlds /\ IdleDone.disp = disp
    BY <1>2 DEF Popped
  <2>2. W = [IdleDone EXCEPT !.disp = [@ EXCEPT ![d] = t]]
    BY ZenonT(40), <2>1
  <2>3. t = s
    BY <1>2 DEF Display
  <2> HIDE DEF t, s
  <2> QED BY <2>2, <2>3 DEF Recorded
<1>5. /\ s.seat = r.seat /\ s.class = r.class /\ s.initial = r.initial /\ s.setup = r.setup
      /\ s.stored = r.stored /\ s.registered = r.registered /\ s.env = r.env /\ s.window = r.window
      /\ s.sess = "fresh" /\ s.num = r.num /\ s.leaked /\ s.status = x
      /\ s.server = r.server
  BY <1>2 DEF Display
<1>6. \/ x = "WAITING_TO_FINISH" /\ r.setup
      \/ x = r.status
  OBVIOUS
<1> HIDE DEF r, s, x
<1>7. PoppedWith(d, W, s)
  BY ONLY <1>2, <1>3, <1>4, PoppedRecorded
<1>8. /\ FineBut(W, {d}) /\ W.disp[d] = s /\ Others(World, W, d)
      /\ W.idles = IdleDone.idles /\ W.autod = autod /\ W.did = did
  BY ONLY <1>7 DEF PoppedWith
<1>9. RecordOK(s) /\ ~LogsIn(s)
  BY ONLY <1>2, <1>5, <1>6 DEF RecordOK, GoneIsEmpty, SeatZeroOK, SessionOK, ServerOK, LogsIn, Ended
<1>10. SourcesOK(W, d)
  BY ONLY <1>1, <1>2, <1>5, <1>6, <1>8 DEF StartKnows, SourcesOK, Queued, FinishOf, ReadyOf, StartOf, Ended, r
<1>11. Fine(W, d)
  BY ONLY <1>2, <1>8, <1>9, <1>10 DEF Fine, AutoOK
<1>12. FineBut(W, {})
  BY ONLY <1>2, <1>8, <1>11, FineSplits
<1>13. ASSUME NEW e \in Displays PROVE Calm(disp[e], W.disp[e])
  <2>1. CASE e = d
    <3>1. Calm(r, s)
      BY ONLY <1>5, <1>6, <1>9 DEF Calm
    <3> QED BY <1>8, <2>1, <3>1 DEF r
  <2>2. CASE e # d
    <3>1. W.disp[e] = disp[e]
      BY <1>8, <2>2, WorldIsWorld DEF Others
    <3> QED BY <3>1 DEF Calm
  <2> QED BY <2>1, <2>2
<1>14. FineBut(V, {}) /\ \E u \in Displays : Given(W, V, u, auto)
  <2> DEFINE X == {}
  <2>1. FineBut(W, X) /\ \A e \in X : W.disp[e].stored
    BY <1>12
  <2> HIDE DEF X
  <2>2. FineBut(V, X) /\ \E u \in Displays : Given(W, V, u, auto)
    BY ONLY <2>1, V \in WithUserDisplay(W, auto), WithUserDisplayResult
  <2> QED BY <2>2 DEF X
<1>15. PICK u \in Displays : Given(W, V, u, auto)
  BY <1>14
<1>16. ~disp[u].stored /\ V.autod = autod /\ V.did = did
  <2>1. u # d
    BY <1>2, <1>5, <1>8, <1>15, UnusedIsNotStored DEF Given
  <2> QED BY <1>8, <1>15, <2>1, UnusedIsNotStored, WorldIsWorld DEF Given, Others
<1>17. \A e \in Displays : Calm(disp[e], V.disp[e])
  BY <1>13, <1>15, <1>16, GivenIsCalm
<1>18. Steady(World, V)
  BY <1>16, <1>17, CalmSteady
<1> QED BY <1>14, <1>18 DEF Goes

(* The display of an automatic login goes when its session has its own.    *)
LEMMA StartReplaces ==
    ASSUME FineBut(World, {}), StartIdle, NEW d, d = Head(idles).d, disp[d].seat = Seat0,
           disp[d].sess = "autostart",
           NEW auto, auto, NEW U \in WithUserDisplay(IdleDone, auto), NEW V, V = Removed(U, {d}), Becomes(V)
    PROVE  Goes(V)
<1> DEFINE r == disp[d]
           W == IdleDone
           gone == {d}
<1>1. StartKnows(d)
  BY StartIdleKnows
<1>2. d \in Displays /\ Popped(d, StartOf(d)) /\ r \in Display /\ RecordOK(r) /\ r.stored /\ r.seat = Seat0
      /\ autod # d /\ LogsIn(r) /\ ~r.leaked /\ r.status = "PREPARED"
  BY <1>1 DEF StartKnows, RecordOK, SessionOK, LogsIn
<1>3. FineBut(W, gone) /\ W.disp = disp /\ W.autod = autod /\ W.did = did
  BY <1>2 DEF Popped
<1> HIDE DEF W, r
<1>4. \A e \in gone : W.disp[e].stored
  BY <1>2, <1>3 DEF r
<1>5. U \in WithUserDisplay(W, auto)
  BY DEF W
<1>6. gone \in SUBSET Displays /\ V = Removed(U, gone)
  BY <1>2
<1>7. FineBut(U, gone) /\ \E u \in Displays : Given(W, U, u, auto)
  <2> HIDE DEF gone
  <2> QED BY ONLY <1>3, <1>4, <1>5, WithUserDisplayResult
<1>8. PICK u \in Displays : Given(W, U, u, auto)
  BY <1>7
<1>9. u # d /\ U.disp[d] = r /\ ~disp[u].stored /\ U.autod = u /\ U.did = did
  <2>1. u # d
    BY <1>2, <1>3, <1>8, UnusedIsNotStored DEF Given, r
  <2> QED BY <1>2, <1>3, <1>8, <2>1, UnusedIsNotStored DEF Given, Others, r
<1>10. \A e \in gone : ~(U.disp[e].leaked /\ U.disp[e].env \in Alive)
  BY <1>2, <1>9
<1>11. \A e \in Displays : Calm(disp[e], U.disp[e])
  <2>1. \A e \in Displays : Calm(disp[e], W.disp[e])
    BY <1>3 DEF Calm
  <2> QED BY <1>8, <1>9, <2>1, GivenIsCalm
<1>12. Away(U, V, gone)
  <2> HIDE DEF gone
  <2> QED BY <1>6, <1>7, <1>10, RemovedResult
<1>13. ASSUME NEW e \in Displays PROVE Calm(disp[e], V.disp[e])
  <2>1. CASE e \in gone
    BY <1>12, <2>1 DEF Away, Calm
  <2>2. CASE e \notin gone
    <3>1. V.disp[e] = U.disp[e]
      BY <1>12, <2>2 DEF Away
    <3> QED BY <1>11, <3>1
  <2> QED BY <2>1, <2>2
<1>14. V.autod # NoDisplay /\ V.did = did
  BY <1>9, <1>12, DisplaysAssumption DEF Away
<1>15. Steady(World, V)
  BY <1>13, <1>14, CalmSteady
<1> QED BY <1>12, <1>15 DEF Goes, Away

LEMMA StartIdleGoes ==
    ASSUME FineBut(World, {}), StartIdle
    PROVE  \E V : Goes(V)
<1> DEFINE d == Head(idles).d
           auto == disp[d].sess = "autostart"
           untied == [IdleDone EXCEPT !.disp[d].sess = "fresh", !.disp[d].leaked = TRUE,
                                      !.disp[d].status = IF disp[d].setup THEN "WAITING_TO_FINISH" ELSE @]
           reuse == [StopGreeter(IdleDone, d) EXCEPT !.disp[d].class = "user", !.disp[d].sess = "launched"]
           reset(x) == [IdleDone EXCEPT !.disp[d].sess = x]
<1>1. \/ Becomes(reset(IF auto THEN "dead" ELSE "fresh"))
      \/ disp[d].seat # Seat0 /\ Becomes(reuse)
      \/ /\ disp[d].seat = Seat0
         /\ \E U \in WithUserDisplay(IF auto THEN IdleDone ELSE untied, auto) :
              Becomes(IF auto THEN Removed(U, {d}) ELSE U)
  BY DEF StartIdle
<1>2. CASE Becomes(reset(IF auto THEN "dead" ELSE "fresh"))
  <2> DEFINE x == IF auto THEN "dead" ELSE "fresh"
  <2>1. x \in {"dead", "fresh"}
    OBVIOUS
  <2>2. Becomes(reset(x))
    BY <1>2
  <2> HIDE DEF x
  <2>3. Goes(reset(x))
    BY <2>1, <2>2, StartResets
  <2> QED BY <2>3
<1>3. CASE disp[d].seat # Seat0 /\ Becomes(reuse)
  <2>1. Goes(reuse)
    BY <1>3, StartReuses
  <2> QED BY <2>1
<1>4. CASE /\ disp[d].seat = Seat0
           /\ \E U \in WithUserDisplay(IF auto THEN IdleDone ELSE untied, auto) :
                Becomes(IF auto THEN Removed(U, {d}) ELSE U)
  <2>1. PICK U \in WithUserDisplay(IF auto THEN IdleDone ELSE untied, auto) :
               Becomes(IF auto THEN Removed(U, {d}) ELSE U)
    BY <1>4
  <2>2. CASE auto
    <3>1. U \in WithUserDisplay(IdleDone, auto) /\ Becomes(Removed(U, {d}))
      BY <2>1, <2>2
    <3>2. Goes(Removed(U, {d}))
      BY <1>4, <2>2, <3>1, StartReplaces
    <3> QED BY <3>2
  <2>3. CASE ~auto
    <3>1. U \in WithUserDisplay(untied, auto) /\ Becomes(U)
      BY <2>1, <2>3
    <3>2. Goes(U)
      BY <1>4, <2>3, <3>1, StartUnties
    <3> QED BY <3>2
  <2> QED BY <2>2, <2>3
<1> QED BY <1>1, <1>2, <1>3, <1>4

(***************************************************************************)
(* The invariant is inductive.                                             *)
(***************************************************************************)
LEMMA InitInv ==
    ASSUME Init
    PROVE  Inv
<1>1. Unused \in Display
  <2>1. -1 \in -1..MaxNumber
    BY DisplaysAssumption
  <2>2. New("none", FALSE, -1) \in Display
    BY <2>1, NewIsDisplay DEF SeatNames
  <2> QED BY <2>2, DisplayUpdates DEF Unused
<1> DEFINE u == Unused
<1>2. /\ u.class = "greeter" /\ ~u.stored /\ u.status = "UNMANAGED" /\ u.env = "none" /\ u.sess = "none"
      /\ u.server = "none" /\ u.num = -1 /\ ~u.leaked /\ ~u.registered /\ ~u.window
  BY DEF Unused, New
<1>3. GoneIsEmpty(u)
  BY ZenonT(40), <1>1 DEF GoneIsEmpty, Unused, New
<1> HIDE DEF u
<1>4. RecordOK(u)
  BY <1>2, <1>3 DEF RecordOK, SeatZeroOK, SessionOK, ServerOK, LogsIn, Ended
<1>5. disp = [d \in Displays |-> u] /\ idles = <<>> /\ used = {} /\ fails = 0 /\ autod = NoDisplay /\ did = FALSE
  BY DEF Init, u
<1>6. World \in Worlds
  <2>1. disp \in [Displays -> Display]
    BY <1>1, <1>5 DEF u
  <2>2. 0 \in 0..(MaxDisplayFailures + 1)
    BY DisplaysAssumption
  <2>3. idles \in Seq(Entries) /\ used \in SUBSET (0..MaxNumber)
    BY <1>5
  <2>4. fails \in 0..(MaxDisplayFailures + 1) /\ autod \in Displays \cup {NoDisplay} /\ did \in BOOLEAN
    BY <1>5, <2>2
  <2> QED BY <2>1, <2>3, <2>4 DEF World, Worlds
<1>7. Range(World.idles) = {} /\ Once(World.idles)
  BY <1>5, WorldIsWorld DEF Range, Once
<1>8. ASSUME NEW d \in Displays PROVE Fine(World, d)
  <2>1. World.disp[d] = u
    BY <1>5, WorldIsWorld
  <2>2. SourcesOK(World, d)
    BY <1>2, <1>7, <2>1 DEF SourcesOK, Queued
  <2>3. AutoOK(World, d)
    BY <1>5, WorldIsWorld, DisplaysAssumption DEF AutoOK
  <2> QED BY <1>4, <2>1, <2>2, <2>3 DEF Fine
<1>9. FineBut(World, {})
  BY <1>6, <1>7, <1>8 DEF FineBut
<1>10. EnvOK
  <2>1. inputs \in 0..MaxInputs /\ seats \subseteq OtherSeats
    BY DisplaysAssumption DEF Init
  <2>2. known \in BOOLEAN /\ exists \in {TRUE, ~AutoLogin}
    BY DEF Init
  <2>3. exists \in BOOLEAN
    BY <2>2, DisplaysAssumption
  <2>4. timer \in BOOLEAN /\ ran \in BOOLEAN /\ up \in BOOLEAN
    BY DEF Init
  <2> QED BY <2>1, <2>2, <2>3, <2>4 DEF EnvOK
<1> QED BY <1>9, <1>10 DEF Inv

LEMMA DisplayStepGoes ==
    ASSUME FineBut(World, {}), seats \subseteq OtherSeats, NEW d \in Displays, DisplayStep(d)
    PROVE  \E V : Goes(V)
BY ServerSignalsGoes, ServerEndsGoes, GreeterStartedGoes, GreeterNeverStartsGoes, GreeterExitsGoes,
   GreeterStoppedGoes, WindowClosesGoes, RegisterDisplayGoes, RegisterSessionGoes,
   UserSessionOpenedGoes, AutomaticLoginOpenedGoes, AutomaticLoginFailsGoes, UserLoadedGoes,
   SessionStartedGoes, UserSessionEndsGoes DEF DisplayStep

(* Every step takes the world to another one that is fine, and steadily.   *)
LEMMA StepGoes ==
    ASSUME Inv, [Next]_vars
    PROVE  \E V : Goes(V)
<1>1. FineBut(World, {}) /\ seats \subseteq OtherSeats
  BY DEF Inv, EnvOK
<1>2. CASE UNCHANGED <<disp, idles, used, fails, autod, did>>
  BY <1>1, <1>2, StaysGoes
<1>3. CASE Start
  BY <1>1, <1>3, StartGoes
<1>4. CASE CreateTransientDisplay
  BY <1>1, <1>4, CreateTransientDisplayGoes
<1>5. CASE \E s \in OtherSeats : SeatNew(s) \/ SeatRemoved(s)
  BY <1>1, <1>5, SeatNewGoes, SeatRemovedGoes
<1>6. CASE \E d \in Displays : DisplayStep(d)
  BY <1>1, <1>6, DisplayStepGoes
<1>7. CASE FinishIdle
  BY <1>1, <1>7, FinishIdleGoes
<1>8. CASE PurgeIdle
  BY <1>1, <1>8, PurgeIdleGoes
<1>9. CASE ReadyIdle
  BY <1>1, <1>9, ReadyIdleGoes
<1>10. CASE StartIdle
  BY <1>1, <1>10, StartIdleGoes
<1>11. CASE StartIdleNull
  BY <1>1, <1>11, StartIdleNullGoes
<1>12. CASE StartIdleCrashes
  BY <1>2, <1>12 DEF StartIdleCrashes
<1>13. CASE \E v \in Vts : FirstVt(v) \/ VtChanged(v)
  <2>1. PICK v : FirstVt(v) \/ VtChanged(v)
    BY <1>13
  <2>2. CASE FirstVt(v)
    BY <1>2, <2>2 DEF FirstVt
  <2>3. CASE VtChanged(v)
    BY <1>1, <2>3, VtChangedGoes
  <2> QED BY <2>1, <2>2, <2>3
<1>14. CASE WaitToFinishTimeout
  BY <1>1, <1>14, WaitToFinishTimeoutGoes
<1>15. CASE UNCHANGED vars
  BY <1>2, <1>15 DEF vars
<1> QED BY <1>3, <1>4, <1>5, <1>6, <1>7, <1>8, <1>9, <1>10, <1>11, <1>12, <1>13, <1>14, <1>15 DEF Next

LEMMA InputKeepsBound ==
    ASSUME inputs \in 0..MaxInputs, Input
    PROVE  inputs' \in 0..MaxInputs
BY DisplaysAssumption DEF Input

LEMMA DisplayStepKeepsEnv ==
    ASSUME EnvOK, NEW d \in Displays, DisplayStep(d)
    PROVE  EnvOK'
<1>1. CASE UNCHANGED env
  BY <1>1 DEF EnvOK, env
<1>2. CASE UserSessionOpened(d)
  <2>1. Input /\ UNCHANGED <<active, timer, seats, ran, known, exists, up>>
    BY <1>2 DEF UserSessionOpened, InputCallback
  <2> QED BY <2>1, InputKeepsBound DEF EnvOK
<1> QED BY <1>1, <1>2
     DEF DisplayStep, ServerSignals, ServerEnds, GreeterStarted, GreeterNeverStarts, GreeterExits,
         GreeterStopped, WindowCloses, RegisterDisplay, RegisterSession, AutomaticLoginOpened,
         AutomaticLoginFails, UserLoaded, SessionStarted, UserSessionEnds, Callback

LEMMA StepKeepsEnv ==
    ASSUME Inv, [Next]_vars
    PROVE  EnvOK'
<1>1. EnvOK /\ World \in Worlds
  BY DEF Inv, FineBut
<1>2. \A d \in Displays : disp[d].registered \in BOOLEAN /\ disp[d].setup \in BOOLEAN
  BY <1>1, WorldIsWorld DEF Worlds, Display
<1>3. CASE UNCHANGED env
  BY <1>1, <1>3 DEF EnvOK, env
<1>4. CASE Start
  BY <1>1, <1>4 DEF Start, EnvOK
<1>5. CASE CreateTransientDisplay
  <2>1. Input /\ UNCHANGED <<active, timer, seats, ran, known, exists, up>>
    BY <1>5 DEF CreateTransientDisplay, InputCallback
  <2> QED BY <1>1, <2>1, InputKeepsBound DEF EnvOK
<1>6. CASE \E s \in OtherSeats : SeatNew(s) \/ SeatRemoved(s)
  <2>1. PICK s \in OtherSeats : SeatNew(s) \/ SeatRemoved(s)
    BY <1>6
  <2>2. CASE SeatNew(s)
    <3>1. Input /\ seats' = seats \cup {s} /\ UNCHANGED <<active, timer, ran, known, exists, up>>
      BY <2>2 DEF SeatNew
    <3> QED BY <1>1, <3>1, InputKeepsBound DEF EnvOK
  <2>3. CASE SeatRemoved(s)
    BY <1>1, <2>3 DEF SeatRemoved, EnvOK
  <2> QED BY <2>1, <2>2, <2>3
<1>7. CASE \E d \in Displays : DisplayStep(d)
  BY <1>1, <1>7, DisplayStepKeepsEnv
<1>8. CASE FinishIdle \/ PurgeIdle \/ ReadyIdle \/ StartIdleNull
  BY <1>3, <1>8 DEF FinishIdle, PurgeIdle, ReadyIdle, StartIdleNull, Callback
<1>9. CASE StartIdle
  <2>1. UNCHANGED <<active, timer, seats, known, exists, up, inputs>>
    BY <1>9 DEF StartIdle
  <2>2. ran' = ran \/ ran' = (ran \/ disp[Head(idles).d].setup)
    BY <1>9 DEF StartIdle
  <2>3. ran' \in BOOLEAN
    BY <1>1, <2>2 DEF EnvOK
  <2> QED BY <1>1, <2>1, <2>3 DEF EnvOK
<1>10. CASE StartIdleCrashes
  BY <1>1, <1>10 DEF StartIdleCrashes, EnvOK
<1>11. CASE \E v \in Vts : FirstVt(v) \/ VtChanged(v)
  <2>1. PICK v : FirstVt(v) \/ VtChanged(v)
    BY <1>11
  <2>2. CASE FirstVt(v)
    BY <1>1, <2>2 DEF FirstVt, EnvOK
  <2>3. CASE VtChanged(v)
    <3>1. Input /\ UNCHANGED <<seats, ran, known, exists, up>>
      BY <2>3 DEF VtChanged
    <3>2. timer' = timer \/ \E d \in Displays : timer' = (timer \/ disp[d].registered)
      BY <2>3 DEF VtChanged, OnSeat, InStore
    <3>3. timer' \in BOOLEAN
      BY <1>1, <3>2 DEF EnvOK
    <3> QED BY <1>1, <3>1, <3>3, InputKeepsBound DEF EnvOK
  <2> QED BY <2>1, <2>2, <2>3
<1>12. CASE WaitToFinishTimeout
  BY <1>1, <1>12 DEF WaitToFinishTimeout, EnvOK
<1>13. CASE UNCHANGED vars
  BY <1>3, <1>13 DEF vars
<1> QED BY <1>4, <1>5, <1>6, <1>7, <1>8, <1>9, <1>10, <1>11, <1>12, <1>13 DEF Next

LEMMA StepKeepsInv ==
    ASSUME Inv, [Next]_vars
    PROVE  Inv'
<1>1. FineBut(World, {})'
  BY StepGoes, GoesKeepsFine
<1>2. EnvOK'
  BY StepKeepsEnv
<1> QED BY <1>1, <1>2 DEF Inv

LEMMA InvIsInvariant == Spec => []Inv
<1>1. Init => Inv
  BY InitInv
<1>2. Inv /\ [Next]_vars => Inv'
  BY StepKeepsInv
<1> QED BY <1>1, <1>2, PTL DEF Spec

(***************************************************************************)
(* The theorems.                                                           *)
(***************************************************************************)
(* Every variable has its type, for any numbers of displays and seats.     *)
THEOREM TypesAreKept == Spec => []TypeOK
<1>1. ASSUME Inv PROVE TypeOK
  <2>1. World \in Worlds /\ EnvOK
    BY <1>1 DEF Inv, FineBut
  <2>2. /\ disp \in [Displays -> Display] /\ idles \in Seq(Entries) /\ used \in SUBSET (0..MaxNumber)
        /\ fails \in 0..(MaxDisplayFailures + 1) /\ autod \in Displays \cup {NoDisplay} /\ did \in BOOLEAN
    BY <2>1, WorldIsWorld DEF Worlds
  <2>3. Entries \subseteq [op : {"finish", "purge", "ready", "start", "start elsewhere"},
                           d : Displays \cup {NoDisplay}]
    BY EntryTypes
  <2>4. Range(idles) \subseteq Entries
    BY <2>2, QueueRange
  <2>5. {did, timer, ran, known, exists, up} \subseteq BOOLEAN
    BY <2>1, <2>2 DEF EnvOK
  <2> QED BY <2>1, <2>2, <2>3, <2>4, <2>5 DEF TypeOK, EnvOK
<1> QED BY <1>1, InvIsInvariant, PTL

(* No greeter outlives its display, whatever takes the display out of the  *)
(* store: a VT switch, a login, a failure, a seat that goes.               *)
THEOREM NoGreeterIsOrphaned == Spec => []NoOrphanGreeter
<1>1. ASSUME Inv PROVE NoOrphanGreeter
  <2> SUFFICES ASSUME NEW d \in Displays, disp[d].env \in Alive PROVE disp[d].stored
    BY DEF NoOrphanGreeter
  <2>1. Known(d)
    BY <1>1, InvKnows DEF Inv
  <2> QED BY <2>1 DEF Known, Alive
<1> QED BY <1>1, InvIsInvariant, PTL

(* No idle source refers to a display object that was given back.          *)
THEOREM NoSourceDangles == Spec => []NoDanglingSource
<1>1. ASSUME Inv PROVE NoDanglingSource
  <2> SUFFICES ASSUME NEW e \in Range(idles), e.d # NoDisplay PROVE disp[e.d].stored
    BY DEF NoDanglingSource
  <2>1. e \in Entries
    <3>1. idles \in Seq(Entries)
      BY <1>1, WorldIsWorld DEF Inv, FineBut, Worlds
    <3> QED BY <3>1, QueueRange
  <2>2. e.op \in {"finish", "ready", "start"}
    BY <2>1, EntryTypes
  <2>3. e.d \in Displays /\ e \in OwnSources(e.d)
    BY <2>1, <2>2, EntryOf DEF OwnSources
  <2>4. Known(e.d) /\ World.idles = idles
    BY <1>1, <2>3, InvKnows, WorldIsWorld DEF Inv
  <2>5. CASE e = ReadyOf(e.d)
    BY <2>4, <2>5 DEF Known, Queued, ReadyOf
  <2>6. CASE e = FinishOf(e.d)
    BY <2>4, <2>6 DEF Known, Queued, FinishOf
  <2>7. CASE e = StartOf(e.d)
    BY <2>4, <2>7 DEF Known, Queued, StartOf
  <2> QED BY <2>3, <2>5, <2>6, <2>7 DEF OwnSources
<1> QED BY <1>1, InvIsInvariant, PTL

(* The display of a greeter that has ended is finished or purged, or the   *)
(* source that does it is queued.                                          *)
THEOREM EndedGreeterLeaves == Spec => []DeadGreeterLeaves
<1>1. ASSUME Inv PROVE DeadGreeterLeaves
  <2> SUFFICES ASSUME NEW d \in Displays, disp[d].stored, disp[d].class = "greeter", ~disp[d].setup,
                      disp[d].env \in {"exited", "stopped"}
               PROVE  \/ [op |-> "finish", d |-> d] \in Range(idles)
                      \/ disp[d].status \in Ended /\ [op |-> "purge", d |-> NoDisplay] \in Range(idles)
    BY DEF DeadGreeterLeaves
  <2>1. Known(d) /\ World.idles = idles
    BY <1>1, InvKnows, WorldIsWorld DEF Inv
  <2> QED BY <2>1 DEF Known, Queued, Purge
<1> QED BY <1>1, InvIsInvariant, PTL

(* What a step becomes, in the primed variables.                           *)
LEMMA StepIsSteady ==
    ASSUME Inv, [Next]_vars
    PROVE  \E V : Steady(World, V) /\ disp' = V.disp /\ autod' = V.autod /\ did' = V.did
BY StepGoes DEF Goes, Becomes

(* A display that has FINISHED or FAILED is never used again, whichever    *)
(* handlers the restarted emissions of its status run.                     *)
THEOREM NoDisplayIsRevived == Spec => EndedStaysEnded
<1>1. ASSUME Inv, [Next]_vars
      PROVE  [\A d \in Displays : disp[d].stored /\ disp[d].status \in Ended /\ ~disp[d].setup
                                    => disp'[d].status \in Ended \/ ~disp'[d].stored]_vars
  <2>1. PICK V : Steady(World, V) /\ disp' = V.disp
    BY <1>1, StepIsSteady
  <2> QED BY <2>1, WorldIsWorld DEF Steady
<1> QED BY <1>1, InvIsInvariant, PTL DEF Spec, EndedStaysEnded

(* The end of a user session of seat0 leaves seat0 with a login screen,    *)
(* if the user of the greeter exists.                                      *)
THEOREM SeatZeroGetsLoginScreen == Spec => LoginScreenReturns
<1>1. ASSUME Inv, [Next]_vars
      PROVE  [UserSessionEnded(Seat0) /\ known => \E g \in Displays : LoginScreen(g, Seat0)']_vars
  <2>1. PICK V : Steady(World, V) /\ disp' = V.disp
    BY <1>1, StepIsSteady
  <2>2. UserSessionEnded(Seat0) /\ known => Screen(V)
    BY <2>1, WorldIsWorld DEF Steady, UserSessionEnded
  <2>3. Screen(V) => \E g \in Displays : LoginScreen(g, Seat0)'
    BY <2>1 DEF Screen, LoginScreen
  <2> QED BY <2>2, <2>3
<1> QED BY <1>1, InvIsInvariant, PTL DEF Spec, LoginScreenReturns

(* An automatic session that came up is not followed by another one.       *)
THEOREM NoSecondAutomaticLogin == Spec => AutomaticLoginOnce
<1>1. ASSUME Inv, [Next]_vars
      PROVE  [/\ autod # NoDisplay /\ autod' = NoDisplay /\ disp[autod].registered => did'
              /\ did /\ autod = NoDisplay =>
                   did' /\ \A d \in Displays : LogsIn(disp'[d]) => LogsIn(disp[d])]_vars
  <2>1. PICK V : Steady(World, V) /\ disp' = V.disp /\ autod' = V.autod /\ did' = V.did
    BY <1>1, StepIsSteady
  <2> QED BY <2>1, WorldIsWorld DEF Steady
<1> QED BY <1>1, InvIsInvariant, PTL DEF Spec, AutomaticLoginOnce
===============================================================================
