------------------------- MODULE DisplayNumbersProofs -------------------------
(***************************************************************************)
(* The X display numbers are unique: a theorem about the displays of the   *)
(* behaviours of TimelySpec, for any numbers of display objects and seats. *)
(*                                                                         *)
(* A display holds its number until it is finished, and the number is then *)
(* free for another display.  A display that was finished once may become  *)
(* FAILED again, when its X server ends, and would give back, if it were   *)
(* finished a second time, a number that is another one's by then.  What   *)
(* prevents that is the order of the main loop's sources: its "finish" can *)
(* only be queued behind the purge that removes the display.  The          *)
(* invariant says so: the displays of a set H hold their numbers, and all  *)
(* the others have returned theirs, or will never do it.                   *)
(***************************************************************************)
EXTENDS DisplaysProofs

(* d will not give its number back any more: nothing that could finish it, *)
(* or launch a session whose end would, runs before it is purged.          *)
Returned(W, d) ==
    LET r == W.disp[d]
    IN /\ r.status \in Ended /\ FinishOf(d) \notin Early(W.idles)
       /\ r.status = "FAILED" => /\ r.server = "none" /\ r.sess \notin {"launched", "running"}
                                 /\ StartOf(d) \notin Early(W.idles)

HasNumber(r) == r.stored /\ r.seat # Seat0

Settled(W, H, d) == HasNumber(W.disp[d]) /\ d \notin H => Returned(W, d)

(* The displays of H hold their numbers, and the others, but those of X,   *)
(* which a handler is changing, do not.                                    *)
Numbered(W, H, X) ==
    /\ H \subseteq Displays
    /\ \A d \in H : HasNumber(W.disp[d]) /\ W.disp[d].num \in W.used
    /\ \A d, e \in H : d # e => W.disp[d].num # W.disp[e].num
    /\ \A d \in Displays \ X : Settled(W, H, d)

Counts(W, X) == \E H : Numbered(W, H, X)

NumbersInv == Inv /\ Counts(World, {})

(***************************************************************************)
(* One display changes.                                                    *)
(***************************************************************************)
SameName(r, s) == s.stored = r.stored /\ s.seat = r.seat /\ s.num = r.num

(* The handlers change d, and queue its sources or a purge.                *)
Alters(W, V, d) ==
    /\ Others(W, V, d) /\ W.used \subseteq V.used
    /\ Early(V.idles) \subseteq Early(W.idles) \cup OwnSources(d) \cup {Purge}

LEMMA NumberedSplits ==
    ASSUME NEW W, NEW H, NEW d \in Displays
    PROVE  /\ Numbered(W, H, {}) => Numbered(W, H, {d})
           /\ Numbered(W, H, {d}) /\ Settled(W, H, d) => Numbered(W, H, {})
BY DEF Numbered

LEMMA AltersReturned ==
    ASSUME NEW W, NEW V, NEW d \in Displays, Alters(W, V, d), NEW e \in Displays \ {d}, Returned(W, e)
    PROVE  Returned(V, e)
<1>1. V.disp[e] = W.disp[e]
  BY DEF Alters, Others
<1>2. FinishOf(e) \notin OwnSources(d) \cup {Purge} /\ StartOf(e) \notin OwnSources(d) \cup {Purge}
  BY OwnSourcesAreOwn, EntriesOfDisplays DEF OwnSources
<1> QED BY <1>1, <1>2 DEF Alters, Returned

LEMMA AltersNumbered ==
    ASSUME NEW W, NEW V, NEW d \in Displays, NEW H, Numbered(W, H, {d}), Alters(W, V, d),
           d \in H => SameName(W.disp[d], V.disp[d])
    PROVE  Numbered(V, H, {d})
<1>1. H \subseteq Displays
  BY DEF Numbered
<1>2. \A e \in H : SameName(W.disp[e], V.disp[e])
  BY <1>1 DEF Alters, Others, SameName
<1>3. \A e \in H : HasNumber(V.disp[e]) /\ V.disp[e].num \in V.used
  BY <1>2 DEF Numbered, Alters, SameName, HasNumber
<1>4. \A e, f \in H : e # f => V.disp[e].num # V.disp[f].num
  BY <1>2 DEF Numbered, SameName
<1>5. ASSUME NEW e \in Displays \ {d} PROVE Settled(V, H, e)
  <2>1. Settled(W, H, e) /\ V.disp[e] = W.disp[e]
    BY DEF Numbered, Alters, Others
  <2> QED BY <2>1, AltersReturned DEF Settled
<1> QED BY <1>1, <1>3, <1>4, <1>5 DEF Numbered

(* The display d gives its number back.                                    *)
LEMMA ReturnsNumbered ==
    ASSUME NEW W, NEW V, NEW d \in Displays, NEW H, Numbered(W, H, {d}), Others(W, V, d),
           V.used = W.used \ {W.disp[d].num}, d \in H \/ W.disp[d].num \notin W.used,
           Early(V.idles) \subseteq Early(W.idles) \cup OwnSources(d) \cup {Purge}
    PROVE  Numbered(V, H \ {d}, {d})
<1>1. H \subseteq Displays /\ \A e \in H \ {d} : V.disp[e] = W.disp[e]
  BY DEF Numbered, Others
<1>2. ASSUME NEW e \in H \ {d} PROVE HasNumber(V.disp[e]) /\ V.disp[e].num \in V.used
  <2>1. HasNumber(W.disp[e]) /\ W.disp[e].num \in W.used
    BY DEF Numbered
  <2>2. W.disp[e].num # W.disp[d].num
    BY <2>1 DEF Numbered
  <2> QED BY <1>1, <2>1, <2>2
<1>3. \A e, f \in H \ {d} : e # f => V.disp[e].num # V.disp[f].num
  BY <1>1 DEF Numbered
<1>4. ASSUME NEW e \in Displays \ {d} PROVE Settled(V, H \ {d}, e)
  <2>1. Settled(W, H, e) /\ V.disp[e] = W.disp[e]
    BY DEF Numbered, Others
  <2>2. FinishOf(e) \notin OwnSources(d) \cup {Purge} /\ StartOf(e) \notin OwnSources(d) \cup {Purge}
    BY OwnSourcesAreOwn, EntriesOfDisplays DEF OwnSources
  <2>3. Returned(W, e) => Returned(V, e)
    BY <2>1, <2>2 DEF Returned
  <2> QED BY <2>1, <2>3 DEF Settled
<1> QED BY <1>1, <1>2, <1>3, <1>4 DEF Numbered

(***************************************************************************)
(* Displays are created.                                                   *)
(***************************************************************************)
LEMMA CreatedNumbered ==
    ASSUME NEW W, NEW V, NEW H, NEW X, Numbered(W, H, X), Created(W, V)
    PROVE  \E K : H \subseteq K /\ Numbered(V, K, X)
<1> DEFINE new == {d \in Displays : W.disp[d] = Unused /\ HasNumber(V.disp[d])}
<1>0. H \subseteq Displays
  BY DEF Numbered
<1>1. \A d \in H : V.disp[d] = W.disp[d] /\ W.disp[d] # Unused /\ W.disp[d].num \in W.used
  <2> SUFFICES ASSUME NEW d \in H
               PROVE  V.disp[d] = W.disp[d] /\ W.disp[d] # Unused /\ W.disp[d].num \in W.used
    OBVIOUS
  <2>1. d \in Displays /\ W.disp[d].stored /\ W.disp[d].seat # Seat0 /\ W.disp[d].num \in W.used
    BY <1>0 DEF Numbered, HasNumber
  <2> QED BY <2>1, UnusedIsNotStored DEF Created, Reused
<1>2. \A d \in new : V.disp[d].num \in V.used \ W.used /\ V.disp[d].seat # Seat0 /\ V.disp[d] # Unused
  <2> SUFFICES ASSUME NEW d \in new
               PROVE  V.disp[d].num \in V.used \ W.used /\ V.disp[d].seat # Seat0 /\ V.disp[d] # Unused
    OBVIOUS
  <2>1. V.disp[d] # Unused /\ V.disp[d].seat # Seat0 /\ ~W.disp[d].stored
    BY UnusedIsNotStored DEF HasNumber
  <2>2. Newborn(W, V, d)
    BY <2>1 DEF Created, Reused, Reusable
  <2> QED BY <2>1, <2>2 DEF Newborn
<1>3. W.used \subseteq V.used /\ KeepsOrder(W.idles, V.idles)
  BY DEF Created
<1>4. \A d \in H \cup new : HasNumber(V.disp[d]) /\ V.disp[d].num \in V.used
  BY <1>1, <1>2, <1>3 DEF Numbered
<1>5. ASSUME NEW d \in H \cup new, NEW e \in H \cup new, d # e PROVE V.disp[d].num # V.disp[e].num
  <2>1. CASE d \in H /\ e \in H
    BY <1>1, <1>5, <2>1 DEF Numbered
  <2>2. CASE d \in new /\ e \in new
    BY <1>2, <1>5, <2>2 DEF Created
  <2> QED BY <1>1, <1>2, <2>1, <2>2
<1>6. ASSUME NEW d \in Displays \ X PROVE Settled(V, H \cup new, d)
  <2> SUFFICES ASSUME HasNumber(V.disp[d]), d \notin H, d \notin new PROVE Returned(V, d)
    BY DEF Settled
  <2>1. V.disp[d] = W.disp[d]
    <3>1. CASE Reused(W, V, d)
      <4>1. V.disp[d].seat = Seat0
        BY <3>1, ReusedIsManaged
      <4> QED BY <4>1 DEF HasNumber
    <3> QED BY <3>1 DEF Created
  <2>2. Returned(W, d)
    BY <2>1 DEF Numbered, Settled
  <2>3. FinishOf(d) # Purge /\ StartOf(d) # Purge
    BY EntriesOfDisplays
  <2> QED BY <1>3, <2>1, <2>2, <2>3 DEF Returned, KeepsOrder
<1>7. Numbered(V, H \cup new, X)
  BY <1>0, <1>4, <1>5, <1>6 DEF Numbered
<1> QED BY <1>7

(***************************************************************************)
(* Displays are unmanaged and finished.                                    *)
(***************************************************************************)
LEMMA ServerStoppedKeepsOrder ==
    ASSUME NEW W \in Worlds, QueueOK(W.idles), NEW d \in Displays, NEW V, V = ServerStopped(W, d)
    PROVE  KeepsOrder(W.idles, V.idles)
<1>1. V.idles = Without(W.idles, {ReadyOf(d)})
  BY DEF ServerStopped, Worlds, ReadyOf
<1>2. Purge \notin {ReadyOf(d)}
  BY EntriesOfDisplays
<1>3. Early(V.idles) \subseteq Early(W.idles) \ {ReadyOf(d)}
  BY <1>1, <1>2, WithoutEarly
<1> QED BY <1>3 DEF KeepsOrder

LEMMA KeptOrderAlters ==
    ASSUME NEW W, NEW V, NEW d, Others(W, V, d), W.used \subseteq V.used, KeepsOrder(W.idles, V.idles)
    PROVE  Alters(W, V, d)
BY DEF Alters, KeepsOrder

(* Unmanaging a display takes no number from anybody, and may create one   *)
(* more display.                                                           *)
LEMMA UnmanageNumbered ==
    ASSUME NEW W, NEW d \in Displays, FineBut(W, {d}), W.disp[d].stored, NEW V \in Unmanage(W, d),
           NEW H, Numbered(W, H, {d})
    PROVE  KeepsOrder(W.idles, V.idles) /\ \E K : H \subseteq K /\ Numbered(V, K, {d})
<1> DEFINE r == W.disp[d]
           n == IF W.fails > MaxDisplayFailures THEN W.fails ELSE W.fails + 1
           A == AutoEnded(W, d, "FAILED")
           B == [A EXCEPT !.disp[d].status = "FAILED", !.fails = n]
           F == QueueIdle(B, "purge", NoDisplay)
           C == AutoEnded(W, d, "UNMANAGED")
           D == [C EXCEPT !.disp[d].status = "UNMANAGED"]
<1>1. W \in Worlds /\ QueueOK(W.idles) /\ r \in Display
  BY DEF FineBut, Worlds, QueueOK
<1>2. \/ V = W
      \/ V = ServerStopped(D, d)
      \/ V = F \/ V \in CreateDisplay(F, r.seat, r.initial)
  BY DEF Unmanage
<1> HIDE DEF A, B, C, D, F, n, r
<1>3. CASE V = ServerStopped(D, d)
  <2>1. C \in Worlds /\ C.disp = W.disp /\ C.idles = W.idles /\ C.used = W.used
    <3>1. C = AutoEnded(W, d, "UNMANAGED")
      BY DEF C
    <3> QED BY ONLY <1>1, <3>1, d \in Displays, AutoEndedResult
  <2>2. /\ D \in Worlds /\ D.disp[d] = [C.disp[d] EXCEPT !.status = "UNMANAGED"] /\ Others(C, D, d)
        /\ D.idles = C.idles /\ D.used = C.used
    <3>1. D = WithStatus(C, d, "UNMANAGED") /\ "UNMANAGED" \in Statuses
      BY DEF D, Statuses, WithStatus
    <3> QED BY ONLY <2>1, <3>1, d \in Displays, StatusResult
  <2>3. D \in Worlds /\ QueueOK(D.idles) /\ V = ServerStopped(D, d)
    BY <1>1, <1>3, <2>1, <2>2
  <2>4. V.disp[d] = [D.disp[d] EXCEPT !.server = "none"] /\ Others(D, V, d) /\ V.used = D.used
    BY ONLY <2>3, d \in Displays, ServerStoppedResult
  <2>5. KeepsOrder(D.idles, V.idles)
    BY ONLY <2>3, d \in Displays, ServerStoppedKeepsOrder
  <2>6. Alters(W, V, d) /\ KeepsOrder(W.idles, V.idles)
    <3>1. Others(W, V, d) /\ V.used = W.used /\ KeepsOrder(W.idles, V.idles)
      BY <2>1, <2>2, <2>4, <2>5 DEF Others
    <3> QED BY <3>1, KeptOrderAlters
  <2>7. SameName(W.disp[d], V.disp[d])
    <3>1. V.disp[d] = [[r EXCEPT !.status = "UNMANAGED"] EXCEPT !.server = "none"]
      BY <2>1, <2>2, <2>4 DEF r
    <3> QED BY <1>1, <3>1 DEF SameName, Display, r
  <2> QED BY <2>6, <2>7, AltersNumbered
<1>4. CASE V = F \/ V \in CreateDisplay(F, r.seat, r.initial)
  <2>1. /\ A \in Worlds /\ A.disp = W.disp /\ A.idles = W.idles /\ A.used = W.used
        /\ W.autod # d => A.autod = W.autod
        /\ W.autod = d => A.autod = NoDisplay
    <3>1. A = AutoEnded(W, d, "FAILED")
      BY DEF A
    <3> QED BY ONLY <1>1, <3>1, d \in Displays, AutoEndedResult
  <2>2. /\ B \in Worlds /\ B.disp[d] = [r EXCEPT !.status = "FAILED"] /\ Others(W, B, d)
        /\ B.idles = W.idles /\ B.used = W.used /\ B.autod = A.autod
    <3>1. n \in 0..(MaxDisplayFailures + 1)
      BY <1>1, DisplaysAssumption DEF Worlds, n
    <3> DEFINE G == [A EXCEPT !.disp[d].status = "FAILED"]
    <3>2. /\ G \in Worlds /\ G.disp[d] = [A.disp[d] EXCEPT !.status = "FAILED"] /\ Others(A, G, d)
          /\ G.idles = A.idles /\ G.used = A.used /\ G.autod = A.autod
      <4>1. G = WithStatus(A, d, "FAILED") /\ "FAILED" \in Statuses
        BY DEF Statuses, WithStatus
      <4> HIDE DEF G
      <4> QED BY ONLY <2>1, <4>1, d \in Displays, StatusResult
    <3>3. B = [G EXCEPT !.fails = n]
      BY <2>1 DEF B, Worlds
    <3> HIDE DEF G
    <3>4. B \in Worlds /\ B.disp = G.disp /\ B.idles = G.idles /\ B.used = G.used /\ B.autod = G.autod
      BY <3>1, <3>2, <3>3 DEF Worlds
    <3> QED BY <2>1, <3>2, <3>4 DEF Others, r
  <2>3. /\ F \in Worlds /\ QueueOK(F.idles) /\ Range(F.idles) = Range(W.idles) \cup {Purge}
        /\ F.disp = B.disp /\ F.used = B.used /\ F.autod = B.autod
        /\ KeepsOrder(B.idles, F.idles)
    BY <1>1, <2>2, PushPurge DEF F
  <2>4. Alters(W, F, d) /\ KeepsOrder(W.idles, F.idles)
    <3>1. Others(W, F, d) /\ F.used = W.used /\ KeepsOrder(W.idles, F.idles)
      BY <2>2, <2>3 DEF Others
    <3> QED BY <3>1, KeptOrderAlters
  <2>5. SameName(W.disp[d], F.disp[d]) /\ F.disp[d].stored
    <3>1. F.disp[d] = [r EXCEPT !.status = "FAILED"]
      BY <2>2, <2>3
    <3>2. W.disp[d] = r /\ r \in Display /\ r.stored
      BY <1>1 DEF r
    <3> HIDE DEF r, F
    <3> QED BY ONLY <3>1, <3>2 DEF SameName, Display
  <2>6. Numbered(F, H, {d})
    BY <2>4, <2>5, AltersNumbered
  <2>7. FineBut(F, {d})
    <3>1. Range(W.idles) \ OwnSources(d) \subseteq Range(F.idles)
          /\ Range(F.idles) \subseteq Range(W.idles) \cup OwnSources(d) \cup {Purge}
      BY <2>3
    <3>2. F.autod \in {W.autod, d, NoDisplay} /\ Others(W, F, d)
      BY <2>1, <2>2, <2>3, <2>4 DEF Alters
    <3> QED BY <2>3, <3>1, <3>2, OneChanges
  <2>8. Created(F, V)
    <3>1. CASE V = F
      BY <2>3, <3>1, CreatedNothing
    <3>2. CASE V \in CreateDisplay(F, r.seat, r.initial)
      <4>1. NoStraySource(F)
        BY <2>5, <2>7, FineLeavesNoStray
      <4>2. r.seat \in SeatNames /\ r.initial \in BOOLEAN
        BY <1>1 DEF Display, SeatNames
      <4> QED BY <2>3, <3>2, <4>1, <4>2, CreateDisplayResult
    <3> QED BY <1>4, <3>1, <3>2
  <2>9. KeepsOrder(W.idles, V.idles)
    BY <2>4, <2>8, KeepsOrderTwice DEF Created
  <2> QED BY <2>6, <2>8, <2>9, CreatedNumbered
<1>5. CASE V = W
  BY <1>5 DEF KeepsOrder
<1> QED BY <1>2, <1>3, <1>4, <1>5

(* A display that is finished gives its number back, if it has one.        *)
LEMMA FinishNumbered ==
    ASSUME NEW W, NEW d \in Displays, FineBut(W, {d}), W.disp[d].stored, seats \subseteq OtherSeats,
           NEW V \in Finish(W, d), NEW H, Numbered(W, H, {d}),
           W.disp[d].status = "FINISHED" \/ d \in H \/ W.disp[d].num \notin W.used
    PROVE  Counts(V, {d})
<1> DEFINE r == W.disp[d]
           A == AutoEnded(W, d, "FINISHED")
           F == GreeterFinished(A, d)
           G == [F EXCEPT !.fails = 0]
           U == [W EXCEPT !.idles = Unqueued(@, d)]
<1>1. W \in Worlds /\ QueueOK(W.idles) /\ r \in Display
  BY DEF FineBut, Worlds, QueueOK
<1>2. \/ V = U
      \/ r.status # "FINISHED" /\ (V = F \/ V \in SyncSeats(G))
  BY DEF Finish
<1> HIDE DEF A, F, G, U, r
<1>3. CASE V = U
  <2>1. QueueOK(Unqueued(W.idles, d)) /\ Unqueued(W.idles, d) = Without(W.idles, {FinishOf(d)})
    BY <1>1, WithoutQueue DEF Unqueued, FinishOf
  <2>2. V.idles = Without(W.idles, {FinishOf(d)}) /\ V.disp = W.disp /\ V.used = W.used
    BY <1>1, <1>3, <2>1 DEF U, Worlds, QueueOK
  <2>3. Purge \notin {FinishOf(d)}
    BY EntriesOfDisplays
  <2>4. Early(V.idles) \subseteq Early(W.idles) \ {FinishOf(d)}
    BY <1>1, <2>2, <2>3, WithoutEarly
  <2>5. Alters(W, V, d) /\ SameName(W.disp[d], V.disp[d])
    BY <2>2, <2>4 DEF Alters, Others, SameName
  <2> QED BY <2>5, AltersNumbered DEF Counts
<1>4. CASE r.status # "FINISHED" /\ (V = F \/ V \in SyncSeats(G))
  <2>1. /\ A \in Worlds /\ A.disp = W.disp /\ A.idles = W.idles /\ A.used = W.used
        /\ W.autod # d => A.autod = W.autod
        /\ W.autod = d => A.autod = NoDisplay
    <3>1. A = AutoEnded(W, d, "FINISHED")
      BY DEF A
    <3> QED BY ONLY <1>1, <3>1, d \in Displays, AutoEndedResult
  <2>2. F = GreeterFinished(A, d) /\ A \in Worlds /\ QueueOK(A.idles)
    BY <1>1, <2>1 DEF F
  <2>3. /\ F \in Worlds /\ QueueOK(F.idles)
        /\ Range(F.idles) = (Range(A.idles) \ {FinishOf(d)}) \cup {Purge}
        /\ F.disp[d] = [A.disp[d] EXCEPT !.status = "FINISHED"]
        /\ Others(A, F, d) /\ F.used = A.used \ {A.disp[d].num}
        /\ F.autod = A.autod /\ KeepsOrder(A.idles, F.idles)
    <3>1. GreeterFinishes(A, F, d)
      BY ONLY <2>2, d \in Displays, GreeterFinishedResult
    <3> QED BY ONLY <3>1 DEF GreeterFinishes
  <2>4. /\ Others(W, F, d) /\ F.used = W.used \ {W.disp[d].num}
        /\ Early(F.idles) \subseteq Early(W.idles) \cup OwnSources(d) \cup {Purge}
    BY <2>1, <2>3 DEF Others, KeepsOrder
  <2>5. d \in H \/ W.disp[d].num \notin W.used
    BY <1>4 DEF r
  <2>6. Numbered(F, H \ {d}, {d})
    BY <2>4, <2>5, ReturnsNumbered
  <2>7. CASE V = F
    BY <2>6, <2>7 DEF Counts
  <2>8. CASE V \in SyncSeats(G)
    <3>1. G \in Worlds /\ G.disp = F.disp /\ G.idles = F.idles /\ G.used = F.used /\ G.autod = F.autod
      <4>1. 0 \in 0..(MaxDisplayFailures + 1)
        BY DisplaysAssumption
      <4> QED BY <2>3, <4>1 DEF G, Worlds
    <3>2. Numbered(G, H \ {d}, {d})
      BY <2>6, <3>1 DEF Numbered, Settled, Returned
    <3>3. FineBut(G, {d})
      <4>1. Range(W.idles) \ OwnSources(d) \subseteq Range(G.idles)
            /\ Range(G.idles) \subseteq Range(W.idles) \cup OwnSources(d) \cup {Purge}
        BY <2>1, <2>3, <3>1 DEF OwnSources
      <4>2. G.autod \in {W.autod, d, NoDisplay} /\ Others(W, G, d) /\ QueueOK(G.idles)
        BY <2>1, <2>3, <2>4, <3>1 DEF Others
      <4> QED BY <3>1, <4>1, <4>2, OneChanges
    <3>4. G.disp[d].stored
      <4>1. G.disp[d] = [r EXCEPT !.status = "FINISHED"] /\ r.stored
        BY <2>1, <2>3, <3>1 DEF r
      <4> QED BY <1>1, <4>1 DEF Display
    <3>5. NoStraySource(G) /\ QueueOK(G.idles)
      BY <2>3, <3>1, <3>3, <3>4, FineLeavesNoStray
    <3>6. Created(G, V)
      BY <2>8, <3>1, <3>5, SyncSeatsResult
    <3> QED BY <3>2, <3>6, CreatedNumbered DEF Counts
  <2> QED BY <1>4, <2>7, <2>8
<1> QED BY <1>2, <1>3, <1>4

(* A display that was finished needs its number no more.                   *)
LEMMA UnmanageAndFinishNumbered ==
    ASSUME NEW W, NEW d \in Displays, FineBut(W, {d}), W.disp[d].stored, seats \subseteq OtherSeats,
           NEW V \in UnmanageAndFinish(W, d), NEW H, Numbered(W, H, {d}),
           d \in H \/ W.disp[d].num = -1
    PROVE  Counts(V, {})
<1>1. PICK U \in Unmanage(W, d) : V \in Finish(U, d)
  BY DEF UnmanageAndFinish, Then
<1>2. PICK K : H \subseteq K /\ Numbered(U, K, {d})
  BY <1>1, UnmanageNumbered
<1>3. Unmanaged(W, U, d)
  BY <1>1, UnmanageResult
<1>4. FineBut(U, {d}) /\ W.disp[d] \in Display /\ U.disp[d] = UnmanagedRecord(W.disp[d])
      /\ U \in Worlds
  BY <1>3 DEF Unmanaged, FineBut, Worlds
<1>5. U.disp[d].stored /\ U.disp[d].num = W.disp[d].num
  BY <1>4, EndedRecords DEF SameButStatus
<1>6. d \in K \/ U.disp[d].num \notin U.used
  <2>1. U.used \subseteq 0..MaxNumber
    BY <1>4 DEF Worlds
  <2>2. -1 \notin U.used
    BY <2>1
  <2> QED BY <1>2, <1>5, <2>2
<1>7. Counts(V, {d})
  BY <1>1, <1>2, <1>4, <1>5, <1>6, FinishNumbered
<1>8. V.disp[d].status = "FINISHED" /\ FinishOf(d) \notin Range(V.idles) /\ QueueOK(V.idles)
  BY UnmanageAndFinishResult DEF Ousted
<1>9. Returned(V, d)
  BY <1>8, EarlyIsQueued DEF Returned, Ended
<1> QED BY <1>7, <1>9, NumberedSplits DEF Counts, Settled

(* The greeter of d has ended.                                             *)
LEMMA QueueFinishAlters ==
    ASSUME NEW W \in Worlds, QueueOK(W.idles), NEW d \in Displays, NEW V, V = QueueIdle(W, "finish", d)
    PROVE  /\ Alters(W, V, d) /\ V.disp = W.disp
           /\ Purge \in Range(W.idles) => Early(V.idles) \subseteq Early(W.idles)
<1>1. FinishOf(d) \in Entries
  BY EntriesOfDisplays
<1>2. V.disp = W.disp /\ V.used = W.used /\ V.idles = Pushed(W.idles, FinishOf(d))
  BY <1>1, QueueIdlePushes DEF FinishOf
<1>3. /\ Early(V.idles) \subseteq Early(W.idles) \cup {FinishOf(d)}
      /\ Purge \in Range(W.idles) => Early(V.idles) \subseteq Early(W.idles)
  BY <1>1, <1>2, PushedEarly
<1> QED BY <1>2, <1>3 DEF Alters, Others, OwnSources

LEMMA SelfDestructNumbered ==
    ASSUME NEW W, NEW d \in Displays, FineBut(W, {d}), W.disp[d].stored, NEW V \in SelfDestruct(W, d),
           NEW H, Numbered(W, H, {}), W.disp[d].status \in Ended => Purge \in Range(W.idles)
    PROVE  Counts(V, {})
<1> DEFINE r == W.disp[d]
<1>0. W \in Worlds /\ QueueOK(W.idles) /\ Numbered(W, H, {d})
  BY NumberedSplits DEF FineBut, Worlds, QueueOK
<1>1. CASE r.status = "MANAGED"
  <2>1. PICK U \in Unmanage(W, d) : V = U \/ V = QueueIdle(U, "finish", d)
    BY <1>1 DEF SelfDestruct, Then
  <2>2. PICK K : H \subseteq K /\ Numbered(U, K, {d})
    BY <1>0, UnmanageNumbered
  <2>3. U \in Worlds /\ QueueOK(U.idles)
    BY UnmanageResult DEF Unmanaged, FineBut
  <2>4. Numbered(V, K, {d})
    <3>1. CASE V = U
      BY <2>2, <3>1
    <3>2. CASE V = QueueIdle(U, "finish", d)
      <4>1. Alters(U, V, d) /\ V.disp = U.disp
        BY <2>3, <3>2, QueueFinishAlters
      <4> QED BY <2>2, <4>1, AltersNumbered DEF SameName
    <3> QED BY <2>1, <3>1, <3>2
  <2>5. HasNumber(V.disp[d]) => d \in K
    <3>1. SameButStatus(r, V.disp[d])
      BY SelfDestructResult DEF Destroyed
    <3>2. ~Returned(W, d)
      BY <1>1 DEF Returned, Ended
    <3> QED BY <2>2, <3>1, <3>2 DEF Numbered, Settled, HasNumber, SameButStatus
  <2> QED BY <2>4, <2>5, NumberedSplits DEF Counts, Settled
<1>2. CASE r.status # "MANAGED"
  <2>1. V = W \/ V = QueueIdle(W, "finish", d)
    BY <1>2 DEF SelfDestruct, Then
  <2>2. CASE V = QueueIdle(W, "finish", d)
    <3>1. /\ Alters(W, V, d) /\ V.disp = W.disp
          /\ Purge \in Range(W.idles) => Early(V.idles) \subseteq Early(W.idles)
      BY <1>0, <2>2, QueueFinishAlters
    <3>2. Numbered(V, H, {d})
      BY <1>0, <3>1, AltersNumbered DEF SameName
    <3>3. Settled(V, H, d)
      BY <3>1 DEF Numbered, Settled, Returned
    <3> QED BY <3>2, <3>3, NumberedSplits DEF Counts
  <2> QED BY <2>1, <2>2 DEF Counts
<1> QED BY <1>1, <1>2

(* The login screens that wait are on seat0 and have no number.            *)
LEMMA WaitOneNumbered ==
    ASSUME NEW W, NEW w, FineBut(w, {}), Counts(w, {}), seats \subseteq OtherSeats,
           NEW d \in InStore(W), NEW V \in WaitOne(W, w, d)
    PROVE  Counts(V, {})
<1>0. d \in Displays
  BY DEF InStore
<1>1. CASE InStore(w) = InStore(W) /\ w.disp[d].status = "WAITING_TO_FINISH"
           /\ V \in UnmanageAndFinish(StopGreeter(w, d), d)
  <2> DEFINE r == w.disp[d]
             p == [r EXCEPT !.env = "none"]
             X == StopGreeter(w, d)
  <2>1. FineBut(w, {d}) /\ Fine(w, d) /\ r \in Display /\ r.stored /\ w \in Worlds
    BY <1>0, <1>1, FineSplits DEF FineBut, Worlds, InStore
  <2>2. p \in Display
    BY <2>1, DisplayUpdates DEF Envs
  <2>3. X = Recorded(w, d, p)
    BY <1>0, <2>1 DEF StopGreeter, Recorded, Worlds
  <2>4. SameName(r, p) /\ r.num = -1
    <3>1. SameName(r, p)
      BY <2>1 DEF SameName, Display
    <3>2. SeatZeroOK(r)
      BY <2>1 DEF Fine, RecordOK
    <3> QED BY <1>1, <3>1, <3>2 DEF SeatZeroOK
  <2> HIDE DEF p, X
  <2>5. FineBut(X, {d}) /\ X.disp[d] = p
    <3>1. Rewritten(w, X, d, p)
      BY <1>0, <2>1, <2>2, <2>3, RecordedKeepsFine
    <3> QED BY <3>1 DEF Rewritten
  <2>6. Others(w, X, d) /\ X.idles = w.idles /\ X.used = w.used
    BY <1>0, <2>1, <2>2, <2>3, RecordedWorld
  <2>7. PICK H : Numbered(w, H, {})
    BY DEF Counts
  <2>8. Alters(w, X, d)
    BY <2>6 DEF Alters
  <2>9. Numbered(X, H, {d})
    BY <1>0, <2>4, <2>5, <2>7, <2>8, NumberedSplits, AltersNumbered
  <2>10. X.disp[d].stored /\ X.disp[d].num = -1 /\ V \in UnmanageAndFinish(X, d)
    BY <1>1, <2>1, <2>4, <2>5 DEF SameName, X
  <2> QED BY <1>0, <2>5, <2>9, <2>10, UnmanageAndFinishNumbered
<1> QED BY <1>1 DEF WaitOne

LEMMA FinishWaitingNumbered ==
    ASSUME NEW W, FineBut(W, {}), Counts(W, {}), seats \subseteq OtherSeats, NEW V \in FinishWaiting(W)
    PROVE  Counts(V, {})
<1> DEFINE all == Waiting(W)
<1>0. IsFiniteSet(all) /\ all \subseteq InStore(W)
  <2>1. all \subseteq Displays /\ all \subseteq InStore(W)
    BY DEF Waiting, InStore
  <2> QED BY <2>1, DisplaysAssumption, FS_Subset
<1>1. PICK f : f = [S \in SUBSET all |-> WaitStep(W, f, S)] /\ FinishWaiting(W) = f[all]
  BY FinishWaitingIsDefined
<1> DEFINE Good(X) == FineBut(X, {}) /\ Counts(X, {})
           P == {S \in SUBSET all : \A X \in f[S] : Good(X)}
<1>2. \A S \in SUBSET all : (\A s \in S : S \ {s} \in P) => S \in P
  <2> SUFFICES ASSUME NEW S \in SUBSET all, \A s \in S : S \ {s} \in P, NEW X \in f[S] PROVE Good(X)
    OBVIOUS
  <2>1. f[S] = WaitStep(W, f, S)
    BY <1>1
  <2>2. CASE S = {}
    <3>1. X = W
      BY <2>1, <2>2 DEF WaitStep
    <3> QED BY <3>1
  <2>3. CASE S # {}
    <3>1. PICK d \in S : X \in WaitFrom(W, f[S \ {d}], d)
      BY <2>1, <2>3 DEF WaitStep
    <3>2. PICK w \in f[S \ {d}] : X \in WaitOne(W, w, d)
      BY <3>1 DEF WaitFrom
    <3>3. Good(w) /\ d \in InStore(W)
      BY <1>0
    <3> HIDE DEF P
    <3> QED BY <3>2, <3>3, WaitOneResult, WaitOneNumbered
  <2> QED BY <2>2, <2>3
<1>3. SUBSET all \subseteq P
  <2> HIDE DEF P, all
  <2> QED BY <1>0, <1>2, SubsetInduction
<1>4. all \in P
  BY <1>3
<1> QED BY <1>1, <1>4

(* Displays that leave the store take no number with them.                 *)
LEMMA AwayNumbered ==
    ASSUME NEW W, NEW V, NEW gone \in SUBSET Displays, Away(W, V, gone), NEW H, NEW X, Numbered(W, H, X),
           \A d \in X \ gone : Settled(V, H, d)
    PROVE  Counts(V, {})
<1> DEFINE K == H \ gone
<1>1. K \subseteq Displays /\ \A d \in K : V.disp[d] = W.disp[d] /\ d \in H
  BY DEF Numbered, Away
<1>2. \A d \in K : HasNumber(V.disp[d]) /\ V.disp[d].num \in V.used
  BY <1>1 DEF Numbered, Away
<1>3. \A d, e \in K : d # e => V.disp[d].num # V.disp[e].num
  BY <1>1 DEF Numbered
<1>4. ASSUME NEW d \in Displays PROVE Settled(V, K, d)
  <2>1. CASE d \in gone
    BY <2>1 DEF Away, Settled, HasNumber
  <2>2. CASE d \in X \ gone
    BY <2>2 DEF Settled
  <2>3. CASE d \notin gone /\ d \notin X
    <3>1. Settled(W, H, d) /\ V.disp[d] = W.disp[d]
      BY <2>3 DEF Numbered, Away
    <3>2. \A x \in OwnSources(d) : x \in Early(V.idles) => x \in Early(W.idles)
      BY <2>3 DEF Away
    <3>3. Returned(W, d) => Returned(V, d)
      BY <3>1, <3>2 DEF Returned, OwnSources
    <3> QED BY <2>3, <3>1, <3>3 DEF Settled
  <2> QED BY <2>1, <2>2, <2>3
<1>5. Numbered(V, K, {})
  BY <1>1, <1>2, <1>3, <1>4 DEF Numbered
<1> QED BY <1>5 DEF Counts

(***************************************************************************)
(* The steps.                                                              *)
(***************************************************************************)
LEMMA BecomesCounts ==
    ASSUME NEW V, Becomes(V), Counts(V, {})
    PROVE  Counts(World, {})'
<1>1. PICK H : Numbered(V, H, {})
  BY DEF Counts
<1>2. disp' = V.disp /\ idles' = V.idles /\ used' = V.used
  BY DEF Becomes
<1>3. Numbered(World, H, {})'
  BY <1>1, <1>2 DEF Numbered, Settled, Returned, HasNumber, World
<1> QED BY <1>3 DEF Counts

LEMMA WorldCounts ==
    ASSUME FineBut(World, {}), Counts(World, {}), NEW d \in Displays
    PROVE  /\ World \in Worlds /\ QueueOK(World.idles) /\ World.disp[d] = disp[d]
           /\ Known(d) /\ disp[d] \in Display
           /\ \E H : Numbered(World, H, {}) /\ Numbered(World, H, {d})
<1>1. Known(d) /\ World \in Worlds /\ QueueOK(World.idles)
  BY InvKnows
<1>2. PICK H : Numbered(World, H, {})
  BY DEF Counts
<1>3. Numbered(World, H, {d})
  BY <1>2, NumberedSplits
<1> QED BY <1>1, <1>2, <1>3, WorldIsWorld DEF Known

(* The record r of a display that has a number may become s.               *)
Keeps(r, s) ==
    r.status \in Ended =>
      /\ s.status = r.status /\ s.server = r.server
      /\ s.sess \in {"launched", "running"} => r.sess \in {"launched", "running"}

LEMMA KeepsReturned ==
    ASSUME NEW W, NEW V, NEW d, Returned(W, d), Keeps(W.disp[d], V.disp[d]),
           Early(V.idles) \subseteq Early(W.idles)
    PROVE  Returned(V, d)
BY DEF Returned, Keeps

LEMMA RewriteCounts ==
    ASSUME FineBut(World, {}), Counts(World, {}), NEW d \in Displays, NEW s \in Display,
           NEW V, V = Recorded(World, d, s),
           HasNumber(disp[d]) \/ HasNumber(s) => SameName(disp[d], s) /\ Keeps(disp[d], s)
    PROVE  Counts(V, {})
<1>1. World \in Worlds /\ World.disp[d] = disp[d]
  BY WorldCounts
<1>2. PICK H : Numbered(World, H, {}) /\ Numbered(World, H, {d})
  BY WorldCounts
<1>3. V.disp[d] = s /\ Others(World, V, d) /\ V.idles = World.idles /\ V.used = World.used
  BY <1>1, RecordedWorld
<1>4. Alters(World, V, d)
  BY <1>3 DEF Alters
<1>5. d \in H => SameName(World.disp[d], V.disp[d])
  BY <1>1, <1>2, <1>3 DEF Numbered
<1>6. Numbered(V, H, {d})
  BY <1>2, <1>4, <1>5, AltersNumbered
<1>7. Settled(V, H, d)
  <2> SUFFICES ASSUME HasNumber(V.disp[d]), d \notin H PROVE Returned(V, d)
    BY DEF Settled
  <2>1. SameName(disp[d], s) /\ Keeps(disp[d], s)
    BY <1>3
  <2>2. Returned(World, d)
    BY <1>1, <1>2, <1>3, <2>1 DEF Numbered, Settled, HasNumber, SameName
  <2> QED BY <1>1, <1>3, <2>1, <2>2, KeepsReturned
<1> QED BY <1>6, <1>7, NumberedSplits DEF Counts

LEMMA QueueCounts ==
    ASSUME FineBut(World, {}), Counts(World, {}), NEW d \in Displays, NEW s \in Display, NEW op,
           [op |-> op, d |-> d] \in OwnSources(d),
           NEW V, V = QueueIdle(Recorded(World, d, s), op, d),
           SameName(disp[d], s), Keeps(disp[d], s)
    PROVE  Counts(V, {})
<1> DEFINE X == Recorded(World, d, s)
           e == [op |-> op, d |-> d]
<1>1. World \in Worlds /\ World.disp[d] = disp[d] /\ Known(d) /\ QueueOK(World.idles)
  BY WorldCounts
<1>2. PICK H : Numbered(World, H, {}) /\ Numbered(World, H, {d})
  BY WorldCounts
<1>3. V = QueueIdle(X, op, d) /\ X = Recorded(World, d, s)
  OBVIOUS
<1> HIDE DEF X
<1>4. X \in Worlds /\ X.disp[d] = s /\ Others(World, X, d) /\ X.idles = World.idles /\ X.used = World.used
  BY <1>1, <1>3, RecordedWorld
<1>5. e \in Entries
  BY EntriesOfDisplays DEF OwnSources
<1>6. V.disp = X.disp /\ V.used = X.used /\ V.idles = Pushed(X.idles, e)
  BY <1>1, <1>3, <1>4, <1>5, QueueIdlePushes
<1>7. /\ Early(V.idles) \subseteq Early(World.idles) \cup {e}
      /\ Purge \in Range(World.idles) => Early(V.idles) \subseteq Early(World.idles)
  BY <1>1, <1>4, <1>5, <1>6, PushedEarly
<1>8. Alters(World, V, d)
  BY <1>4, <1>6, <1>7 DEF Alters, Others
<1>9. Numbered(V, H, {d})
  BY <1>1, <1>2, <1>4, <1>6, <1>8, AltersNumbered
<1>10. Settled(V, H, d)
  <2> SUFFICES ASSUME HasNumber(V.disp[d]), d \notin H PROVE Returned(V, d)
    BY DEF Settled
  <2>1. HasNumber(disp[d]) /\ Keeps(World.disp[d], V.disp[d])
    BY <1>1, <1>4, <1>6 DEF HasNumber, SameName
  <2>2. Returned(World, d)
    BY <1>1, <1>2, <2>1 DEF Numbered, Settled
  <2>3. Purge \in Range(World.idles)
    BY <1>1, <2>1, <2>2 DEF Known, HasNumber, Returned
  <2> QED BY <1>7, <2>1, <2>2, <2>3, KeepsReturned
<1> QED BY <1>9, <1>10, NumberedSplits DEF Counts

LEMMA GreeterStartedCounts ==
    ASSUME FineBut(World, {}), Counts(World, {}), NEW d \in Displays, GreeterStarted(d)
    PROVE  Counts(World, {})'
<1> DEFINE r == disp[d]
           t == [r EXCEPT !.env = "running"]
           s == [t EXCEPT !.window = TRUE]
           V == [World EXCEPT !.disp[d].env = "running", !.disp[d].window = TRUE]
<1>1. Becomes(V)
  BY CallbackOne DEF GreeterStarted
<1>2. r \in Display /\ World \in Worlds /\ World.disp[d] = r
  BY WorldCounts
<1>3. t \in Display /\ s \in Display
  BY <1>2, DisplayUpdates DEF Envs
<1>4. V = Recorded(World, d, s)
  BY <1>2 DEF Recorded, Worlds, Display
<1>5. SameName(r, s) /\ Keeps(r, s)
  BY <1>2 DEF SameName, Keeps, Display
<1> HIDE DEF r, s, t, V
<1>6. Counts(V, {})
  BY <1>3, <1>4, <1>5, RewriteCounts DEF r
<1> QED BY <1>1, <1>6, BecomesCounts

LEMMA GreeterNeverStartsCounts ==
    ASSUME FineBut(World, {}), Counts(World, {}), NEW d \in Displays, GreeterNeverStarts(d)
    PROVE  Counts(World, {})'
<1>0. PICK x \in BOOLEAN : Becomes([World EXCEPT !.disp[d].env = "failed", !.disp[d].window = x])
  BY DEF GreeterNeverStarts, Callback
<1> DEFINE r == disp[d]
           t == [r EXCEPT !.env = "failed"]
           s == [t EXCEPT !.window = x]
           V == [World EXCEPT !.disp[d].env = "failed", !.disp[d].window = x]
<1>1. Becomes(V)
  BY <1>0
<1>2. r \in Display /\ World \in Worlds /\ World.disp[d] = r
  BY WorldCounts
<1>3. t \in Display /\ s \in Display
  BY <1>2, DisplayUpdates DEF Envs
<1>4. V = Recorded(World, d, s)
  BY <1>2 DEF Recorded, Worlds, Display
<1>5. SameName(r, s) /\ Keeps(r, s)
  BY <1>2 DEF SameName, Keeps, Display
<1> HIDE DEF r, s, t, V
<1>6. Counts(V, {})
  BY <1>3, <1>4, <1>5, RewriteCounts DEF r
<1> QED BY <1>1, <1>6, BecomesCounts

LEMMA WindowClosesCounts ==
    ASSUME FineBut(World, {}), Counts(World, {}), NEW d \in Displays, WindowCloses(d)
    PROVE  Counts(World, {})'
<1> DEFINE r == disp[d]
           t == [r EXCEPT !.window = FALSE]
           s == IF r.stored \/ r.leaked THEN t ELSE Unused
           V == [World EXCEPT !.disp[d] = IF disp[d].stored \/ disp[d].leaked
                                          THEN [@ EXCEPT !.window = FALSE] ELSE Unused]
<1>1. Becomes(V)
  BY CallbackOne DEF WindowCloses
<1>2. r \in Display /\ World \in Worlds /\ World.disp[d] = r
  BY WorldCounts
<1>3. t \in Display /\ s \in Display
  <2>1. -1 \in -1..MaxNumber
    BY DisplaysAssumption
  <2>2. New("none", FALSE, -1) \in Display
    BY <2>1, NewIsDisplay DEF SeatNames
  <2>3. Unused \in Display
    BY <2>2, DisplayUpdates DEF Unused
  <2> QED BY <1>2, <2>3, DisplayUpdates
<1>4. V = Recorded(World, d, s)
  BY <1>2 DEF Recorded, Worlds
<1>5. HasNumber(r) \/ HasNumber(s) => SameName(r, s) /\ Keeps(r, s)
  <2>1. SameName(r, t) /\ Keeps(r, t)
    BY <1>2 DEF SameName, Keeps, Display
  <2>2. CASE r.stored \/ r.leaked
    <3>1. s = t
      BY <2>2
    <3> QED BY <2>1, <3>1
  <2>3. CASE ~(r.stored \/ r.leaked)
    <3>1. s = Unused
      BY <2>3
    <3> QED BY <2>3, <3>1, UnusedIsNotStored DEF HasNumber
  <2> QED BY <2>2, <2>3
<1> HIDE DEF r, s, t, V
<1>6. Counts(V, {})
  BY <1>3, <1>4, <1>5, RewriteCounts DEF r
<1> QED BY <1>1, <1>6, BecomesCounts

LEMMA RegisterDisplayCounts ==
    ASSUME FineBut(World, {}), Counts(World, {}), NEW d \in Displays, RegisterDisplay(d)
    PROVE  Counts(World, {})'
<1> DEFINE r == disp[d]
           s == [r EXCEPT !.status = "MANAGED"]
           V == [World EXCEPT !.disp[d].status = "MANAGED"]
<1>1. Becomes(V) /\ r.status \in {"PREPARED", "UNMANAGED"}
  BY CallbackOne DEF RegisterDisplay
<1>2. r \in Display /\ World \in Worlds /\ World.disp[d] = r
  BY WorldCounts
<1>3. s \in Display
  BY <1>2, DisplayUpdates DEF Statuses
<1>4. V = Recorded(World, d, s)
  BY <1>2 DEF Recorded, Worlds
<1>5. SameName(r, s) /\ Keeps(r, s)
  BY <1>1, <1>2 DEF SameName, Keeps, Display, Ended
<1> HIDE DEF r, s, V
<1>6. Counts(V, {})
  BY <1>3, <1>4, <1>5, RewriteCounts DEF r
<1> QED BY <1>1, <1>6, BecomesCounts

LEMMA AutomaticLoginFailsCounts ==
    ASSUME FineBut(World, {}), Counts(World, {}), NEW d \in Displays, AutomaticLoginFails(d)
    PROVE  Counts(World, {})'
<1> DEFINE r == disp[d]
           s == [r EXCEPT !.sess = "dead"]
           V == [World EXCEPT !.disp[d].sess = "dead"]
<1>1. Becomes(V)
  BY CallbackOne DEF AutomaticLoginFails
<1>2. r \in Display /\ World \in Worlds /\ World.disp[d] = r
  BY WorldCounts
<1>3. s \in Display
  BY <1>2, DisplayUpdates DEF Sessions
<1>4. V = Recorded(World, d, s)
  BY <1>2 DEF Recorded, Worlds
<1>5. SameName(r, s) /\ Keeps(r, s)
  BY <1>2 DEF SameName, Keeps, Display
<1> HIDE DEF r, s, V
<1>6. Counts(V, {})
  BY <1>3, <1>4, <1>5, RewriteCounts DEF r
<1> QED BY <1>1, <1>6, BecomesCounts

LEMMA SessionStartedCounts ==
    ASSUME FineBut(World, {}), Counts(World, {}), NEW d \in Displays, SessionStarted(d)
    PROVE  Counts(World, {})'
<1> DEFINE r == disp[d]
           s == [r EXCEPT !.sess = "running"]
           V == [World EXCEPT !.disp[d].sess = "running"]
<1>1. Becomes(V) /\ r.sess = "launched"
  BY CallbackOne DEF SessionStarted
<1>2. r \in Display /\ World \in Worlds /\ World.disp[d] = r
  BY WorldCounts
<1>3. s \in Display
  BY <1>2, DisplayUpdates DEF Sessions
<1>4. V = Recorded(World, d, s)
  BY <1>2 DEF Recorded, Worlds
<1>5. SameName(r, s) /\ Keeps(r, s)
  BY <1>1, <1>2 DEF SameName, Keeps, Display
<1> HIDE DEF r, s, V
<1>6. Counts(V, {})
  BY <1>3, <1>4, <1>5, RewriteCounts DEF r
<1> QED BY <1>1, <1>6, BecomesCounts

LEMMA UserSessionOpenedCounts ==
    ASSUME FineBut(World, {}), Counts(World, {}), NEW d \in Displays, UserSessionOpened(d)
    PROVE  Counts(World, {})'
<1> DEFINE r == disp[d]
           s == [r EXCEPT !.sess = "starting"]
           X == [World EXCEPT !.disp[d].sess = "starting"]
           V == QueueIdle(X, "start", d)
<1>1. Becomes(V)
  BY DEF UserSessionOpened, InputCallback
<1>2. r \in Display /\ World \in Worlds /\ World.disp[d] = r
  BY WorldCounts
<1>3. s \in Display
  BY <1>2, DisplayUpdates DEF Sessions
<1>4. X = Recorded(World, d, s)
  BY <1>2 DEF Recorded, Worlds
<1>5. SameName(r, s) /\ Keeps(r, s)
  BY <1>2 DEF SameName, Keeps, Display
<1> HIDE DEF r, s, X, V
<1>6. V = QueueIdle(Recorded(World, d, s), "start", d) /\ [op |-> "start", d |-> d] \in OwnSources(d)
  BY <1>4 DEF V, OwnSources, StartOf
<1>7. Counts(V, {})
  BY <1>3, <1>5, <1>6, QueueCounts DEF r
<1> QED BY <1>1, <1>7, BecomesCounts

LEMMA AutomaticLoginOpenedCounts ==
    ASSUME FineBut(World, {}), Counts(World, {}), NEW d \in Displays, AutomaticLoginOpened(d)
    PROVE  Counts(World, {})'
<1> DEFINE r == disp[d]
           s == [r EXCEPT !.sess = "autostart"]
           X == [World EXCEPT !.disp[d].sess = "autostart"]
           V == QueueIdle(X, "start", d)
<1>1. Becomes(V)
  BY CallbackOne DEF AutomaticLoginOpened
<1>2. r \in Display /\ World \in Worlds /\ World.disp[d] = r
  BY WorldCounts
<1>3. s \in Display
  BY <1>2, DisplayUpdates DEF Sessions
<1>4. X = Recorded(World, d, s)
  BY <1>2 DEF Recorded, Worlds
<1>5. SameName(r, s) /\ Keeps(r, s)
  BY <1>2 DEF SameName, Keeps, Display
<1> HIDE DEF r, s, X, V
<1>6. V = QueueIdle(Recorded(World, d, s), "start", d) /\ [op |-> "start", d |-> d] \in OwnSources(d)
  BY <1>4 DEF V, OwnSources, StartOf
<1>7. Counts(V, {})
  BY <1>3, <1>5, <1>6, QueueCounts DEF r
<1> QED BY <1>1, <1>7, BecomesCounts

LEMMA ServerSignalsCounts ==
    ASSUME FineBut(World, {}), Counts(World, {}), NEW d \in Displays, ServerSignals(d)
    PROVE  Counts(World, {})'
<1> DEFINE r == disp[d]
           s == [r EXCEPT !.server = "signalled"]
           X == [World EXCEPT !.disp[d].server = "signalled"]
           V == QueueIdle(X, "ready", d)
<1>1. Becomes(V) /\ r.server = "starting"
  BY CallbackOne DEF ServerSignals
<1>2. r \in Display /\ World \in Worlds /\ World.disp[d] = r /\ r.status = "PREPARED"
  BY <1>1, WorldCounts DEF Known, RecordOK, ServerOK
<1>3. s \in Display
  BY <1>2, DisplayUpdates DEF Servers
<1>4. X = Recorded(World, d, s)
  BY <1>2 DEF Recorded, Worlds
<1>5. SameName(r, s) /\ Keeps(r, s)
  BY <1>2 DEF SameName, Keeps, Display, Ended
<1> HIDE DEF r, s, X, V
<1>6. V = QueueIdle(Recorded(World, d, s), "ready", d) /\ [op |-> "ready", d |-> d] \in OwnSources(d)
  BY <1>4 DEF V, OwnSources, ReadyOf
<1>7. Counts(V, {})
  BY <1>3, <1>5, <1>6, QueueCounts DEF r
<1> QED BY <1>1, <1>7, BecomesCounts

(* Timely is needed here: a display whose session is about to start would  *)
(* get a second end.                                                       *)
LEMMA ServerEndsCounts ==
    ASSUME FineBut(World, {}), Counts(World, {}), Timely, NEW d \in Displays, ServerEnds(d)
    PROVE  Counts(World, {})'
<1> DEFINE r == disp[d]
<1>1. PICK U \in Unmanage(World, d) : r.server # "none" /\ Becomes(ServerStopped(U, d))
  BY DEF ServerEnds, Callback
<1> DEFINE V == ServerStopped(U, d)
           s == V.disp[d]
<1>2. Known(d) /\ World.disp[d] = r /\ r \in Display /\ FineBut(World, {d}) /\ QueueOK(World.idles)
  BY WorldCounts, FineSplits
<1>3. r.stored /\ RecordOK(r) /\ (r.registered => r.status = "MANAGED")
  BY <1>1, <1>2 DEF Known, RecordOK, ServerOK
<1>4. PICK H : Numbered(World, H, {}) /\ Numbered(World, H, {d})
  BY WorldCounts
<1>5. PICK K : H \subseteq K /\ Numbered(U, K, {d}) /\ KeepsOrder(World.idles, U.idles)
  <2>1. World.disp[d].stored /\ FineBut(World, {d}) /\ Numbered(World, H, {d}) /\ U \in Unmanage(World, d)
    BY <1>1, <1>2, <1>3, <1>4
  <2>2. KeepsOrder(World.idles, U.idles) /\ \E K : H \subseteq K /\ Numbered(U, K, {d})
    BY ONLY <2>1, d \in Displays, UnmanageNumbered
  <2> QED BY <2>2
<1>6. Unmanaged(World, U, d)
  BY <1>1, <1>2, <1>3, UnmanageResult
<1>7. U \in Worlds /\ QueueOK(U.idles) /\ U.disp[d] = UnmanagedRecord(r)
      /\ (StartOf(d) \in Range(U.idles) => StartOf(d) \in Range(World.idles))
  BY <1>2, <1>6 DEF Unmanaged, FineBut
<1>8. /\ U.disp[d] \in Display /\ SameButStatus(r, U.disp[d])
      /\ U.disp[d].status = (IF r.registered THEN "UNMANAGED" ELSE "FAILED")
  BY <1>2, <1>7, EndedRecords
<1>9. V = ServerStopped(U, d) /\ Becomes(V)
  BY <1>1
<1> HIDE DEF r, s, V
<1>10. /\ QueueOK(V.idles) /\ Range(V.idles) = Range(U.idles) \ {ReadyOf(d)}
       /\ s = [U.disp[d] EXCEPT !.server = "none"] /\ Others(U, V, d) /\ V.used = U.used
  BY <1>7, <1>9, ServerStoppedResult DEF s
<1>11. KeepsOrder(U.idles, V.idles)
  BY <1>7, <1>9, ServerStoppedKeepsOrder
<1>12. /\ SameName(U.disp[d], s) /\ SameName(r, s) /\ s.server = "none" /\ s.sess = r.sess
       /\ s.status = (IF r.registered THEN "UNMANAGED" ELSE "FAILED")
  BY <1>8, <1>10 DEF SameName, SameButStatus, Display
<1>13. Numbered(V, K, {d})
  <2>1. Alters(U, V, d)
    BY <1>10, <1>11, KeptOrderAlters
  <2> QED BY <1>5, <1>12, <2>1, AltersNumbered DEF s
<1>14. Settled(V, K, d)
  <2> SUFFICES ASSUME HasNumber(s), d \notin K PROVE Returned(V, d)
    BY DEF Settled, s
  <2>1. HasNumber(r) /\ Returned(World, d)
    BY <1>2, <1>4, <1>5, <1>12 DEF HasNumber, SameName, Numbered, Settled
  <2>2. r.status = "FINISHED"
    BY <1>1, <1>2, <2>1 DEF Returned, Ended, r
  <2>3. s.status = "FAILED"
    BY <1>3, <1>12, <2>2
  <2>4. r.sess \notin {"starting", "launched", "running", "autostart"}
    <3>1. r.sess \notin {"starting", "launched", "running"}
      BY <2>1, <2>2 DEF Timely, HasNumber, r
    <3>2. ~LogsIn(r)
      BY <1>3, <2>1 DEF RecordOK, SessionOK, HasNumber
    <3> QED BY <3>1, <3>2 DEF LogsIn
  <2>5. StartOf(d) \notin Early(V.idles)
    <3>1. StartOf(d) \notin Range(World.idles)
      BY <1>2, <2>4 DEF Known, Queued, StartOf, r
    <3>2. StartOf(d) \notin Range(V.idles)
      BY <1>7, <1>10, <3>1
    <3> QED BY <1>10, <3>2, EarlyIsQueued
  <2>6. FinishOf(d) \notin Early(V.idles)
    <3>1. KeepsOrder(World.idles, V.idles)
      BY <1>5, <1>11, KeepsOrderTwice
    <3> QED BY <2>1, <3>1, EntriesOfDisplays DEF KeepsOrder, Returned
  <2> QED BY <1>12, <2>3, <2>4, <2>5, <2>6 DEF Returned, Ended, s
<1>15. Counts(V, {})
  BY <1>13, <1>14, NumberedSplits DEF Counts
<1> QED BY <1>9, <1>15, BecomesCounts

(* The world in which the end of the session, or of the look-up, of d has  *)
(* been noted.                                                             *)
LEMMA NotedNumbered ==
    ASSUME FineBut(World, {}), Counts(World, {}), NEW d \in Displays, NEW s \in Display,
           NEW V, V = Recorded(World, d, s), SameName(disp[d], s)
    PROVE  /\ FineBut(V, {d}) /\ V.disp[d] = s /\ V.idles = World.idles
           /\ \E H : Numbered(World, H, {}) /\ Numbered(V, H, {d})
<1>1. World \in Worlds /\ World.disp[d] = disp[d] /\ FineBut(World, {d})
  BY WorldCounts, FineSplits
<1>2. PICK H : Numbered(World, H, {}) /\ Numbered(World, H, {d})
  BY WorldCounts
<1>3. V.disp[d] = s /\ Others(World, V, d) /\ V.idles = World.idles /\ V.used = World.used
  BY <1>1, RecordedWorld
<1>4. Alters(World, V, d)
  BY <1>3 DEF Alters
<1>5. Numbered(V, H, {d})
  BY <1>1, <1>2, <1>3, <1>4, AltersNumbered
<1>6. FineBut(V, {d})
  BY <1>1, RecordedKeepsFine DEF Rewritten
<1> QED BY <1>2, <1>3, <1>5, <1>6

LEMMA UserSessionEndsCounts ==
    ASSUME FineBut(World, {}), seats \subseteq OtherSeats, Counts(World, {}), Timely,
           NEW d \in Displays, UserSessionEnds(d)
    PROVE  Counts(World, {})'
<1> DEFINE r == disp[d]
           w == [r EXCEPT !.sess = "none"]
           W == [World EXCEPT !.disp[d].sess = "none"]
<1>1. PICK V \in UnmanageAndFinish(W, d) : r.sess \in {"launched", "running"} /\ Becomes(V)
  BY DEF UserSessionEnds, Callback
<1>2. Known(d) /\ World \in Worlds /\ World.disp[d] = r /\ r \in Display
  BY WorldCounts
<1>3. r.stored /\ RecordOK(r)
  BY <1>1, <1>2 DEF Known
<1>4. w \in Display /\ SameName(r, w)
  <2>1. w \in Display
    BY <1>2, DisplayUpdates DEF Sessions
  <2> QED BY <1>2, <2>1 DEF SameName, Display
<1>5. W = Recorded(World, d, w)
  BY <1>2 DEF Recorded, Worlds
<1> HIDE DEF r, w, W
<1>6. PICK H : /\ FineBut(W, {d}) /\ W.disp[d] = w
               /\ Numbered(World, H, {}) /\ Numbered(W, H, {d})
  BY <1>4, <1>5, NotedNumbered DEF r
<1>7. W.disp[d].stored /\ W.disp[d].num = r.num
  BY <1>3, <1>4, <1>6 DEF SameName
<1>8. d \in H \/ r.num = -1
  <2> SUFFICES ASSUME d \notin H, r.num # -1 PROVE FALSE
    OBVIOUS
  <2>1. r.seat # Seat0
    BY <1>3 DEF RecordOK, SeatZeroOK
  <2>2. Returned(World, d)
    BY <1>2, <1>3, <1>6, <2>1 DEF Numbered, Settled, HasNumber
  <2>3. r.status = "FINISHED"
    BY <1>1, <1>2, <2>2 DEF Returned, Ended
  <2> QED BY <1>1, <2>1, <2>3 DEF Timely, r
<1>9. Counts(V, {})
  BY <1>1, <1>6, <1>7, <1>8, UnmanageAndFinishNumbered
<1> QED BY <1>1, <1>9, BecomesCounts

LEMMA UserLoadedCounts ==
    ASSUME FineBut(World, {}), seats \subseteq OtherSeats, Counts(World, {}),
           NEW d \in Displays, UserLoaded(d)
    PROVE  Counts(World, {})'
<1> DEFINE r == disp[d]
           w == [r EXCEPT !.sess = "none"]
           W == [World EXCEPT !.disp[d].sess = "none"]
           A == [W EXCEPT !.disp[d].sess = "auto"]
<1>1. /\ r.sess = "lookup"
      /\ \/ Becomes(A)
         \/ Becomes(StartGreeter(W, d))
         \/ \E V \in UnmanageAndFinish(W, d) : Becomes(V)
  BY DEF UserLoaded, Callback
<1>2. Known(d) /\ World \in Worlds /\ World.disp[d] = r /\ r \in Display
  BY WorldCounts
<1>3. r.stored /\ r.seat = Seat0 /\ r.num = -1
  BY <1>1, <1>2 DEF Known, RecordOK, SessionOK, SeatZeroOK, LogsIn
<1>4. w \in Display /\ SameName(r, w)
  <2>1. w \in Display
    BY <1>2, DisplayUpdates DEF Sessions
  <2> QED BY <1>2, <2>1 DEF SameName, Display
<1>5. W = Recorded(World, d, w)
  BY <1>2 DEF Recorded, Worlds
<1>6. CASE Becomes(A)
  <2> DEFINE s == [r EXCEPT !.sess = "auto"]
  <2>1. s \in Display /\ s.seat = Seat0
    <3>1. s \in Display
      BY <1>2, DisplayUpdates DEF Sessions
    <3> QED BY <1>2, <1>3, <3>1 DEF Display
  <2>2. A = Recorded(World, d, s)
    BY <1>2 DEF Recorded, Worlds
  <2> HIDE DEF s, A, w, W
  <2>3. Counts(A, {})
    BY <1>3, <2>1, <2>2, RewriteCounts DEF HasNumber
  <2> QED BY <1>6, <2>3, BecomesCounts
<1>7. CASE Becomes(StartGreeter(W, d))
  <2> DEFINE s == [w EXCEPT !.sess = "fresh", !.env = "starting"]
             B == StartGreeter(W, d)
  <2>1. W \in Worlds /\ W.disp[d] = w
    <3> HIDE DEF w, W
    <3> QED BY <1>2, <1>4, <1>5, RecordedWorld
  <2>2. s \in Display /\ B = Recorded(W, d, s)
    BY <2>1, StartGreeterResult
  <2>3. B = Recorded(World, d, s)
    <3> HIDE DEF s, w, B, W
    <3> QED BY <1>2, <1>5, <2>2 DEF Recorded, Worlds
  <2>4. s.seat = Seat0
    BY <1>2, <1>3 DEF Display
  <2> HIDE DEF s, B, w, W
  <2>5. Counts(B, {})
    BY <1>3, <2>2, <2>3, <2>4, RewriteCounts DEF HasNumber
  <2> QED BY <1>7, <2>5, BecomesCounts DEF B
<1>8. CASE \E V \in UnmanageAndFinish(W, d) : Becomes(V)
  <2>1. PICK V \in UnmanageAndFinish(W, d) : Becomes(V)
    BY <1>8
  <2> HIDE DEF r, w, W
  <2>2. PICK H : /\ FineBut(W, {d}) /\ W.disp[d] = w
                 /\ Numbered(World, H, {}) /\ Numbered(W, H, {d})
    BY <1>4, <1>5, NotedNumbered DEF r
  <2>3. W.disp[d].stored /\ W.disp[d].num = -1
    BY <1>3, <1>4, <2>2 DEF SameName
  <2>4. Counts(V, {})
    BY <2>1, <2>2, <2>3, UnmanageAndFinishNumbered
  <2> QED BY <2>1, <2>4, BecomesCounts
<1> QED BY <1>1, <1>6, <1>7, <1>8

LEMMA GreeterEndCounts ==
    ASSUME FineBut(World, {}), Counts(World, {}), NEW d \in Displays, NEW x \in {"exited", "stopped"},
           disp[d].env \in {"running", "exited"},
           NEW W, W = Recorded(World, d, [disp[d] EXCEPT !.env = x]),
           NEW V \in SelfDestruct(W, d), Becomes(V)
    PROVE  Counts(World, {})'
<1> DEFINE r == disp[d]
           w == [r EXCEPT !.env = x]
<1>1. Known(d) /\ World.disp[d] = r /\ r \in Display
  BY WorldCounts
<1>2. r.stored /\ (r.status \in Ended => Purge \in Range(World.idles))
  BY <1>1 DEF Known
<1>3. w \in Display
  <2>1. x \in Envs
    BY DEF Envs
  <2> QED BY <1>1, <2>1, DisplayUpdates
<1>4. SameName(r, w) /\ Keeps(r, w) /\ w.status = r.status
  BY <1>1 DEF SameName, Keeps, Display
<1>5. W = Recorded(World, d, w)
  OBVIOUS
<1> HIDE DEF r, w
<1>6. Counts(W, {})
  BY <1>3, <1>4, <1>5, RewriteCounts DEF r
<1>7. FineBut(W, {d}) /\ W.disp[d] = w /\ W.idles = World.idles
  BY <1>3, <1>4, <1>5, NotedNumbered DEF r
<1>8. PICK H : Numbered(W, H, {})
  BY <1>6 DEF Counts
<1>9. W.disp[d].stored /\ (W.disp[d].status \in Ended => Purge \in Range(W.idles))
  BY <1>2, <1>4, <1>7 DEF SameName
<1>10. Counts(V, {})
  BY <1>7, <1>8, <1>9, SelfDestructNumbered
<1> QED BY <1>10, BecomesCounts

LEMMA GreeterExitsCounts ==
    ASSUME FineBut(World, {}), Counts(World, {}), NEW d \in Displays, GreeterExits(d)
    PROVE  Counts(World, {})'
<1> DEFINE W == [World EXCEPT !.disp[d].env = "exited"]
<1>1. PICK V \in SelfDestruct(W, d) : Becomes(V)
  BY DEF GreeterExits, Callback
<1>2. World \in Worlds /\ World.disp[d] = disp[d]
  BY WorldCounts
<1>3. W = Recorded(World, d, [disp[d] EXCEPT !.env = "exited"])
  BY <1>2 DEF Recorded, Worlds
<1> HIDE DEF W
<1>4. disp[d].env \in {"running", "exited"}
  BY DEF GreeterExits
<1> QED BY <1>1, <1>3, <1>4, GreeterEndCounts

LEMMA GreeterStoppedCounts ==
    ASSUME FineBut(World, {}), Counts(World, {}), NEW d \in Displays, GreeterStopped(d)
    PROVE  Counts(World, {})'
<1> DEFINE W == [World EXCEPT !.disp[d].env = "stopped"]
<1>1. PICK V \in SelfDestruct(W, d) : Becomes(V)
  BY DEF GreeterStopped, Callback
<1>2. World \in Worlds /\ World.disp[d] = disp[d]
  BY WorldCounts
<1>3. W = Recorded(World, d, [disp[d] EXCEPT !.env = "stopped"])
  BY <1>2 DEF Recorded, Worlds
<1> HIDE DEF W
<1>4. disp[d].env \in {"running", "exited"}
  BY DEF GreeterStopped
<1> QED BY <1>1, <1>3, <1>4, GreeterEndCounts

(***************************************************************************)
(* The steps that create displays, and those that finish the ones that     *)
(* wait.                                                                   *)
(***************************************************************************)
LEMMA CreatedCounts ==
    ASSUME NEW W, Counts(W, {}), NEW V, Created(W, V)
    PROVE  Counts(V, {})
BY CreatedNumbered DEF Counts

LEMMA StartCounts ==
    ASSUME FineBut(World, {}), seats \subseteq OtherSeats, Counts(World, {}), Start
    PROVE  Counts(World, {})'
<1>1. PICK V \in SyncSeats(World) : Becomes(V)
  BY DEF Start
<1>2. Created(World, V)
  BY WorldHasNoStray, SyncSeatsResult
<1> QED BY <1>1, <1>2, CreatedCounts, BecomesCounts

LEMMA SeatNewCounts ==
    ASSUME FineBut(World, {}), Counts(World, {}), NEW s \in OtherSeats, SeatNew(s)
    PROVE  Counts(World, {})'
<1>1. PICK V \in CreateDisplay(World, s, FALSE) : Becomes(V)
  BY DEF SeatNew
<1>2. s \in SeatNames /\ FALSE \in BOOLEAN
  BY DEF SeatNames
<1>3. Created(World, V)
  BY <1>2, WorldHasNoStray, CreateDisplayResult
<1> QED BY <1>1, <1>3, CreatedCounts, BecomesCounts

LEMMA CreateTransientDisplayCounts ==
    ASSUME FineBut(World, {}), Counts(World, {}), CreateTransientDisplay
    PROVE  Counts(World, {})'
<1>1. PICK V \in NewDisplay(World, Seat0, TRUE) : Becomes(V)
  BY DEF CreateTransientDisplay, InputCallback
<1>2. Created(World, V)
  BY WorldHasNoStray, NewDisplayOnSeatZero
<1> QED BY <1>1, <1>2, CreatedCounts, BecomesCounts

LEMMA WaitToFinishTimeoutCounts ==
    ASSUME FineBut(World, {}), seats \subseteq OtherSeats, Counts(World, {}), WaitToFinishTimeout
    PROVE  Counts(World, {})'
<1>1. PICK V \in FinishWaiting(World) : Becomes(V)
  BY DEF WaitToFinishTimeout
<1> QED BY <1>1, FinishWaitingNumbered, BecomesCounts

LEMMA RegisterSessionCounts ==
    ASSUME FineBut(World, {}), seats \subseteq OtherSeats, Counts(World, {}),
           NEW d \in Displays, RegisterSession(d)
    PROVE  Counts(World, {})'
<1> DEFINE r == disp[d]
           s == [r EXCEPT !.registered = TRUE]
           W == [World EXCEPT !.disp[d].registered = TRUE]
<1>1. PICK V \in FinishWaiting(W) : Becomes(V)
  BY DEF RegisterSession, Callback
<1>2. r.stored /\ r.status \in {"MANAGED", "WAITING_TO_FINISH"}
  BY DEF RegisterSession
<1>3. Known(d) /\ World \in Worlds /\ r \in Display /\ RecordOK(r)
  BY WorldCounts DEF Known
<1>5. s \in Display
  BY <1>3, DisplayUpdates
<1>6. W = Recorded(World, d, s)
  BY <1>3, WorldIsWorld DEF Recorded, Worlds
<1>7. /\ s.seat = r.seat /\ s.class = r.class /\ s.initial = r.initial /\ s.setup = r.setup
      /\ s.stored = r.stored /\ s.registered /\ s.env = r.env /\ s.window = r.window
      /\ s.sess = r.sess /\ s.num = r.num /\ s.leaked = r.leaked /\ s.status = r.status
      /\ s.server = r.server
  BY <1>3 DEF Display
<1> HIDE DEF r, s, W
<1>8. RecordOK(s)
  BY <1>2, <1>3, <1>7 DEF RecordOK, GoneIsEmpty, SeatZeroOK, SessionOK, ServerOK, LogsIn
<1>9. W.disp[d] = s /\ W.idles = World.idles /\ W.autod = autod
      /\ \A op : Queued(W, op, d) <=> Queued(World, op, d)
  BY <1>3, <1>5, <1>6, RecordedIdles
<1>10. SourcesOK(W, d)
  BY <1>2, <1>3, <1>7, <1>9 DEF Known, SourcesOK, Ended, r
<1>11. autod = d => AutoOK(W, d)
  BY <1>2, <1>3, <1>7, <1>9 DEF Known, AutoOK, Ended, r
<1>12. FineBut(W, {})
  BY <1>5, <1>6, <1>8, <1>10, <1>11, RecordedIsFine
<1>13. SameName(r, s) /\ Keeps(r, s)
  BY <1>7 DEF SameName, Keeps
<1>14. Counts(W, {})
  BY <1>5, <1>6, <1>13, RewriteCounts DEF r
<1> QED BY <1>1, <1>12, <1>14, FinishWaitingNumbered, BecomesCounts

LEMMA VtChangedCounts ==
    ASSUME FineBut(World, {}), Counts(World, {}), NEW v, VtChanged(v)
    PROVE  Counts(World, {})'
<1> DEFINE ws == LoginWindows(World, Seat0)
           left(login) == IF login # NoDisplay /\ VtOf(login) = active
                            THEN Background(World, login) ELSE World
<1>1. PICK login \in IF ws = {} THEN {NoDisplay} ELSE ws :
        \E V \in IF v = "initial" THEN CreateDisplay(left(login), Seat0, TRUE)
                 ELSE {left(login)} : Becomes(V)
  BY DEF VtChanged
<1> DEFINE W == left(login)
<1>2. PICK V : /\ Becomes(V)
               /\ V \in CreateDisplay(W, Seat0, TRUE) \/ V = W
  BY <1>1
<1>3. W \in {World, Background(World, login)} /\ (login \notin ws => W = World)
  BY <1>1
<1>4. W.idles = World.idles /\ W \in Worlds /\ NoStraySource(W) /\ Counts(W, {})
  <2>1. World \in Worlds /\ NoStraySource(World)
    BY WorldHasNoStray
  <2>2. CASE W = World
    BY <2>1, <2>2
  <2>3. CASE W # World
    <3> DEFINE r == disp[login]
               s == [r EXCEPT !.status = "WAITING_TO_FINISH"]
    <3>1. login \in Displays /\ W = [World EXCEPT !.disp[login].status = "WAITING_TO_FINISH"]
          /\ r.status = "MANAGED"
      BY <1>3, <2>3 DEF Background, LoginWindows
    <3>2. r \in Display /\ World.disp = disp
      BY <3>1, <2>1, WorldIsWorld DEF Worlds
    <3>3. s \in Display
      BY <3>2, DisplayUpdates DEF Statuses
    <3>4. s.stored = r.stored /\ SameName(r, s) /\ Keeps(r, s)
      BY <3>1, <3>2 DEF Display, SameName, Keeps, Ended
    <3>5. W = Recorded(World, login, s)
      BY <2>1, <3>1, <3>2 DEF Recorded, Worlds
    <3>6. login \in Displays /\ World \in Worlds
      BY <2>1, <3>1
    <3> HIDE DEF r, s, W
    <3>7. W \in Worlds /\ W.disp[login] = s /\ Others(World, W, login) /\ W.idles = World.idles
      BY ONLY <3>3, <3>5, <3>6, RecordedWorld
    <3>8. NoStraySource(W)
      BY <2>1, <3>2, <3>4, <3>7 DEF NoStraySource, Others, r
    <3>9. Counts(W, {})
      BY <3>3, <3>4, <3>5, <3>6, RewriteCounts DEF r
    <3> QED BY <3>7, <3>8, <3>9
  <2> QED BY <2>2, <2>3
<1>5. QueueOK(W.idles) /\ Seat0 \in SeatNames /\ TRUE \in BOOLEAN
  BY <1>4, WorldHasNoStray DEF SeatNames
<1> HIDE DEF W
<1>6. Created(W, V) \/ V = W
  BY <1>2, <1>4, <1>5, CreateDisplayResult
<1>7. Counts(V, {})
  BY <1>4, <1>6, CreatedCounts
<1> QED BY <1>2, <1>7, BecomesCounts


(***************************************************************************)
(* The sources of the main loop.                                           *)
(***************************************************************************)
LEMMA SeatRemovedCounts ==
    ASSUME FineBut(World, {}), Counts(World, {}), NEW s \in OtherSeats, SeatRemoved(s)
    PROVE  Counts(World, {})'
<1> DEFINE gone == OnSeat(World, s)
           V == Removed(World, gone)
           X == {}
<1>1. Becomes(V)
  BY DEF SeatRemoved
<1>2. gone \in SUBSET Displays /\ Away(World, V, gone)
  BY SeatRemovedAway
<1>3. PICK H : Numbered(World, H, X)
  BY DEF Counts
<1>4. \A d \in X \ gone : Settled(V, H, d)
  OBVIOUS
<1> HIDE DEF gone, V, X
<1>5. Counts(V, {})
  BY ONLY <1>2, <1>3, <1>4, AwayNumbered
<1> QED BY <1>1, <1>5, BecomesCounts

(* The purge takes every display away that has returned its number: the    *)
(* sources that were queued behind it can do no harm any more.             *)
LEMMA PurgeIdleCounts ==
    ASSUME FineBut(World, {}), Counts(World, {}), PurgeIdle
    PROVE  Counts(World, {})'
<1> DEFINE gone == Outdated
           W == IdleDone
           V == Removed(W, gone)
           X == Displays
<1>1. idles # <<>> /\ Head(idles).op = "purge" /\ Becomes(V)
  BY CallbackOne DEF PurgeIdle, IdleIs, Outdated
<1>2. /\ W.disp = disp /\ W.used = used /\ gone \in SUBSET Displays /\ Away(W, V, gone)
      /\ \A d \in Displays : d \in gone <=> disp[d].stored /\ disp[d].status \in Ended
  BY <1>1, PurgeIdleAway
<1>3. PICK H : Numbered(World, H, {})
  BY DEF Counts
<1>4. World.disp = disp /\ World.used = used
  BY DEF World
<1> HIDE DEF gone, W, V
<1>5. Numbered(W, H, X)
  BY <1>2, <1>3, <1>4 DEF Numbered
<1>6. ASSUME NEW d \in X \ gone PROVE Settled(V, H, d)
  <2> SUFFICES ASSUME HasNumber(V.disp[d]), d \notin H PROVE FALSE
    BY DEF Settled
  <2>1. V.disp[d] = disp[d]
    BY <1>2 DEF Away
  <2>2. Returned(World, d)
    BY <1>3, <1>4, <2>1 DEF Numbered, Settled
  <2> QED BY <1>2, <1>4, <2>1, <2>2 DEF Returned, HasNumber
<1> HIDE DEF X
<1>7. Counts(V, {})
  BY <1>2, <1>5, <1>6, AwayNumbered
<1> QED BY <1>1, <1>7, BecomesCounts

(* The first source, which is no purge, is taken from the queue.           *)
LEMMA PoppedNumbered ==
    ASSUME FineBut(World, {}), Counts(World, {}), idles # <<>>, Head(idles) # Purge
    PROVE  /\ IdleDone \in Worlds /\ QueueOK(IdleDone.idles) /\ IdleDone.disp = disp
           /\ Head(idles) \in Early(World.idles)
           /\ \E H : Numbered(World, H, {}) /\ Numbered(IdleDone, H, {})
<1> DEFINE W == IdleDone
<1>1. World.disp = disp /\ World.used = used /\ World.idles = idles
      /\ World \in Worlds /\ QueueOK(idles)
  BY WorldIsWorld, WorldHasNoStray DEF World
<1>2. W \in Worlds /\ QueueOK(W.idles) /\ W.disp = disp /\ W.used = used
  BY <1>1, IdleDoneWorld
<1>3. W.idles = Tail(idles)
  BY <1>1 DEF IdleDone, Worlds
<1>4. Head(idles) \in Early(World.idles) /\ Early(W.idles) \subseteq Early(World.idles)
  BY <1>1, <1>3, TailEarly
<1>5. PICK H : Numbered(World, H, {})
  BY DEF Counts
<1> HIDE DEF W
<1>6. ASSUME NEW d \in Displays PROVE Settled(W, H, d)
  <2>1. Returned(World, d) => Returned(W, d)
    BY <1>1, <1>2, <1>4 DEF Returned
  <2> QED BY <1>1, <1>2, <1>5, <2>1 DEF Numbered, Settled
<1>7. Numbered(W, H, {})
  BY <1>1, <1>2, <1>5, <1>6 DEF Numbered
<1> QED BY <1>2, <1>4, <1>5, <1>7 DEF W

(* A display can be finished once only while it is in the store: the end   *)
(* of a display that has returned its number is queued behind the purge.   *)
LEMMA FinishIdleCounts ==
    ASSUME FineBut(World, {}), seats \subseteq OtherSeats, Counts(World, {}), FinishIdle
    PROVE  Counts(World, {})'
<1> DEFINE d == Head(idles).d
           W == IdleDone
<1>1. PICK V \in Finish(W, d) : idles # <<>> /\ Head(idles).op = "finish" /\ Becomes(V)
  BY DEF FinishIdle, IdleIs, Callback
<1>2. World \in Worlds /\ QueueOK(idles)
  BY WorldHasNoStray, WorldIsWorld
<1>3. d \in Displays /\ Head(idles) = FinishOf(d)
  BY <1>1, <1>2, IdleDoneWorld, EntryOf
<1>4. Popped(d, FinishOf(d))
  BY <1>1, <1>3, PoppedSource DEF OwnSources
<1>5. Known(d) /\ World.disp[d] = disp[d]
  BY <1>3, WorldCounts
<1> HIDE DEF d
<1>6. Head(idles) # Purge
  BY <1>3, EntriesOfDisplays
<1>7. PICK H : /\ Numbered(World, H, {}) /\ Numbered(W, H, {})
               /\ FinishOf(d) \in Early(World.idles) /\ W.disp = disp /\ W \in Worlds
  BY <1>1, <1>3, <1>6, PoppedNumbered
<1>8. Numbered(W, H, {d}) /\ FineBut(W, {d})
  BY <1>3, <1>4, <1>7, NumberedSplits DEF Popped
<1>9. disp[d] \in Display /\ RecordOK(disp[d]) /\ disp[d].stored
  BY <1>4, <1>5 DEF Known, Popped, Queued, FinishOf
<1>10. d \in H \/ disp[d].num \notin W.used
  <2>1. CASE disp[d].seat = Seat0
    <3>1. disp[d].num = -1
      BY <1>9, <2>1 DEF RecordOK, SeatZeroOK
    <3>2. W.used \subseteq 0..MaxNumber
      BY <1>7 DEF Worlds
    <3> QED BY <3>1, <3>2
  <2>2. CASE disp[d].seat # Seat0
    <3>1. ~Returned(World, d)
      BY <1>7 DEF Returned
    <3> QED BY <1>3, <1>5, <1>7, <1>9, <2>2, <3>1 DEF Numbered, Settled, HasNumber
  <2> QED BY <2>1, <2>2
<1> HIDE DEF W
<1>11. V \in Finish(W, d) /\ W.disp[d].stored /\ (d \in H \/ W.disp[d].num \notin W.used)
  BY <1>1, <1>7, <1>9, <1>10
<1>12. Counts(V, {d})
  BY <1>3, <1>8, <1>11, FinishNumbered
<1>13. Finished(W, V, d)
  BY <1>3, <1>8, <1>11, FinishResult
<1>14. Returned(V, d)
  <2>1. W.disp[d] \in Display
    BY <1>7, <1>9
  <2>2. V.disp[d].status = "FINISHED" /\ FinishOf(d) \notin Range(V.idles) /\ QueueOK(V.idles)
    BY <1>13, <2>1, EndedRecords DEF Finished
  <2> QED BY <2>2, EarlyIsQueued DEF Returned, Ended
<1>15. Counts(V, {})
  BY <1>3, <1>12, <1>14, NumberedSplits DEF Counts, Settled
<1> QED BY <1>1, <1>15, BecomesCounts

(* A display that has no number, before and after, changes.                *)
LEMMA NumberlessChange ==
    ASSUME NEW W, NEW V, NEW d \in Displays, NEW H, Numbered(W, H, {}), Others(W, V, d),
           V.used = W.used, V.idles = W.idles, ~HasNumber(W.disp[d]), ~HasNumber(V.disp[d])
    PROVE  Numbered(V, H, {})
<1>1. Alters(W, V, d)
  BY DEF Alters
<1>2. d \notin H
  BY DEF Numbered
<1>3. Numbered(V, H, {d})
  BY <1>1, <1>2, AltersNumbered, NumberedSplits
<1> QED BY <1>3, NumberedSplits DEF Settled

(* A display whose X server is ready still has its number.                 *)
LEMMA ReadyIdleCounts ==
    ASSUME FineBut(World, {}), Counts(World, {}), ReadyIdle
    PROVE  Counts(World, {})'
<1> DEFINE d == Head(idles).d
           r == disp[d]
           w == [r EXCEPT !.server = "up"]
           m == [w EXCEPT !.status = "MANAGED"]
           W == [IdleDone EXCEPT !.disp[d].server = "up"]
           M == [W EXCEPT !.disp[d].status = "MANAGED"]
<1>1. PICK V : (V \in Unmanage(W, d) \/ V \in SetUpSession(M, d)) /\ Becomes(V)
  BY DEF ReadyIdle, Callback, Connected
<1>2. /\ d \in Displays /\ Popped(d, ReadyOf(d)) /\ r \in Display /\ r.stored
      /\ r.status = "PREPARED" /\ r.seat # Seat0
  BY ReadyIdleKnows
<1>3. idles # <<>> /\ Head(idles) # Purge
  <2>1. idles # <<>> /\ Head(idles).op = "ready"
    BY DEF ReadyIdle, IdleIs
  <2> QED BY <2>1 DEF Purge
<1>4. PICK H : /\ Numbered(World, H, {}) /\ Numbered(IdleDone, H, {})
               /\ IdleDone \in Worlds /\ IdleDone.disp = disp
  BY <1>3, PoppedNumbered
<1>5. w \in Display /\ m \in Display
  BY <1>2, DisplayUpdates DEF Servers, Statuses
<1>6. W = Recorded(IdleDone, d, w)
  <2> HIDE DEF d
  <2> QED BY <1>4 DEF Recorded, Worlds
<1>7. SameName(r, w) /\ SameName(w, m)
  BY <1>2, <1>5 DEF SameName, Display
<1>8. d \in H
  <2>1. World.disp[d] = r
    BY WorldIsWorld
  <2>2. ~Returned(World, d)
    BY <1>2, <2>1 DEF Returned, Ended
  <2> QED BY <1>2, <1>4, <2>1, <2>2 DEF Numbered, Settled, HasNumber
<1> HIDE DEF d, r, w, m, W
<1>9. /\ W \in Worlds /\ W.disp[d] = w /\ Others(IdleDone, W, d)
      /\ W.idles = IdleDone.idles /\ W.used = IdleDone.used
  BY <1>2, <1>4, <1>5, <1>6, RecordedWorld
<1>10. FineBut(W, {d})
  BY <1>2, <1>5, <1>6, RecordedKeepsFine DEF Popped, Rewritten
<1>11. Numbered(W, H, {d})
  <2>1. Alters(IdleDone, W, d)
    BY <1>9 DEF Alters
  <2>2. IdleDone.disp[d] = r
    BY <1>4 DEF r
  <2> QED BY <1>2, <1>4, <1>7, <1>9, <2>1, <2>2, AltersNumbered, NumberedSplits
<1>12. CASE V \in Unmanage(W, d)
  <2>1. W.disp[d].stored
    BY <1>2, <1>7, <1>9 DEF SameName
  <2>2. PICK K : H \subseteq K /\ Numbered(V, K, {d})
    BY <1>2, <1>10, <1>11, <1>12, <2>1, UnmanageNumbered
  <2>3. Numbered(V, K, {})
    BY <1>2, <1>8, <2>2, NumberedSplits DEF Settled
  <2>4. Counts(V, {})
    BY <2>3 DEF Counts
  <2> QED BY <1>1, <2>4, BecomesCounts
<1>13. CASE V \in SetUpSession(M, d)
  <2>1. M = Recorded(W, d, m)
    BY <1>9 DEF Recorded, Worlds, M, m
  <2> HIDE DEF M
  <2>2. /\ M \in Worlds /\ M.disp[d] = m /\ Others(W, M, d)
        /\ M.idles = W.idles /\ M.used = W.used
    BY <1>2, <1>5, <1>9, <2>1, RecordedWorld
  <2>3. QueueOK(M.idles)
    BY <1>2, <1>9, <2>2 DEF Popped
  <2>4. Numbered(M, H, {d})
    <3>1. Alters(W, M, d)
      BY <2>2 DEF Alters
    <3> QED BY <1>2, <1>7, <1>9, <1>11, <2>2, <3>1, AltersNumbered
  <2>5. SetUp(M, V, d) /\ M.disp[d].seat # Seat0
    <3>1. SetUp(M, V, d)
      BY <1>2, <1>13, <2>2, <2>3, SetUpSessionResult
    <3> QED BY <1>2, <1>7, <2>2, <3>1 DEF SameName
  <2>6. CASE /\ V.disp[d] = [m EXCEPT !.sess = "fresh", !.env = "starting"]
             /\ V.idles = M.idles /\ V.used = M.used
    <3>1. Alters(M, V, d)
      BY <2>5, <2>6 DEF Alters, SetUp
    <3>2. SameName(M.disp[d], V.disp[d])
      BY <1>5, <2>2, <2>6 DEF SameName, Display
    <3>3. Numbered(V, H, {d})
      BY <1>2, <2>4, <3>1, <3>2, AltersNumbered
    <3>4. Numbered(V, H, {})
      BY <1>2, <1>8, <3>3, NumberedSplits DEF Settled
    <3>5. Counts(V, {})
      BY <3>4 DEF Counts
    <3> QED BY <1>1, <3>5, BecomesCounts
  <2>7. CASE /\ V.disp[d] = [m EXCEPT !.status = "FINISHED"] /\ FinishOf(d) \notin Early(V.idles)
             /\ V.used = M.used \ {M.disp[d].num}
    <3>1. Others(M, V, d) /\ Early(V.idles) \subseteq Early(M.idles) \cup OwnSources(d) \cup {Purge}
      BY <2>5 DEF SetUp, KeepsOrder
    <3>2. Numbered(V, H \ {d}, {d})
      BY <1>2, <1>8, <2>4, <2>7, <3>1, ReturnsNumbered
    <3>3. Returned(V, d)
      <4>1. V.disp[d].status = "FINISHED"
        BY <1>5, <2>7 DEF Display
      <4> QED BY <2>7, <4>1 DEF Returned, Ended
    <3>4. Counts(V, {})
      BY <1>2, <3>2, <3>3, NumberedSplits DEF Counts, Settled
    <3> QED BY <1>1, <3>4, BecomesCounts
  <2> QED BY <2>2, <2>5, <2>6, <2>7 DEF SetUp
<1> QED BY <1>1, <1>12, <1>13

(* A source that starts the session of d.                                  *)
LEMMA StartNumbered ==
    ASSUME FineBut(World, {}), Counts(World, {}), StartIdle, NEW d, d = Head(idles).d
    PROVE  /\ StartKnows(d) /\ d \in Displays /\ disp[d] \in Display /\ disp[d].stored
           /\ IdleDone \in Worlds /\ IdleDone.disp = disp /\ FineBut(IdleDone, {d})
           /\ StartOf(d) \in Early(World.idles) /\ World.disp[d] = disp[d]
           /\ \E H : Numbered(World, H, {}) /\ Numbered(IdleDone, H, {}) /\ Numbered(IdleDone, H, {d})
<1>1. StartKnows(d)
  BY StartIdleKnows
<1>2. d \in Displays /\ Popped(d, StartOf(d)) /\ disp[d] \in Display /\ disp[d].stored
  BY <1>1 DEF StartKnows
<1>3. idles # <<>> /\ Head(idles).op = "start"
  BY DEF StartIdle, IdleIs
<1>4. Head(idles) = StartOf(d) /\ d # NoDisplay
  <2>1. World \in Worlds /\ QueueOK(idles)
    BY WorldHasNoStray, WorldIsWorld
  <2>2. d # NoDisplay
    BY <1>2, DisplaysAssumption
  <2> QED BY <1>3, <2>1, <2>2, IdleDoneWorld, EntryOf
<1>5. Head(idles) # Purge
  BY <1>3 DEF Purge
<1>6. PICK H : /\ Numbered(World, H, {}) /\ Numbered(IdleDone, H, {})
               /\ IdleDone \in Worlds /\ IdleDone.disp = disp /\ StartOf(d) \in Early(World.idles)
  BY <1>3, <1>4, <1>5, PoppedNumbered
<1>7. Numbered(IdleDone, H, {d})
  BY <1>2, <1>6, NumberedSplits
<1> QED BY <1>1, <1>2, <1>6, <1>7, WorldIsWorld DEF Popped

LEMMA StartResetsCounts ==
    ASSUME FineBut(World, {}), Counts(World, {}), StartIdle, NEW d, d = Head(idles).d,
           NEW x \in {"dead", "fresh"}, NEW V, V = [IdleDone EXCEPT !.disp[d].sess = x]
    PROVE  Counts(V, {})
<1> DEFINE r == disp[d]
           s == [r EXCEPT !.sess = x]
           W == IdleDone
<1>1. PICK H : /\ d \in Displays /\ r \in Display /\ W \in Worlds /\ W.disp = disp
               /\ Numbered(W, H, {}) /\ Numbered(W, H, {d})
  BY StartNumbered
<1>2. s \in Display
  BY <1>1, DisplayUpdates DEF Sessions
<1>3. V = Recorded(W, d, s)
  BY <1>1 DEF Recorded, Worlds
<1>4. SameName(r, s) /\ Keeps(r, s)
  BY <1>1 DEF SameName, Keeps, Display
<1> HIDE DEF s, W
<1>5. V.disp[d] = s /\ Others(W, V, d) /\ V.idles = W.idles /\ V.used = W.used
  <2>1. W \in Worlds /\ d \in Displays
    BY <1>1
  <2> QED BY ONLY <1>2, <1>3, <2>1, RecordedWorld
<1>6. Numbered(V, H, {d})
  <2>1. Alters(W, V, d)
    BY <1>5 DEF Alters
  <2>2. SameName(W.disp[d], V.disp[d]) /\ d \in Displays /\ Numbered(W, H, {d})
    BY <1>1, <1>4, <1>5
  <2> QED BY ONLY <2>1, <2>2, AltersNumbered
<1>7. Settled(V, H, d)
  <2> SUFFICES ASSUME HasNumber(V.disp[d]), d \notin H PROVE Returned(V, d)
    BY DEF Settled
  <2>1. Returned(W, d)
    BY <1>1, <1>4, <1>5 DEF Numbered, Settled, HasNumber, SameName
  <2> QED BY <1>1, <1>4, <1>5, <2>1, KeepsReturned
<1> QED BY <1>1, <1>6, <1>7, NumberedSplits DEF Counts

(* Timely is needed here: the user session that takes the display over     *)
(* from the greeter finds it with its number.                              *)
LEMMA StartReusesCounts ==
    ASSUME FineBut(World, {}), Counts(World, {}), Timely, StartIdle, NEW d, d = Head(idles).d,
           disp[d].seat # Seat0,
           NEW V, V = [StopGreeter(IdleDone, d) EXCEPT !.disp[d].class = "user", !.disp[d].sess = "launched"]
    PROVE  Counts(V, {})
<1> DEFINE r == disp[d]
           s == [r EXCEPT !.env = "none", !.class = "user", !.sess = "launched"]
           W == IdleDone
<1>1. PICK H : /\ StartKnows(d) /\ d \in Displays /\ r \in Display /\ r.stored
               /\ W \in Worlds /\ W.disp = disp
               /\ StartOf(d) \in Early(World.idles) /\ World.disp[d] = r
               /\ Numbered(World, H, {}) /\ Numbered(W, H, {d})
  BY StartNumbered
<1>2. s \in Display
  <2>1. [r EXCEPT !.env = "none"] \in Display
    BY <1>1, DisplayUpdates DEF Envs
  <2>2. [[r EXCEPT !.env = "none"] EXCEPT !.class = "user"] \in Display
    BY <2>1, DisplayUpdates
  <2>3. [[[r EXCEPT !.env = "none"] EXCEPT !.class = "user"] EXCEPT !.sess = "launched"] \in Display
    BY <2>2, DisplayUpdates DEF Sessions
  <2> QED BY <1>1, <2>3 DEF Display
<1>3. V = Recorded(W, d, s)
  <2>1. V = [StopGreeter(W, d) EXCEPT !.disp[d].class = "user", !.disp[d].sess = "launched"]
    OBVIOUS
  <2>2. W \in Worlds /\ W.disp = disp
    BY <1>1
  <2> HIDE DEF W
  <2> QED BY ONLY ZenonT(60), <2>1, <2>2 DEF Recorded, Worlds, StopGreeter, s, r
<1>4. SameName(r, s)
  BY <1>1 DEF SameName, Display
<1> HIDE DEF s, W
<1>5. V.disp[d] = s /\ Others(W, V, d) /\ V.idles = W.idles /\ V.used = W.used
  <2>1. W \in Worlds /\ d \in Displays
    BY <1>1
  <2> QED BY ONLY <1>2, <1>3, <2>1, RecordedWorld
<1>6. Numbered(V, H, {d})
  <2>1. Alters(W, V, d)
    BY <1>5 DEF Alters
  <2>2. SameName(W.disp[d], V.disp[d]) /\ d \in Displays /\ Numbered(W, H, {d})
    BY <1>1, <1>4, <1>5
  <2> QED BY ONLY <2>1, <2>2, AltersNumbered
<1>7. d \in H
  <2> SUFFICES ASSUME d \notin H PROVE FALSE
    OBVIOUS
  <2>1. Returned(World, d)
    BY <1>1 DEF Numbered, Settled, HasNumber
  <2>2. r.status = "FINISHED"
    BY <1>1, <2>1 DEF Returned, Ended
  <2>3. r.sess = "starting"
    BY <1>1 DEF StartKnows, RecordOK, SessionOK, LogsIn
  <2> QED BY <1>1, <2>2, <2>3 DEF Timely
<1> QED BY <1>1, <1>6, <1>7, NumberedSplits DEF Counts, Settled

LEMMA GivenNumbered ==
    ASSUME NEW W, NEW H, Numbered(W, H, {}), NEW V, NEW u \in Displays, NEW auto, Given(W, V, u, auto)
    PROVE  Numbered(V, H, {})
<1>1. ~HasNumber(W.disp[u]) /\ ~HasNumber(V.disp[u])
  BY UnusedIsNotStored DEF Given, UserRecord, HasNumber
<1> QED BY <1>1, NumberlessChange DEF Given

LEMMA StartUntiesCounts ==
    ASSUME FineBut(World, {}), Counts(World, {}), StartIdle, NEW d, d = Head(idles).d, disp[d].seat = Seat0,
           NEW W, W = [IdleDone EXCEPT !.disp[d].sess = "fresh", !.disp[d].leaked = TRUE,
                                       !.disp[d].status = IF disp[d].setup THEN "WAITING_TO_FINISH" ELSE @],
           NEW auto, NEW V \in WithUserDisplay(W, auto)
    PROVE  Counts(V, {})
<1> DEFINE r == disp[d]
           x == IF r.setup THEN "WAITING_TO_FINISH" ELSE r.status
           s == [r EXCEPT !.sess = "fresh", !.leaked = TRUE, !.status = x]
<1>1. PICK H : /\ d \in Displays /\ r \in Display /\ r.stored
               /\ IdleDone \in Worlds /\ IdleDone.disp = disp /\ FineBut(IdleDone, {d})
               /\ Numbered(IdleDone, H, {})
  BY StartNumbered
<1>2. s \in Display
  <2>1. x \in Statuses
    BY <1>1 DEF Statuses, Display
  <2> HIDE DEF x
  <2>2. [r EXCEPT !.sess = "fresh"] \in Display
    BY <1>1, DisplayUpdates DEF Sessions
  <2>3. [[r EXCEPT !.sess = "fresh"] EXCEPT !.leaked = TRUE] \in Display
    BY <2>2, DisplayUpdates
  <2>4. [[[r EXCEPT !.sess = "fresh"] EXCEPT !.leaked = TRUE] EXCEPT !.status = x] \in Display
    BY <2>1, <2>3, DisplayUpdates
  <2> QED BY <1>1, <2>4 DEF Display
<1>3. W = Recorded(IdleDone, d, s)
  <2> DEFINE t == [r EXCEPT !.sess = "fresh", !.leaked = TRUE,
                            !.status = IF r.setup THEN "WAITING_TO_FINISH" ELSE @]
  <2>1. IdleDone \in Worlds /\ IdleDone.disp = disp
    BY <1>1
  <2>2. W = [IdleDone EXCEPT !.disp = [@ EXCEPT ![d] = t]]
    BY ZenonT(40), <2>1
  <2>3. t = s
    BY <1>1 DEF Display
  <2> HIDE DEF t, s
  <2> QED BY <2>2, <2>3 DEF Recorded
<1>4. SameName(r, s)
  BY <1>1 DEF SameName, Display
<1> HIDE DEF r, s, x
<1>5. /\ W.disp[d] = s /\ Others(IdleDone, W, d) /\ W.idles = IdleDone.idles /\ W.used = IdleDone.used
      /\ FineBut(W, {d})
  <2>1. IdleDone \in Worlds /\ d \in Displays /\ FineBut(IdleDone, {d})
    BY <1>1
  <2>2. W.disp[d] = s /\ Others(IdleDone, W, d) /\ W.idles = IdleDone.idles /\ W.used = IdleDone.used
    BY ONLY <1>2, <1>3, <2>1, RecordedWorld
  <2>3. Rewritten(IdleDone, W, d, s)
    BY ONLY <1>2, <1>3, <2>1, RecordedKeepsFine
  <2> QED BY <2>2, <2>3 DEF Rewritten
<1>6. ~HasNumber(IdleDone.disp[d]) /\ ~HasNumber(W.disp[d])
  BY <1>1, <1>4, <1>5 DEF HasNumber, SameName, r
<1>7. Numbered(W, H, {})
  <2>1. d \in Displays /\ Numbered(IdleDone, H, {})
    BY <1>1
  <2> QED BY ONLY <1>5, <1>6, <2>1, NumberlessChange
<1>8. PICK u \in Displays : Given(W, V, u, auto)
  <2> DEFINE X == {d}
  <2>1. FineBut(W, X) /\ \A e \in X : W.disp[e].stored
    BY <1>1, <1>4, <1>5 DEF SameName
  <2> HIDE DEF X
  <2>2. \E u \in Displays : Given(W, V, u, auto)
    BY ONLY <2>1, V \in WithUserDisplay(W, auto), WithUserDisplayResult
  <2> QED BY <2>2
<1> QED BY <1>7, <1>8, GivenNumbered DEF Counts

LEMMA StartReplacesCounts ==
    ASSUME FineBut(World, {}), Counts(World, {}), StartIdle, NEW d, d = Head(idles).d,
           disp[d].sess = "autostart",
           NEW auto, NEW U \in WithUserDisplay(IdleDone, auto), NEW V, V = Removed(U, {d})
    PROVE  Counts(V, {})
<1> DEFINE r == disp[d]
           W == IdleDone
           gone == {d}
           X == {}
<1>1. PICK H : /\ StartKnows(d) /\ d \in Displays /\ r.stored
               /\ W.disp = disp /\ FineBut(W, gone) /\ Numbered(W, H, X)
  BY StartNumbered
<1>2. ~r.leaked
  BY <1>1 DEF StartKnows, RecordOK, SessionOK, LogsIn
<1> HIDE DEF W, r
<1>3. /\ \A e \in gone : W.disp[e].stored
      /\ U \in WithUserDisplay(W, auto) /\ gone \in SUBSET Displays /\ V = Removed(U, gone)
  BY <1>1 DEF W, r
<1>4. FineBut(U, gone) /\ \E u \in Displays : Given(W, U, u, auto)
  <2> HIDE DEF gone
  <2> QED BY ONLY <1>1, <1>3, WithUserDisplayResult
<1>5. PICK u \in Displays : Given(W, U, u, auto)
  BY <1>4
<1>6. \A e \in gone : ~(U.disp[e].leaked /\ U.disp[e].env \in Alive)
  <2>1. u # d
    BY <1>1, <1>5, UnusedIsNotStored DEF Given, r
  <2> QED BY <1>1, <1>2, <1>5, <2>1 DEF Given, Others, r
<1> HIDE DEF gone
<1>7. Away(U, V, gone)
  BY <1>3, <1>4, <1>6, RemovedResult
<1>8. Numbered(U, H, X) /\ \A e \in X \ gone : Settled(V, H, e)
  BY <1>1, <1>5, GivenNumbered
<1> HIDE DEF X
<1> QED BY <1>3, <1>7, <1>8, AwayNumbered

LEMMA StartIdleCounts ==
    ASSUME FineBut(World, {}), Counts(World, {}), Timely, StartIdle
    PROVE  Counts(World, {})'
<1> DEFINE d == Head(idles).d
           auto == disp[d].sess = "autostart"
           untied == [IdleDone EXCEPT !.disp[d].sess = "fresh", !.disp[d].leaked = TRUE,
                                      !.disp[d].status = IF disp[d].setup THEN "WAITING_TO_FINISH" ELSE @]
           reuse == [StopGreeter(IdleDone, d) EXCEPT !.disp[d].class = "user", !.disp[d].sess = "launched"]
           reset(x) == [IdleDone EXCEPT !.disp[d].sess = x]
<1>1. \/ Becomes(reset(IF auto THEN "dead" ELSE "fresh"))
      \/ disp[d].seat # Seat0 /\ Becomes(reuse)
      \/ /\ disp[d].seat = Seat0
         /\ \E U \in WithUserDisplay(IF auto THEN IdleDone ELSE untied, auto) :
              Becomes(IF auto THEN Removed(U, {d}) ELSE U)
  BY DEF StartIdle
<1>2. CASE Becomes(reset(IF auto THEN "dead" ELSE "fresh"))
  <2> DEFINE x == IF auto THEN "dead" ELSE "fresh"
  <2>1. x \in {"dead", "fresh"} /\ Becomes(reset(x))
    BY <1>2
  <2> HIDE DEF x
  <2>2. Counts(reset(x), {})
    BY <2>1, StartResetsCounts
  <2> QED BY <2>1, <2>2, BecomesCounts
<1>3. CASE disp[d].seat # Seat0 /\ Becomes(reuse)
  <2>1. Counts(reuse, {})
    BY <1>3, StartReusesCounts
  <2> QED BY <1>3, <2>1, BecomesCounts
<1>4. CASE /\ disp[d].seat = Seat0
           /\ \E U \in WithUserDisplay(IF auto THEN IdleDone ELSE untied, auto) :
                Becomes(IF auto THEN Removed(U, {d}) ELSE U)
  <2>1. PICK U \in WithUserDisplay(IF auto THEN IdleDone ELSE untied, auto) :
               Becomes(IF auto THEN Removed(U, {d}) ELSE U)
    BY <1>4
  <2>2. CASE auto
    <3>1. U \in WithUserDisplay(IdleDone, auto) /\ Becomes(Removed(U, {d}))
      BY <2>1, <2>2
    <3>2. Counts(Removed(U, {d}), {})
      BY <2>2, <3>1, StartReplacesCounts
    <3> QED BY <3>1, <3>2, BecomesCounts
  <2>3. CASE ~auto
    <3>1. U \in WithUserDisplay(untied, auto) /\ Becomes(U)
      BY <2>1, <2>3
    <3>2. Counts(U, {})
      BY <1>4, <3>1, StartUntiesCounts
    <3> QED BY <3>1, <3>2, BecomesCounts
  <2> QED BY <2>2, <2>3
<1> QED BY <1>1, <1>2, <1>3, <1>4

LEMMA StartIdleNullCounts ==
    ASSUME FineBut(World, {}), Counts(World, {}), StartIdleNull
    PROVE  Counts(World, {})'
<1>1. PICK V \in WithUserDisplay(IdleDone, FALSE) : Becomes(V)
  BY DEF StartIdleNull, Callback
<1>2. PICK u \in Displays : Given(IdleDone, V, u, FALSE)
  BY <1>1, NullIsGiven
<1>3. idles # <<>> /\ Head(idles) # Purge
  <2>1. idles # <<>> /\ Head(idles).op = "start"
    BY DEF StartIdleNull, IdleIs
  <2> QED BY <2>1 DEF Purge
<1>4. PICK H : Numbered(IdleDone, H, {})
  BY <1>3, PoppedNumbered
<1>5. Counts(V, {})
  BY <1>2, <1>4, GivenNumbered DEF Counts
<1> QED BY <1>1, <1>5, BecomesCounts

(***************************************************************************)
(* The invariant.                                                          *)
(***************************************************************************)
LEMMA InitCounts ==
    ASSUME Init
    PROVE  Counts(World, {})
<1>1. World.disp = disp /\ \A d \in Displays : ~disp[d].stored
  BY UnusedIsNotStored DEF Init, World
<1>2. Numbered(World, {}, {})
  BY <1>1 DEF Numbered, Settled, HasNumber
<1> QED BY <1>2 DEF Counts

LEMMA DisplayStepCounts ==
    ASSUME FineBut(World, {}), seats \subseteq OtherSeats, Counts(World, {}), Timely,
           NEW d \in Displays, DisplayStep(d)
    PROVE  Counts(World, {})'
BY ServerSignalsCounts, ServerEndsCounts, GreeterStartedCounts, GreeterNeverStartsCounts,
   GreeterExitsCounts, GreeterStoppedCounts, WindowClosesCounts, RegisterDisplayCounts,
   RegisterSessionCounts, UserSessionOpenedCounts, AutomaticLoginOpenedCounts,
   AutomaticLoginFailsCounts, UserLoadedCounts, SessionStartedCounts, UserSessionEndsCounts
   DEF DisplayStep

LEMMA StepCounts ==
    ASSUME NumbersInv, Timely, [Next]_vars
    PROVE  Counts(World, {})'
<1>1. FineBut(World, {}) /\ seats \subseteq OtherSeats /\ Counts(World, {})
  BY DEF NumbersInv, Inv, EnvOK
<1>2. CASE UNCHANGED <<disp, idles, used, fails, autod, did>>
  <2>1. Becomes(World)
    BY <1>2, WorldIsWorld DEF Becomes, World
  <2> QED BY <1>1, <2>1, BecomesCounts
<1>3. CASE Start
  BY <1>1, <1>3, StartCounts
<1>4. CASE CreateTransientDisplay
  BY <1>1, <1>4, CreateTransientDisplayCounts
<1>5. CASE \E s \in OtherSeats : SeatNew(s) \/ SeatRemoved(s)
  BY <1>1, <1>5, SeatNewCounts, SeatRemovedCounts
<1>6. CASE \E d \in Displays : DisplayStep(d)
  BY <1>1, <1>6, DisplayStepCounts
<1>7. CASE FinishIdle
  BY <1>1, <1>7, FinishIdleCounts
<1>8. CASE PurgeIdle
  BY <1>1, <1>8, PurgeIdleCounts
<1>9. CASE ReadyIdle
  BY <1>1, <1>9, ReadyIdleCounts
<1>10. CASE StartIdle
  BY <1>1, <1>10, StartIdleCounts
<1>11. CASE StartIdleNull
  BY <1>1, <1>11, StartIdleNullCounts
<1>12. CASE StartIdleCrashes
  BY <1>2, <1>12 DEF StartIdleCrashes
<1>13. CASE \E v \in Vts : FirstVt(v) \/ VtChanged(v)
  <2>1. PICK v : FirstVt(v) \/ VtChanged(v)
    BY <1>13
  <2>2. CASE FirstVt(v)
    BY <1>2, <2>2 DEF FirstVt
  <2>3. CASE VtChanged(v)
    BY <1>1, <2>3, VtChangedCounts
  <2> QED BY <2>1, <2>2, <2>3
<1>14. CASE WaitToFinishTimeout
  BY <1>1, <1>14, WaitToFinishTimeoutCounts
<1>15. CASE UNCHANGED vars
  BY <1>2, <1>15 DEF vars
<1> QED BY <1>3, <1>4, <1>5, <1>6, <1>7, <1>8, <1>9, <1>10, <1>11, <1>12, <1>13, <1>14, <1>15 DEF Next

LEMMA StepKeepsNumbers ==
    ASSUME NumbersInv, Timely, [Next]_vars
    PROVE  NumbersInv'
<1>1. Inv'
  BY StepKeepsInv DEF NumbersInv
<1>2. Counts(World, {})'
  BY StepCounts
<1> QED BY <1>1, <1>2 DEF NumbersInv

(* An X server belongs to a display that holds its number, or that is      *)
(* finished.                                                               *)
LEMMA ServersHaveNumbers ==
    ASSUME FineBut(World, {}), NEW H, Numbered(World, H, {}), NEW d \in Displays,
           disp[d].server # "none", disp[d].status # "FINISHED"
    PROVE  d \in H
<1>1. Known(d) /\ World.disp = disp
  BY InvKnows, WorldIsWorld
<1>2. HasNumber(disp[d])
  BY <1>1 DEF Known, RecordOK, SeatZeroOK, HasNumber
<1>3. ~Returned(World, d)
  BY <1>1 DEF Returned, Ended
<1> QED BY <1>1, <1>2, <1>3 DEF Numbered, Settled

(* Two X servers of displays that are not finished never have the same     *)
(* display number, whatever makes displays fail, end or go, as long as no  *)
(* login starts on a display that was finished meanwhile (Timely).         *)
THEOREM NumbersAreUnique == TimelySpec => []NumbersUnique
<1>1. Init => NumbersInv
  BY InitInv, InitCounts DEF NumbersInv
<1>2. NumbersInv /\ Timely /\ [Next]_vars => NumbersInv'
  BY StepKeepsNumbers
<1>3. ASSUME NumbersInv PROVE NumbersUnique
  <2> SUFFICES ASSUME NEW d \in Displays, NEW e \in Displays,
                      d # e, disp[d].server # "none", disp[e].server # "none",
                      "FINISHED" \notin {disp[d].status, disp[e].status}
               PROVE  disp[d].num # disp[e].num
    BY DEF NumbersUnique
  <2>1. FineBut(World, {})
    BY <1>3 DEF NumbersInv, Inv
  <2>2. PICK H : Numbered(World, H, {})
    BY <1>3 DEF NumbersInv, Counts
  <2>3. d \in H /\ e \in H
    BY <2>1, <2>2, ServersHaveNumbers
  <2> QED BY <2>2, <2>3, WorldIsWorld DEF Numbered, World
<1> QED BY <1>1, <1>2, <1>3, PTL DEF TimelySpec, Spec
===============================================================================
