--------------------------- MODULE RequestsProofs ---------------------------
(***************************************************************************)
(* The daily quotas and the limit of pins, for any number of calls in      *)
(* flight, any caps, any chats and any number of days and restarts, where  *)
(* the calls meet: every focus but "methods", which runs one call at a     *)
(* time through all the programs of Commands.                              *)
(*                                                                         *)
(* The calls that meet run four programs, so a call that runs is at one of *)
(* sixteen spots (Spots); SpotsKnown says of each what its next step is    *)
(* and which spot follows.                                                 *)
(*                                                                         *)
(* The quotas.  A use is counted from its reservation on, whether it has   *)
(* happened or a call still holds it; what the counter forgets is in the   *)
(* slack (QuotaInv).  The held uses are counted as a set of pairs of a     *)
(* slot and a number, one slot at a time (HeldMoved).                      *)
(*                                                                         *)
(* The pins.  Looking for room and noting the pin are two critical         *)
(* sections: the book together with the chats of the calls between them    *)
(* passes the limit only by the calls in flight (PinInv).                  *)
(***************************************************************************)
EXTENDS Requests, FiniteSetTheorems, SequenceTheorems, TLAPS

-----------------------------------------------------------------------------
(* Sequences put together *)

LEMMA Glue11 == ASSUME NEW a, NEW b PROVE <<a>> \o <<b>> = <<a, b>>
<1>1. <<a>> \o <<b>> = Append(<<a>>, b)
    OBVIOUS
<1>2. <<a, b>> = Append(<<a>>, b)
    OBVIOUS
<1> QED BY <1>1, <1>2

LEMMA Glue12 == ASSUME NEW a, NEW b, NEW c PROVE <<a>> \o <<b, c>> = <<a, b, c>>
<1> DEFINE S == {a, b, c}
<1>1. PICK x, y, z : x = <<a>> /\ y = <<b, c>> /\ z = <<a, b, c>>
    OBVIOUS
<1>2. /\ x \in Seq(S) /\ y \in Seq(S) /\ Len(x) = 1 /\ Len(y) = 2 /\ x[1] = a /\ y[1] = b /\ y[2] = c
    BY <1>1
<1>3. z \in Seq(S) /\ Len(z) = 3 /\ z[1] = a /\ z[2] = b /\ z[3] = c
    BY <1>1
<1> HIDE DEF S
<1>4. PICK u : u = x \o y
    OBVIOUS
<1>5. /\ u \in Seq(S) /\ Len(u) = Len(x) + Len(y)
      /\ \A i \in 1..Len(u) : u[i] = IF i <= Len(x) THEN x[i] ELSE y[i - Len(x)]
    <2>1. x \in Seq(S) /\ y \in Seq(S)
        BY <1>2
    <2> QED BY <1>4, <2>1, ConcatProperties
<1>6. Len(u) = 3 /\ u[1] = a /\ u[2] = b /\ u[3] = c
    BY <1>2, <1>5
<1>7. u = z
  <2>1. \A i \in 1..3 : i \in {1, 2, 3}
    OBVIOUS
  <2>2. \A i \in 1..3 : u[i] = z[i]
    BY <1>3, <1>6, <2>1, Zenon
  <2>3. u \in Seq(S) /\ z \in Seq(S) /\ Len(u) = 3 /\ Len(z) = 3
    BY <1>3, <1>5, <1>6
  <2> QED BY <2>2, <2>3
<1> QED BY <1>1, <1>4, <1>7

LEMMA Glue13 == ASSUME NEW a, NEW b, NEW c, NEW d PROVE <<a>> \o <<b, c, d>> = <<a, b, c, d>>
<1> DEFINE S == {a, b, c, d}
<1>1. PICK x, y, z : x = <<a>> /\ y = <<b, c, d>> /\ z = <<a, b, c, d>>
    OBVIOUS
<1>2. /\ x \in Seq(S) /\ y \in Seq(S) /\ Len(x) = 1 /\ Len(y) = 3
      /\ x[1] = a /\ y[1] = b /\ y[2] = c /\ y[3] = d
    BY <1>1
<1>3. z \in Seq(S) /\ Len(z) = 4 /\ z[1] = a /\ z[2] = b /\ z[3] = c /\ z[4] = d
    BY <1>1
<1> HIDE DEF S
<1>4. PICK u : u = x \o y
    OBVIOUS
<1>5. /\ u \in Seq(S) /\ Len(u) = Len(x) + Len(y)
      /\ \A i \in 1..Len(u) : u[i] = IF i <= Len(x) THEN x[i] ELSE y[i - Len(x)]
    <2>1. x \in Seq(S) /\ y \in Seq(S)
        BY <1>2
    <2> QED BY <1>4, <2>1, ConcatProperties
<1>6. Len(u) = 4 /\ u[1] = a /\ u[2] = b /\ u[3] = c /\ u[4] = d
    BY <1>2, <1>5
<1>7. u = z
    BY <1>3, <1>5, <1>6
<1> QED BY <1>1, <1>4, <1>7

LEMMA Glue23 == ASSUME NEW a, NEW b, NEW c, NEW d, NEW e PROVE <<a, b>> \o <<c, d, e>> = <<a, b, c, d, e>>
<1> DEFINE S == {a, b, c, d, e}
<1>1. PICK x, y, z : x = <<a, b>> /\ y = <<c, d, e>> /\ z = <<a, b, c, d, e>>
    OBVIOUS
<1>2. /\ x \in Seq(S) /\ y \in Seq(S) /\ Len(x) = 2 /\ Len(y) = 3
      /\ x[1] = a /\ x[2] = b /\ y[1] = c /\ y[2] = d /\ y[3] = e
    BY <1>1
<1>3. z \in Seq(S) /\ Len(z) = 5 /\ z[1] = a /\ z[2] = b /\ z[3] = c /\ z[4] = d /\ z[5] = e
    BY <1>1
<1> HIDE DEF S
<1>4. PICK u : u = x \o y
    OBVIOUS
<1>5. /\ u \in Seq(S) /\ Len(u) = Len(x) + Len(y)
      /\ \A i \in 1..Len(u) : u[i] = IF i <= Len(x) THEN x[i] ELSE y[i - Len(x)]
    <2>1. x \in Seq(S) /\ y \in Seq(S)
        BY <1>2
    <2> QED BY <1>4, <2>1, ConcatProperties
<1>6. Len(u) = 5 /\ u[1] = a /\ u[2] = b /\ u[3] = c /\ u[4] = d /\ u[5] = e
    BY <1>2, <1>5
<1>7. u = z
    BY <1>3, <1>5, <1>6
<1> QED BY <1>1, <1>4, <1>7

LEMMA ReservingOne == ASSUME NEW q, NEW x PROVE Reserving(q, <<x>>) = <<Reserve(q), [x EXCEPT !.quota = q]>>
<1>1. [i \in DOMAIN <<x>> |-> [<<x>>[i] EXCEPT !.quota = q]] = <<[x EXCEPT !.quota = q]>>
    OBVIOUS
<1> QED BY <1>1, Glue11, Zenon DEF Reserving

LEMMA ReservingTwo == ASSUME NEW q, NEW x, NEW y
    PROVE Reserving(q, <<x, y>>) = <<Reserve(q), [x EXCEPT !.quota = q], [y EXCEPT !.quota = q]>>
<1>1. [i \in DOMAIN <<x, y>> |-> [<<x, y>>[i] EXCEPT !.quota = q]]
        = <<[x EXCEPT !.quota = q], [y EXCEPT !.quota = q]>>
  <2>1. PICK p, v, w : p = <<x, y>> /\ v = [x EXCEPT !.quota = q] /\ w = [y EXCEPT !.quota = q]
    OBVIOUS
  <2>2. DOMAIN p = 1..2 /\ p[1] = x /\ p[2] = y
    BY <2>1
  <2>3. PICK f : f = [i \in DOMAIN p |-> [p[i] EXCEPT !.quota = q]]
    OBVIOUS
  <2>4. f = [i \in 1..2 |-> f[i]] /\ f[1] = v /\ f[2] = w
    BY <2>1, <2>2, <2>3
  <2>5. f = <<v, w>>
    BY <2>4
  <2> QED BY <2>1, <2>3, <2>5
<1>2. PICK r, v, w : r = Reserve(q) /\ v = [x EXCEPT !.quota = q] /\ w = [y EXCEPT !.quota = q]
    OBVIOUS
<1>3. Reserving(q, <<x, y>>) = <<r>> \o <<v, w>>
    BY <1>1, <1>2, Zenon DEF Reserving
<1>4. <<r>> \o <<v, w>> = <<r, v, w>>
    BY Glue12
<1> QED BY <1>2, <1>3, <1>4, Zenon

-----------------------------------------------------------------------------
(* The calls that meet, by the steps before them *)

Refunding(q, step) == [step EXCEPT !.quota = q]
C4 == <<Refunding("create", Check)>>
C3 == <<Refunding("create", Do("newgroup")), Refunding("create", Check)>>
C2 == <<Reserve("create"), Refunding("create", Do("newgroup")), Refunding("create", Check)>>
C1 == <<Check, Reserve("create"), Refunding("create", Do("newgroup")), Refunding("create", Check)>>
A3 == <<Refunding("add", Do("members"))>>
A2 == <<Reserve("add"), Refunding("add", Do("members"))>>
A1 == <<Check, Reserve("add"), Refunding("add", Do("members"))>>
P5 == <<Pinned("pin")>>
P4 == <<Do("pin"), Pinned("pin")>>
P3 == <<Check, Do("pin"), Pinned("pin")>>
P2 == <<Room, Check, Do("pin"), Pinned("pin")>>
P1 == <<Check, Room, Check, Do("pin"), Pinned("pin")>>
U4 == <<Pinned("unpin")>>
U3 == <<Do("unpin"), Pinned("unpin")>>
U2 == <<Check, Do("unpin"), Pinned("unpin")>>
U1 == <<Check, Check, Do("unpin"), Pinned("unpin")>>
Spots == {C1, C2, C3, C4, A1, A2, A3, P1, P2, P3, P4, P5, U1, U2, U3, U4}

LEMMA ProgramsAre == /\ GroupAdmin_Create = C1 /\ AddParticipants = A1
                   /\ Pin("pin") = P1 /\ Pin("unpin") = U1
<1>1. GroupAdmin_Create = C1
  <2>1. <<Do("newgroup")>> \o translateGroup = <<Do("newgroup"), Check>>
    BY Glue11, Zenon DEF translateGroup
  <2>2. Reserving("create", <<Do("newgroup"), Check>>) = C2
    BY ReservingTwo, Zenon DEF C2, Refunding
  <2>3. PICK a, b, c, d : /\ a = Check /\ b = Reserve("create")
                          /\ c = Refunding("create", Do("newgroup")) /\ d = Refunding("create", Check)
    OBVIOUS
  <2>4. GroupAdmin_Create = <<a>> \o <<b, c, d>>
    BY <2>1, <2>2, <2>3, Zenon DEF GroupAdmin_Create, C2
  <2>5. <<a>> \o <<b, c, d>> = <<a, b, c, d>>
    BY Glue13
  <2> QED BY <2>3, <2>4, <2>5, Zenon DEF C1
<1>2. AddParticipants = A1
  <2>1. Reserving("add", <<Do("members")>>) = A2
    BY ReservingOne, Zenon DEF A2, Refunding
  <2>2. PICK a, b, c : a = Check /\ b = Reserve("add") /\ c = Refunding("add", Do("members"))
    OBVIOUS
  <2>3. AddParticipants = <<a>> \o <<b, c>>
    BY <2>1, <2>2, Zenon DEF AddParticipants, validateRosterInput, updateParticipants, A2
  <2>4. <<a>> \o <<b, c>> = <<a, b, c>>
    BY Glue12
  <2> QED BY <2>2, <2>3, <2>4, Zenon DEF A1
<1>3. Pin("pin") = P1
  <2>1. PICK a, b, c, d, e : a = Check /\ b = Room /\ c = Check /\ d = Do("pin") /\ e = Pinned("pin")
    OBVIOUS
  <2>2. Pin("pin") = (<<a>> \o <<b>>) \o <<c, d, e>>
    BY <2>1, Zenon DEF Pin
  <2>3. <<a>> \o <<b>> = <<a, b>> /\ <<a, b>> \o <<c, d, e>> = <<a, b, c, d, e>>
    BY Glue11, Glue23
  <2> QED BY <2>1, <2>2, <2>3, Zenon DEF P1
<1>4. Pin("unpin") = U1
  <2>1. PICK a, c, d, e : a = Check /\ c = Check /\ d = Do("unpin") /\ e = Pinned("unpin")
    OBVIOUS
  <2>0. "unpin" # "pin"
    OBVIOUS
  <2>2. Pin("unpin") = (<<a>> \o <<>>) \o <<c, d, e>>
    BY <2>0, <2>1, Zenon DEF Pin
  <2>3. <<a>> \o <<>> = <<a>>
    OBVIOUS
  <2>4. <<a>> \o <<c, d, e>> = <<a, c, d, e>>
    BY Glue13
  <2> QED BY <2>1, <2>2, <2>3, <2>4, Zenon DEF U1
<1> QED BY <1>1, <1>2, <1>3, <1>4

\* A step of that kind, on that object, with that quota to refund.
Is(h, kind, on, quota) == h.kind = kind /\ h.on = on /\ h.quota = quota /\ h.logs = FALSE
IsKind(h, kind, quota) == h.kind = kind /\ h.quota = quota /\ h.logs = FALSE

LEMMA StepsAre ==
    /\ IsKind(Check, "check", NoQuota) /\ IsKind(Room, "room", NoQuota)
    /\ IsKind(Refunding("create", Check), "check", "create")
    /\ \A q : Is(Reserve(q), "reserve", q, NoQuota)
    /\ \A e : Is(Do(e), "do", e, NoQuota) /\ Is(Pinned(e), "pinned", e, NoQuota)
    /\ \A e, q : Is(Refunding(q, Do(e)), "do", e, q)
<1>0. PICK o : o = ""
    BY Zenon
<1>a. Check = Step("check", o) /\ Room = Step("room", o)
    BY <1>0, Zenon DEF Check, Room
<1>1. IsKind(Check, "check", NoQuota)
  <2>1. IsKind(Step("check", o), "check", NoQuota)
    BY DEF IsKind, Step
  <2> QED BY <1>a, <2>1, Zenon
<1>2. IsKind(Room, "room", NoQuota)
  <2>1. IsKind(Step("room", o), "room", NoQuota)
    BY DEF IsKind, Step
  <2> QED BY <1>a, <2>1, Zenon
<1>3. IsKind(Refunding("create", Check), "check", "create")
  <2>1. IsKind(Refunding("create", Step("check", o)), "check", "create")
    BY DEF IsKind, Refunding, Step
  <2> QED BY <1>a, <2>1, Zenon
<1>4. ASSUME NEW q PROVE Is(Reserve(q), "reserve", q, NoQuota)
    BY DEF Is, Reserve, Step
<1>5. ASSUME NEW e PROVE Is(Do(e), "do", e, NoQuota)
    BY DEF Is, Do, Step
<1>6. ASSUME NEW e PROVE Is(Pinned(e), "pinned", e, NoQuota)
    BY DEF Is, Pinned, Step
<1>7. ASSUME NEW e, NEW q PROVE Is(Refunding(q, Do(e)), "do", e, q)
    BY DEF Is, Refunding, Do, Step
<1> QED BY <1>1, <1>2, <1>3, <1>4, <1>5, <1>6, <1>7, Zenon

\* The first step of a sequence, and what comes after it.
Goes(t, h, u) == t # <<>> /\ Tail(t) = u /\ Head(t) = h /\ (Len(t) = 1 <=> u = <<>>)

LEMMA Goes1 == ASSUME NEW a PROVE Goes(<<a>>, a, <<>>)
BY DEF Goes
LEMMA Goes2 == ASSUME NEW a, NEW b PROVE Goes(<<a, b>>, a, <<b>>)
BY DEF Goes
LEMMA Goes3 == ASSUME NEW a, NEW b, NEW c PROVE Goes(<<a, b, c>>, a, <<b, c>>)
BY DEF Goes
LEMMA Goes4 == ASSUME NEW a, NEW b, NEW c, NEW d PROVE Goes(<<a, b, c, d>>, a, <<b, c, d>>)
BY DEF Goes
LEMMA Goes5 ==
    ASSUME NEW a, NEW b, NEW c, NEW d, NEW e PROVE Goes(<<a, b, c, d, e>>, a, <<b, c, d, e>>)
BY DEF Goes

LEMMA GroupSpots ==
    /\ Goes(C1, Check, C2) /\ Goes(C2, Reserve("create"), C3)
    /\ Goes(C3, Refunding("create", Do("newgroup")), C4) /\ Goes(C4, Refunding("create", Check), <<>>)
    /\ Goes(A1, Check, A2) /\ Goes(A2, Reserve("add"), A3)
    /\ Goes(A3, Refunding("add", Do("members")), <<>>)
<1>1. Goes(C1, Check, C2)
    BY Goes4, Zenon DEF C1, C2
<1>2. Goes(C2, Reserve("create"), C3)
    BY Goes3, Zenon DEF C2, C3
<1>3. Goes(C3, Refunding("create", Do("newgroup")), C4)
    BY Goes2, Zenon DEF C3, C4
<1>4. Goes(C4, Refunding("create", Check), <<>>)
    BY Goes1, Zenon DEF C4
<1>5. Goes(A1, Check, A2)
    BY Goes3, Zenon DEF A1, A2
<1>6. Goes(A2, Reserve("add"), A3)
    BY Goes2, Zenon DEF A2, A3
<1>7. Goes(A3, Refunding("add", Do("members")), <<>>)
    BY Goes1, Zenon DEF A3
<1> QED BY <1>1, <1>2, <1>3, <1>4, <1>5, <1>6, <1>7

LEMMA PinSpots ==
    /\ Goes(P1, Check, P2) /\ Goes(P2, Room, P3) /\ Goes(P3, Check, P4)
    /\ Goes(P4, Do("pin"), P5) /\ Goes(P5, Pinned("pin"), <<>>)
    /\ Goes(U1, Check, U2) /\ Goes(U2, Check, U3)
    /\ Goes(U3, Do("unpin"), U4) /\ Goes(U4, Pinned("unpin"), <<>>)
<1>1. Goes(P1, Check, P2)
    BY Goes5, Zenon DEF P1, P2
<1>2. Goes(P2, Room, P3)
    BY Goes4, Zenon DEF P2, P3
<1>3. Goes(P3, Check, P4)
    BY Goes3, Zenon DEF P3, P4
<1>4. Goes(P4, Do("pin"), P5)
    BY Goes2, Zenon DEF P4, P5
<1>5. Goes(P5, Pinned("pin"), <<>>)
    BY Goes1, Zenon DEF P5
<1>6. Goes(U1, Check, U2)
    BY Goes4, Zenon DEF U1, U2
<1>7. Goes(U2, Check, U3)
    BY Goes3, Zenon DEF U2, U3
<1>8. Goes(U3, Do("unpin"), U4)
    BY Goes2, Zenon DEF U3, U4
<1>9. Goes(U4, Pinned("unpin"), <<>>)
    BY Goes1, Zenon DEF U4
<1> QED BY <1>1, <1>2, <1>3, <1>4, <1>5, <1>6, <1>7, <1>8, <1>9

\* A spot, by its first step ("any": whatever it is on) and the spot after it.
Spot(t, kind, on, quota, u) ==
    /\ t # <<>> /\ Tail(t) = u /\ (Len(t) = 1 <=> u = <<>>)
    /\ Head(t).kind = kind /\ Head(t).quota = quota /\ Head(t).logs = FALSE
    /\ on = "any" \/ Head(t).on = on

LEMMA SpotOf ==
    ASSUME NEW t, NEW h, NEW u, NEW kind, NEW on, NEW quota, Goes(t, h, u),
           Is(h, kind, on, quota) \/ (IsKind(h, kind, quota) /\ on = "any")
    PROVE  Spot(t, kind, on, quota, u)
BY DEF Goes, Is, IsKind, Spot

LEMMA AllSpots ==
    /\ Spot(C1, "check", "any", "none", C2)
    /\ Spot(C2, "reserve", "create", "none", C3)
    /\ Spot(C3, "do", "newgroup", "create", C4)
    /\ Spot(C4, "check", "any", "create", <<>>)
    /\ Spot(A1, "check", "any", "none", A2)
    /\ Spot(A2, "reserve", "add", "none", A3)
    /\ Spot(A3, "do", "members", "add", <<>>)
    /\ Spot(P1, "check", "any", "none", P2)
    /\ Spot(P2, "room", "any", "none", P3)
    /\ Spot(P3, "check", "any", "none", P4)
    /\ Spot(P4, "do", "pin", "none", P5)
    /\ Spot(P5, "pinned", "pin", "none", <<>>)
    /\ Spot(U1, "check", "any", "none", U2)
    /\ Spot(U2, "check", "any", "none", U3)
    /\ Spot(U3, "do", "unpin", "none", U4)
    /\ Spot(U4, "pinned", "unpin", "none", <<>>)
<1>1. Spot(C1, "check", "any", "none", C2)
  <2>1. Goes(C1, Check, C2)
    BY GroupSpots, Zenon
  <2>2. IsKind(Check, "check", "none")
    BY StepsAre, Zenon DEF NoQuota
  <2> QED BY <2>1, <2>2, SpotOf, Zenon
<1>2. Spot(C2, "reserve", "create", "none", C3)
  <2>1. Goes(C2, Reserve("create"), C3)
    BY GroupSpots, Zenon
  <2>2. Is(Reserve("create"), "reserve", "create", "none")
    BY StepsAre, Zenon DEF NoQuota
  <2> QED BY <2>1, <2>2, SpotOf, Zenon
<1>3. Spot(C3, "do", "newgroup", "create", C4)
  <2>1. Goes(C3, Refunding("create", Do("newgroup")), C4)
    BY GroupSpots, Zenon
  <2>2. Is(Refunding("create", Do("newgroup")), "do", "newgroup", "create")
    BY StepsAre, Zenon DEF NoQuota
  <2> QED BY <2>1, <2>2, SpotOf, Zenon
<1>4. Spot(C4, "check", "any", "create", <<>>)
  <2>1. Goes(C4, Refunding("create", Check), <<>>)
    BY GroupSpots, Zenon
  <2>2. IsKind(Refunding("create", Check), "check", "create")
    BY StepsAre, Zenon DEF NoQuota
  <2> QED BY <2>1, <2>2, SpotOf, Zenon
<1>5. Spot(A1, "check", "any", "none", A2)
  <2>1. Goes(A1, Check, A2)
    BY GroupSpots, Zenon
  <2>2. IsKind(Check, "check", "none")
    BY StepsAre, Zenon DEF NoQuota
  <2> QED BY <2>1, <2>2, SpotOf, Zenon
<1>6. Spot(A2, "reserve", "add", "none", A3)
  <2>1. Goes(A2, Reserve("add"), A3)
    BY GroupSpots, Zenon
  <2>2. Is(Reserve("add"), "reserve", "add", "none")
    BY StepsAre, Zenon DEF NoQuota
  <2> QED BY <2>1, <2>2, SpotOf, Zenon
<1>7. Spot(A3, "do", "members", "add", <<>>)
  <2>1. Goes(A3, Refunding("add", Do("members")), <<>>)
    BY GroupSpots, Zenon
  <2>2. Is(Refunding("add", Do("members")), "do", "members", "add")
    BY StepsAre, Zenon DEF NoQuota
  <2> QED BY <2>1, <2>2, SpotOf, Zenon
<1>8. Spot(P1, "check", "any", "none", P2)
  <2>1. Goes(P1, Check, P2)
    BY PinSpots, Zenon
  <2>2. IsKind(Check, "check", "none")
    BY StepsAre, Zenon DEF NoQuota
  <2> QED BY <2>1, <2>2, SpotOf, Zenon
<1>9. Spot(P2, "room", "any", "none", P3)
  <2>1. Goes(P2, Room, P3)
    BY PinSpots, Zenon
  <2>2. IsKind(Room, "room", "none")
    BY StepsAre, Zenon DEF NoQuota
  <2> QED BY <2>1, <2>2, SpotOf, Zenon
<1>10. Spot(P3, "check", "any", "none", P4)
  <2>1. Goes(P3, Check, P4)
    BY PinSpots, Zenon
  <2>2. IsKind(Check, "check", "none")
    BY StepsAre, Zenon DEF NoQuota
  <2> QED BY <2>1, <2>2, SpotOf, Zenon
<1>11. Spot(P4, "do", "pin", "none", P5)
  <2>1. Goes(P4, Do("pin"), P5)
    BY PinSpots, Zenon
  <2>2. Is(Do("pin"), "do", "pin", "none")
    BY StepsAre, Zenon DEF NoQuota
  <2> QED BY <2>1, <2>2, SpotOf, Zenon
<1>12. Spot(P5, "pinned", "pin", "none", <<>>)
  <2>1. Goes(P5, Pinned("pin"), <<>>)
    BY PinSpots, Zenon
  <2>2. Is(Pinned("pin"), "pinned", "pin", "none")
    BY StepsAre, Zenon DEF NoQuota
  <2> QED BY <2>1, <2>2, SpotOf, Zenon
<1>13. Spot(U1, "check", "any", "none", U2)
  <2>1. Goes(U1, Check, U2)
    BY PinSpots, Zenon
  <2>2. IsKind(Check, "check", "none")
    BY StepsAre, Zenon DEF NoQuota
  <2> QED BY <2>1, <2>2, SpotOf, Zenon
<1>14. Spot(U2, "check", "any", "none", U3)
  <2>1. Goes(U2, Check, U3)
    BY PinSpots, Zenon
  <2>2. IsKind(Check, "check", "none")
    BY StepsAre, Zenon DEF NoQuota
  <2> QED BY <2>1, <2>2, SpotOf, Zenon
<1>15. Spot(U3, "do", "unpin", "none", U4)
  <2>1. Goes(U3, Do("unpin"), U4)
    BY PinSpots, Zenon
  <2>2. Is(Do("unpin"), "do", "unpin", "none")
    BY StepsAre, Zenon DEF NoQuota
  <2> QED BY <2>1, <2>2, SpotOf, Zenon
<1>16. Spot(U4, "pinned", "unpin", "none", <<>>)
  <2>1. Goes(U4, Pinned("unpin"), <<>>)
    BY PinSpots, Zenon
  <2>2. Is(Pinned("unpin"), "pinned", "unpin", "none")
    BY StepsAre, Zenon DEF NoQuota
  <2> QED BY <2>1, <2>2, SpotOf, Zenon
<1> QED BY <1>1, <1>2, <1>3, <1>4, <1>5, <1>6, <1>7, <1>8, <1>9, <1>10, <1>11, <1>12, <1>13, <1>14, <1>15, <1>16, Zenon

\* The calls past the limit of pins are told from the others.
PastRoom == {P3, P4, P5}
LEMMA SpotsApart ==
    \A t \in {C1, C2, C3, C4, A1, A2, A3, P1, P2, U1, U2, U3, U4, <<>>} : t \notin PastRoom
<1>1. /\ Head(P5).kind = "pinned" /\ Head(P5).on = "pin"
      /\ Head(P4).kind = "do" /\ Head(P4).on = "pin" /\ Head(P3).kind = "check"
      /\ Tail(P3) = P4 /\ P3 # <<>> /\ P4 # <<>> /\ P5 # <<>>
    BY AllSpots DEF Spot
<1>2. /\ Head(U4).kind = "pinned" /\ Head(U4).on = "unpin"
      /\ Head(U3).kind = "do" /\ Head(U3).on = "unpin"
      /\ Head(P2).kind = "room"
    BY AllSpots DEF Spot
<1>3. /\ Head(C2).kind = "reserve" /\ Head(A2).kind = "reserve"
      /\ Head(C3).kind = "do" /\ Head(C3).on = "newgroup"
      /\ Head(A3).kind = "do" /\ Head(A3).on = "members"
    BY AllSpots DEF Spot
<1>4. /\ Head(C1).kind = "check" /\ Head(C4).kind = "check" /\ Head(A1).kind = "check"
      /\ Head(P1).kind = "check" /\ Head(U1).kind = "check" /\ Head(U2).kind = "check"
    BY AllSpots DEF Spot
<1>5. P4 # U3 /\ P4 # C2 /\ P4 # A2 /\ P4 # P2 /\ P4 # U2
    BY <1>1, <1>2, <1>3, <1>4
<1>6. /\ Tail(C1) = C2 /\ Tail(C4) = <<>> /\ Tail(A1) = A2
      /\ Tail(P1) = P2 /\ Tail(U1) = U2 /\ Tail(U2) = U3
    BY AllSpots DEF Spot
<1>7. /\ P3 # C1 /\ P3 # C4 /\ P3 # A1 /\ P3 # P1 /\ P3 # U1 /\ P3 # U2
    BY <1>1, <1>5, <1>6, Zenon
<1>9. /\ P3 # C2 /\ P3 # A2 /\ P3 # C3 /\ P3 # A3 /\ P3 # P2 /\ P3 # U3 /\ P3 # U4
    BY <1>1, <1>2, <1>3
<1>10. /\ P4 # C1 /\ P4 # C3 /\ P4 # C4 /\ P4 # A1 /\ P4 # A3 /\ P4 # P1 /\ P4 # U1 /\ P4 # U4
    BY <1>1, <1>2, <1>3, <1>4
<1>11. /\ P5 # C1 /\ P5 # C2 /\ P5 # C3 /\ P5 # C4 /\ P5 # A1 /\ P5 # A2 /\ P5 # A3 /\ P5 # P1
       /\ P5 # P2 /\ P5 # U1 /\ P5 # U2 /\ P5 # U3 /\ P5 # U4
    BY <1>1, <1>2, <1>3, <1>4
<1> QED BY <1>1, <1>5, <1>7, <1>9, <1>10, <1>11 DEF PastRoom

-----------------------------------------------------------------------------
(* What follows from them *)

\* What the quotas need to know of a spot.
SpotFacts(t) ==
    /\ t # <<>> /\ Tail(t) \in Spots \cup {<<>>} /\ (Len(t) = 1 <=> Tail(t) = <<>>)
    /\ Head(t).kind \in {"check", "reserve", "do", "room", "pinned"}
    /\ Head(t).quota \in {"none", "create", "add"} /\ Head(t).logs = FALSE
    /\ Head(t).kind = "reserve" =>
        /\ Head(t).on \in {"create", "add"} /\ Tail(t) \in Spots
        /\ Head(Tail(t)).kind = "do" /\ Head(Tail(t)).quota = Head(t).on
    /\ Head(t).kind = "do" => /\ Head(t).on \in {"newgroup", "members", "pin", "unpin"}
                              /\ QuotaOf(Head(t).on) = Head(t).quota
    /\ Head(t).kind = "check" => Head(t).quota \in {"none", "create"}
\* And of the spot after it.
NextFacts(t) ==
    Tail(t) \in Spots =>
        /\ Head(t).kind # "reserve" /\ Head(Tail(t)).kind = "do" => Head(Tail(t)).quota = "none"
        /\ Head(Tail(t)).kind = "check" /\ Head(Tail(t)).quota # "none" =>
                Head(t).kind = "do" /\ Head(t).on = "newgroup"
\* What the limit of pins needs to know.
PinFacts(t) ==
    /\ Head(t).kind # "room" /\ Tail(t) \in PastRoom => t \in PastRoom
    /\ Tail(t) = P5 => Head(t).kind = "do" /\ Head(t).on = "pin"
    /\ Head(t).kind = "do" /\ Head(t).on = "pin" => t \in PastRoom /\ Tail(t) = P5
    /\ t = P5 => Head(t).kind = "pinned" /\ Head(t).on = "pin"
    /\ Head(t).kind = "pinned" => /\ Tail(t) = <<>> /\ Head(t).on \in {"pin", "unpin"}
                                  /\ Head(t).on = "pin" => t \in PastRoom

LEMMA SpotsKnown == \A t \in Spots : SpotFacts(t) /\ NextFacts(t) /\ PinFacts(t)
<1>0. /\ QuotaOf("newgroup") = "create" /\ QuotaOf("members") = "add"
      /\ QuotaOf("pin") = "none" /\ QuotaOf("unpin") = "none"
    BY DEF QuotaOf, NoQuota
<1>1. ASSUME NEW t, NEW on, NEW u, Spot(t, "check", on, "none", u), t \in Spots,
             u \in Spots, Head(u).kind = "check" => Head(u).quota = "none",
             Head(u).kind = "do" => Head(u).quota = "none",
             u \in PastRoom => t \in PastRoom, u # P5, t # P5
      PROVE  SpotFacts(t) /\ NextFacts(t) /\ PinFacts(t)
    BY <1>1 DEF Spot, SpotFacts, NextFacts, PinFacts
<1>2. /\ C1 \in Spots /\ C2 \in Spots /\ C3 \in Spots /\ C4 \in Spots /\ A1 \in Spots /\ A2 \in Spots
      /\ A3 \in Spots /\ P1 \in Spots /\ P2 \in Spots /\ P3 \in Spots /\ P4 \in Spots /\ P5 \in Spots
      /\ U1 \in Spots /\ U2 \in Spots /\ U3 \in Spots /\ U4 \in Spots
    BY DEF Spots
<1>3. /\ C1 \notin PastRoom /\ C2 \notin PastRoom /\ C3 \notin PastRoom /\ C4 \notin PastRoom /\ A1 \notin PastRoom
      /\ A2 \notin PastRoom /\ A3 \notin PastRoom /\ P1 \notin PastRoom /\ P2 \notin PastRoom /\ U1 \notin PastRoom
      /\ U2 \notin PastRoom /\ U3 \notin PastRoom /\ U4 \notin PastRoom /\ <<>> \notin PastRoom
    BY SpotsApart
<1>4. P3 \in PastRoom /\ P4 \in PastRoom /\ P5 \in PastRoom
    BY DEF PastRoom
<1>5. P5 # P3 /\ P5 # P4
  <2>1. Head(P5).kind = "pinned" /\ Head(P4).kind = "do" /\ Head(P3).kind = "check"
    BY AllSpots DEF Spot
  <2> QED BY <2>1
<1>6. /\ Head(C2).kind = "reserve" /\ Head(A2).kind = "reserve" /\ Head(P2).kind = "room"
      /\ Head(P4).kind = "do" /\ Head(P4).quota = "none" /\ Head(U3).kind = "do"
      /\ Head(U3).quota = "none" /\ Head(U2).kind = "check" /\ Head(U2).quota = "none"
      /\ Head(C3).kind = "do" /\ Head(C3).quota = "create" /\ Head(A3).kind = "do"
      /\ Head(A3).quota = "add" /\ Head(C4).kind = "check" /\ Head(C4).quota = "create"
      /\ Head(P3).kind = "check" /\ Head(P3).quota = "none" /\ Head(P5).kind = "pinned"
      /\ Head(U4).kind = "pinned"
    BY AllSpots DEF Spot
<1>c1. SpotFacts(C1) /\ NextFacts(C1) /\ PinFacts(C1)
  <2>1. Spot(C1, "check", "any", "none", C2)
    BY AllSpots
  <2> QED BY <1>1, <1>2, <1>3, <1>4, <1>6, <2>1
<1>a1. SpotFacts(A1) /\ NextFacts(A1) /\ PinFacts(A1)
  <2>1. Spot(A1, "check", "any", "none", A2)
    BY AllSpots
  <2> QED BY <1>1, <1>2, <1>3, <1>4, <1>6, <2>1
<1>p1. SpotFacts(P1) /\ NextFacts(P1) /\ PinFacts(P1)
  <2>1. Spot(P1, "check", "any", "none", P2)
    BY AllSpots
  <2> QED BY <1>1, <1>2, <1>3, <1>4, <1>6, <2>1
<1>p3. SpotFacts(P3) /\ NextFacts(P3) /\ PinFacts(P3)
  <2>1. Spot(P3, "check", "any", "none", P4)
    BY AllSpots
  <2> QED BY <1>1, <1>2, <1>4, <1>5, <1>6, <2>1
<1>u1. SpotFacts(U1) /\ NextFacts(U1) /\ PinFacts(U1)
  <2>1. Spot(U1, "check", "any", "none", U2)
    BY AllSpots
  <2> QED BY <1>1, <1>2, <1>3, <1>4, <1>6, <2>1
<1>u2. SpotFacts(U2) /\ NextFacts(U2) /\ PinFacts(U2)
  <2>1. Spot(U2, "check", "any", "none", U3)
    BY AllSpots
  <2> QED BY <1>1, <1>2, <1>3, <1>4, <1>6, <2>1
<1>c2. SpotFacts(C2) /\ NextFacts(C2) /\ PinFacts(C2)
  <2>1. Spot(C2, "reserve", "create", "none", C3)
    BY AllSpots
  <2> QED BY <1>2, <1>3, <1>4, <1>6, <2>1 DEF Spot, SpotFacts, NextFacts, PinFacts
<1>a2. SpotFacts(A2) /\ NextFacts(A2) /\ PinFacts(A2)
  <2>1. Spot(A2, "reserve", "add", "none", A3)
    BY AllSpots
  <2> QED BY <1>2, <1>3, <1>4, <1>6, <2>1 DEF Spot, SpotFacts, NextFacts, PinFacts
<1>c3. SpotFacts(C3) /\ NextFacts(C3) /\ PinFacts(C3)
  <2>1. Spot(C3, "do", "newgroup", "create", C4)
    BY AllSpots
  <2> QED BY <1>0, <1>2, <1>3, <1>4, <1>6, <2>1 DEF Spot, SpotFacts, NextFacts, PinFacts
<1>a3. SpotFacts(A3) /\ NextFacts(A3) /\ PinFacts(A3)
  <2>1. Spot(A3, "do", "members", "add", <<>>)
    BY AllSpots
  <2>2. <<>> \notin Spots
    BY AllSpots, <1>2 DEF Spots, Spot
  <2> QED BY <1>0, <1>2, <1>3, <1>4, <2>1, <2>2 DEF Spot, SpotFacts, NextFacts, PinFacts
<1>c4. SpotFacts(C4) /\ NextFacts(C4) /\ PinFacts(C4)
  <2>1. Spot(C4, "check", "any", "create", <<>>)
    BY AllSpots
  <2>2. <<>> \notin Spots
    BY AllSpots, <1>2 DEF Spots, Spot
  <2> QED BY <1>2, <1>3, <1>4, <2>1, <2>2 DEF Spot, SpotFacts, NextFacts, PinFacts
<1>p2. SpotFacts(P2) /\ NextFacts(P2) /\ PinFacts(P2)
  <2>1. Spot(P2, "room", "any", "none", P3)
    BY AllSpots
  <2> QED BY <1>2, <1>3, <1>4, <1>5, <1>6, <2>1 DEF Spot, SpotFacts, NextFacts, PinFacts
<1>p4. SpotFacts(P4) /\ NextFacts(P4) /\ PinFacts(P4)
  <2>1. Spot(P4, "do", "pin", "none", P5)
    BY AllSpots
  <2> QED BY <1>0, <1>2, <1>4, <1>5, <1>6, <2>1 DEF Spot, SpotFacts, NextFacts, PinFacts
<1>p5. SpotFacts(P5) /\ NextFacts(P5) /\ PinFacts(P5)
  <2>1. Spot(P5, "pinned", "pin", "none", <<>>)
    BY AllSpots
  <2>2. <<>> \notin Spots
    BY AllSpots, <1>2 DEF Spots, Spot
  <2> QED BY <1>2, <1>3, <1>4, <2>1, <2>2 DEF Spot, SpotFacts, NextFacts, PinFacts
<1>u3. SpotFacts(U3) /\ NextFacts(U3) /\ PinFacts(U3)
  <2>1. Spot(U3, "do", "unpin", "none", U4)
    BY AllSpots
  <2> QED BY <1>0, <1>2, <1>3, <1>4, <1>6, <2>1 DEF Spot, SpotFacts, NextFacts, PinFacts
<1>u4. SpotFacts(U4) /\ NextFacts(U4) /\ PinFacts(U4)
  <2>1. Spot(U4, "pinned", "unpin", "none", <<>>)
    BY AllSpots
  <2>2. <<>> \notin Spots
    BY AllSpots, <1>2 DEF Spots, Spot
  <2> QED BY <1>2, <1>3, <1>4, <2>1, <2>2 DEF Spot, SpotFacts, NextFacts, PinFacts
<1> QED BY <1>c1, <1>c2, <1>c3, <1>c4, <1>a1, <1>a2, <1>a3, <1>p1, <1>p2, <1>p3, <1>p4, <1>p5,
           <1>u1, <1>u2, <1>u3, <1>u4 DEF Spots

-----------------------------------------------------------------------------
(* Calls in flight *)

\* The name of no method and of no chat.
NoName == ""
CallType ==
    [phase : {"idle", "running", "ok", "error"}, scope : {"local"},
     method : {NoName, "group.create", "group.addParticipants", "chat.pin"},
     todo : Spots \cup {<<>>}, gates : SUBSET {"group.add", "chat_state"},
     did : SUBSET {"newgroup", "members", "pin", "unpin"}, wrote : {{}}, logged : BOOLEAN,
     amount : Nat, chat : Chats \cup {NoName}, on : Nat, lost : BOOLEAN, unrecorded : BOOLEAN]

\* A call that runs is at a spot; past its group it knows that it made it.
CallOK(c, d) ==
    /\ c.on <= d
    /\ c.phase = "running" =>
        /\ c.todo \in Spots /\ c.amount \in 1..MostAdded /\ c.chat \in Chats
        /\ Head(c.todo).kind = "check" /\ Head(c.todo).quota # "none" => "newgroup" \in c.did

Same(c, e) == e.amount = c.amount /\ e.chat = c.chat /\ e.on = c.on

LEMMA IdleTyped == Idle \in CallType /\ Idle.phase = "idle" /\ Idle.on = 0 /\ Idle.todo = <<>>
<1> DEFINE J(o) == [phase |-> "idle", scope |-> "local", method |-> o, todo |-> <<>>, gates |-> {},
         did |-> {}, wrote |-> {}, logged |-> FALSE, amount |-> 0, chat |-> o, on |-> 0,
         lost |-> FALSE, unrecorded |-> FALSE]
<1>1. PICK o : o = NoName
    BY Zenon
<1>2. Idle = J(o)
    BY <1>1, Zenon DEF Idle, NoName
<1>3. o \in {NoName, "group.create", "group.addParticipants", "chat.pin"} /\ o \in Chats \cup {NoName}
    BY <1>1
<1>4. J(o) \in CallType
    BY <1>3 DEF CallType
<1>5. J(o).phase = "idle" /\ J(o).on = 0 /\ J(o).todo = <<>>
    OBVIOUS
<1> QED BY <1>2, <1>4, <1>5, Zenon

LEMMA PastIs ==
    ASSUME NEW c \in CallType, c.todo \in Spots
    PROVE  /\ Past(c) \in CallType /\ Same(c, Past(c)) /\ Past(c).did = c.did
           /\ Past(c).todo = Tail(c.todo)
           /\ Past(c).phase = IF Tail(c.todo) = <<>> THEN "ok" ELSE "running"
<1>1. PICK t, u : t = c.todo /\ u = Tail(c.todo)
    OBVIOUS
<1>2. u \in Spots \cup {<<>>} /\ (Len(t) = 1 <=> u = <<>>)
    BY <1>1, SpotsKnown DEF SpotFacts
<1>3. PICK p : p = IF u = <<>> THEN "ok" ELSE "running"
    OBVIOUS
<1>4. Past(c) = [c EXCEPT !.todo = u, !.phase = p]
    BY <1>1, <1>2, <1>3 DEF Past
<1>5. p \in {"idle", "running", "ok", "error"}
    BY <1>3
<1>6. PICK e : e = [c EXCEPT !.todo = u, !.phase = p]
    OBVIOUS
<1>7. /\ e \in CallType /\ e.todo = u /\ e.phase = p /\ e.did = c.did
      /\ e.amount = c.amount /\ e.chat = c.chat /\ e.on = c.on
    BY <1>2, <1>5, <1>6 DEF CallType
<1> QED BY <1>1, <1>3, <1>4, <1>6, <1>7 DEF Same

LEMMA FailedIs ==
    ASSUME NEW c \in CallType, c.todo \in Spots
    PROVE  /\ Failed(c) \in CallType /\ Same(c, Failed(c))
           /\ Failed(c).todo = <<>> /\ Failed(c).phase = "error"
<1>1. PICK l, r : l = (c.logged \/ Head(c.todo).logs) /\ r = (Head(c.todo).on = "sidecar")
    OBVIOUS
<1>2. c.logged \in BOOLEAN
    BY DEF CallType
<1>3. l \in BOOLEAN /\ r \in BOOLEAN
    BY <1>1, <1>2, Zenon
<1>4. Failed(c) = [c EXCEPT !.todo = <<>>, !.phase = "error", !.logged = l, !.unrecorded = r]
    BY <1>1, Zenon DEF Failed
<1>5. PICK e : e = [c EXCEPT !.todo = <<>>, !.phase = "error", !.logged = l, !.unrecorded = r]
    OBVIOUS
<1>6. /\ e \in CallType /\ e.todo = <<>> /\ e.phase = "error"
      /\ e.amount = c.amount /\ e.chat = c.chat /\ e.on = c.on
    BY <1>3, <1>5 DEF CallType
<1> QED BY <1>4, <1>5, <1>6 DEF Same

-----------------------------------------------------------------------------
(* The uses that calls hold of a quota *)

Holds(c, q, d) ==
    c.phase = "running" /\ Head(c.todo).kind = "do" /\ Head(c.todo).quota = q /\ c.on = d
Weight(c, q, d) == IF Holds(c, q, d) THEN c.amount ELSE 0
HeldOf(f, q, d) ==
    {x \in Slots \X (1..MostAdded) : x[2] <= Weight(f[x[1]], q, d)}

LEMMA HeldFinite ==
    ASSUME NEW f, NEW q, NEW d
    PROVE  IsFiniteSet(HeldOf(f, q, d)) /\ Cardinality(HeldOf(f, q, d)) \in Nat
<1>1. IsFiniteSet(1..MostAdded)
    BY RequestsAssumption, FS_Interval
<1>2. IsFiniteSet(Slots \X (1..MostAdded))
    BY <1>1, RequestsAssumption, FS_Product
<1>3. HeldOf(f, q, d) \in SUBSET (Slots \X (1..MostAdded))
    BY DEF HeldOf
<1>4. IsFiniteSet(HeldOf(f, q, d))
    BY <1>2, <1>3, FS_Subset
<1> QED BY <1>4, FS_CardinalityType

\* One slot, with w uses.
LEMMA HeldBySlot ==
    ASSUME NEW f, NEW q, NEW d, NEW s \in Slots, NEW w \in 0..MostAdded,
           Weight(f[s], q, d) = w
    PROVE  LET others == {x \in HeldOf(f, q, d) : x[1] # s}
           IN Cardinality(HeldOf(f, q, d)) = Cardinality(others) + w
<1> DEFINE others == {x \in HeldOf(f, q, d) : x[1] # s}
<1> DEFINE own == {s} \X (1..w)
<1>0. MostAdded \in Nat \ {0} /\ w \in Int /\ w \in Nat
    BY RequestsAssumption
<1>1. IsFiniteSet(others) /\ Cardinality(others) \in Nat
  <2>1. others \in SUBSET HeldOf(f, q, d)
    OBVIOUS
  <2>2. IsFiniteSet(others)
    BY <2>1, HeldFinite, FS_Subset
  <2> QED BY <2>2, FS_CardinalityType
<1>2. IsFiniteSet(own) /\ Cardinality(own) = w
  <2>1. IsFiniteSet(1..w) /\ Cardinality(1..w) = w
    BY <1>0, FS_Interval
  <2>2. IsFiniteSet({s}) /\ Cardinality({s}) = 1
    BY FS_Singleton
  <2>3. IsFiniteSet(own) /\ Cardinality(own) = Cardinality({s}) * Cardinality(1..w)
    BY <2>1, <2>2, FS_Product
  <2> QED BY <1>0, <2>1, <2>2, <2>3
<1>3. HeldOf(f, q, d) = others \cup own
    BY <1>0 DEF HeldOf
<1>4. others \cap own = {}
    OBVIOUS
<1>5. Cardinality(others \cap own) = 0
    BY <1>4, FS_EmptySet
<1> HIDE DEF others, own
<1>6. Cardinality(others \cup own) = Cardinality(others) + Cardinality(own) - Cardinality(others \cap own)
    BY <1>1, <1>2, FS_Union
<1>7. Cardinality(HeldOf(f, q, d)) = Cardinality(others) + w
    BY <1>0, <1>1, <1>2, <1>3, <1>5, <1>6
<1> QED BY <1>7 DEF others

\* A call that moves on takes its uses along or drops them.
HeldIn(f, q, d) == Cardinality(HeldOf(f, q, d))
Moves(f, g, s, q, d, v, w) ==
    /\ f \in [Slots -> CallType] /\ \E e : g = [f EXCEPT ![s] = e]
    /\ v \in 0..MostAdded /\ w \in 0..MostAdded
    /\ Weight(f[s], q, d) = v /\ Weight(g[s], q, d) = w
LEMMA HeldMoved ==
    ASSUME NEW f, NEW g, NEW q, NEW d, NEW s \in Slots, NEW v, NEW w,
           Moves(f, g, s, q, d, v, w)
    PROVE  HeldIn(g, q, d) + v = HeldIn(f, q, d) + w
<1>1. /\ f \in [Slots -> CallType] /\ v \in 0..MostAdded /\ w \in 0..MostAdded
      /\ Weight(f[s], q, d) = v /\ Weight(g[s], q, d) = w
    BY DEF Moves
<1>2. \A t \in Slots : t # s => g[t] = f[t]
    BY DEF Moves
<1>3. PICK a : a = {x \in HeldOf(f, q, d) : x[1] # s}
    OBVIOUS
<1>4. a = {x \in HeldOf(g, q, d) : x[1] # s}
    BY <1>2, <1>3 DEF HeldOf
<1>5. HeldIn(f, q, d) = Cardinality(a) + v
    BY <1>1, <1>3, HeldBySlot DEF HeldIn
<1>6. Weight(g[s], q, d) = w
    BY <1>1, <1>2
<1>7. HeldIn(g, q, d) = Cardinality(a) + w
    BY <1>1, <1>4, <1>6, HeldBySlot DEF HeldIn
<1>8. Cardinality(a) \in Nat
  <2>1. a \in SUBSET HeldOf(f, q, d)
    BY <1>3
  <2>2. IsFiniteSet(a)
    BY <2>1, HeldFinite, FS_Subset
  <2> QED BY <2>2, FS_CardinalityType
<1>9. v \in Nat /\ w \in Nat
    BY <1>1, RequestsAssumption
<1> QED BY <1>1, <1>5, <1>7, <1>8, <1>9

-----------------------------------------------------------------------------
(* The invariant *)

\* What a counter says of today.
Counted(q) == IF count[q].day = day THEN count[q].n ELSE 0

QuotaTypes ==
    /\ call \in [Slots -> CallType] /\ day \in Nat
    /\ \A s \in Slots : CallOK(call[s], day)
    /\ count \in [Quotas -> [n : Nat, day : Nat]]
    /\ used \in [Quotas -> Nat] /\ slack \in [Quotas -> Nat]
    /\ \A q \in Quotas : count[q].n <= Cap[q] /\ count[q].day <= day

\* A use is counted from its reservation on, whether it has happened or is held.
QuotaInv ==
    /\ QuotaTypes
    /\ \A q \in Quotas : used[q] + Cardinality(HeldOf(call, q, day)) <= Counted(q) + slack[q]

LEMMA QuotasAre == Quotas = {"create", "add"} /\ \A q \in Quotas : Cap[q] \in Nat
BY RequestsAssumption DEF Quotas

LEMMA WeightIs ==
    ASSUME NEW c \in CallType, NEW q, NEW d \in Nat, CallOK(c, d)
    PROVE  Weight(c, q, d) \in 0..MostAdded
BY RequestsAssumption DEF Weight, Holds, CallOK

\* A call that goes on holds uses only if it has just reserved them.
LEMMA GoesOn ==
    ASSUME NEW d \in Nat, NEW c \in CallType, c.todo \in Spots,
           c.amount \in 1..MostAdded, c.chat \in Chats, c.on <= d,
           Head(c.todo).kind = "do" /\ Head(c.todo).on = "newgroup" => "newgroup" \in c.did
    PROVE  /\ Past(c) \in CallType /\ CallOK(Past(c), d) /\ Same(c, Past(c))
           /\ Past(c).todo = Tail(c.todo)
           /\ Past(c).phase = "running" => Tail(c.todo) \in Spots
           /\ Tail(c.todo) \in Spots => Past(c).phase = "running"
           /\ \A q \in Quotas : Weight(Past(c), q, d)
                = IF Head(c.todo).kind = "reserve" /\ Head(c.todo).on = q /\ c.on = d
                  THEN c.amount ELSE 0
<1>1. PICK e, t, u : e = Past(c) /\ t = c.todo /\ u = Tail(c.todo)
    OBVIOUS
<1>2. /\ e \in CallType /\ e.todo = u /\ e.did = c.did
      /\ e.phase = (IF u = <<>> THEN "ok" ELSE "running")
      /\ e.amount = c.amount /\ e.chat = c.chat /\ e.on = c.on
    BY <1>1, PastIs DEF Same
<1>3. t \in Spots /\ u = Tail(t) /\ SpotFacts(t) /\ NextFacts(t)
    BY <1>1, SpotsKnown
<1>4. u \in Spots => u # <<>>
    BY SpotsKnown DEF SpotFacts
<1>5. e.phase = "running" <=> u \in Spots
    BY <1>2, <1>3, <1>4 DEF SpotFacts
<1>6. CallOK(e, d)
    BY <1>1, <1>2, <1>3, <1>5 DEF CallOK, NextFacts
<1>7. ASSUME NEW q \in Quotas
      PROVE  Weight(e, q, d) = IF Head(t).kind = "reserve" /\ Head(t).on = q /\ c.on = d
                               THEN c.amount ELSE 0
  <2>1. q # "none"
    BY QuotasAre
  <2>2. CASE u \in Spots
    BY <1>2, <1>3, <1>5, <2>1, <2>2 DEF Weight, Holds, SpotFacts, NextFacts
  <2>3. CASE u \notin Spots
    BY <1>2, <1>3, <1>5, <2>1, <2>3 DEF Weight, Holds, SpotFacts
  <2> QED BY <2>2, <2>3
<1> QED BY <1>1, <1>2, <1>5, <1>6, <1>7 DEF Same

LEMMA GivesUp ==
    ASSUME NEW d \in Nat, NEW c \in CallType, c.todo \in Spots, c.on <= d
    PROVE  /\ Failed(c) \in CallType /\ CallOK(Failed(c), d) /\ Failed(c).phase = "error"
           /\ \A q : Weight(Failed(c), q, d) = 0
<1>1. Failed(c) \in CallType /\ Same(c, Failed(c)) /\ Failed(c).phase = "error"
    BY FailedIs
<1> QED BY <1>1 DEF CallOK, Same, Weight, Holds

\* A step of one slot: what it uses and comes to hold, and no more, is added to
\* the counter or to the slack.
LEMMA SlotStep ==
    ASSUME QuotaInv, NEW s \in Slots, NEW e \in CallType, CallOK(e, day),
           call' = [call EXCEPT ![s] = e], day' = day,
           count' \in [Quotas -> [n : Nat, day : Nat]],
           used' \in [Quotas -> Nat], slack' \in [Quotas -> Nat],
           \A q \in Quotas :
            /\ count'[q].n <= Cap[q] /\ count'[q].day <= day
            /\ used'[q] + Weight(e, q, day) + Counted(q) + slack[q]
                <= used[q] + Weight(call[s], q, day) + Counted(q)' + slack'[q]
    PROVE  QuotaInv'
<1>1. QuotaTypes'
  <2>1. call' \in [Slots -> CallType] /\ \A r \in Slots : CallOK(call'[r], day)
    BY DEF QuotaInv, QuotaTypes
  <2> QED BY <2>1 DEF QuotaInv, QuotaTypes
<1>2. ASSUME NEW q \in Quotas
      PROVE  used'[q] + Cardinality(HeldOf(call', q, day')) <= Counted(q)' + slack'[q]
  <2>1. PICK f, d, v, w : /\ f = call /\ d = day /\ v = Weight(call[s], q, day)
                          /\ w = Weight(e, q, day)
    OBVIOUS
  <2>2. /\ f \in [Slots -> CallType] /\ d \in Nat /\ f[s] \in CallType
        /\ CallOK(f[s], d) /\ CallOK(e, d)
    BY <2>1 DEF QuotaInv, QuotaTypes
  <2>3. v \in 0..MostAdded /\ w \in 0..MostAdded /\ Weight(f[s], q, d) = v /\ Weight(e, q, d) = w
    BY <2>1, <2>2, WeightIs
  <2>a. PICK g : g = [f EXCEPT ![s] = e]
    OBVIOUS
  <2>4. HeldIn(g, q, d) + v = HeldIn(f, q, d) + w
    <3>1. Moves(f, g, s, q, d, v, w)
        BY <2>2, <2>3, <2>a DEF Moves
    <3> QED BY <3>1, HeldMoved
  <2>5. PICK h, k : h = HeldIn(f, q, d) /\ k = HeldIn(g, q, d)
    OBVIOUS
  <2>6. h \in Nat /\ k \in Nat
    BY <2>5, HeldFinite DEF HeldIn
  <2>7. k = Cardinality(HeldOf(call', q, day')) /\ h = Cardinality(HeldOf(call, q, day))
    BY <2>1, <2>5, <2>a DEF HeldIn
  <2>8. used[q] + h <= Counted(q) + slack[q]
    BY <2>7 DEF QuotaInv
  <2>9. used'[q] + w + Counted(q) + slack[q] <= used[q] + v + Counted(q)' + slack'[q]
    BY <2>1
  <2>10. PICK a, b, x, y, z, o : /\ a = used[q] /\ b = used'[q] /\ x = Counted(q) /\ y = Counted(q)'
                                /\ z = slack[q] /\ o = slack'[q]
    OBVIOUS
  <2>11. a \in Nat /\ b \in Nat /\ x \in Nat /\ y \in Nat /\ z \in Nat /\ o \in Nat
    BY <2>10 DEF QuotaInv, QuotaTypes, Counted
  <2>12. v \in Nat /\ w \in Nat /\ k + v = h + w
    BY <2>3, <2>4, <2>5, RequestsAssumption
  <2>13. a + h <= x + z /\ b + w + x + z <= a + v + y + o
    BY <2>8, <2>9, <2>10
  <2>14. b + k <= y + o
    BY <2>6, <2>11, <2>12, <2>13
  <2> QED BY <2>7, <2>10, <2>14
<1> QED BY <1>1, <1>2 DEF QuotaInv

\* A step that leaves counters, uses and slack alone.
LEMMA SlotMoves ==
    ASSUME QuotaInv, NEW s \in Slots, NEW e \in CallType, CallOK(e, day),
           call' = [call EXCEPT ![s] = e], UNCHANGED <<day, count, used, slack>>,
           \A q \in Quotas : Weight(e, q, day) = 0
    PROVE  QuotaInv'
<1>1. ASSUME NEW q \in Quotas
      PROVE  /\ count'[q].n <= Cap[q] /\ count'[q].day <= day
             /\ used'[q] + Weight(e, q, day) + Counted(q) + slack[q]
                <= used[q] + Weight(call[s], q, day) + Counted(q)' + slack'[q]
  <2>1. Counted(q)' = Counted(q) /\ Counted(q) \in Nat /\ used[q] \in Nat /\ slack[q] \in Nat
    BY DEF Counted, QuotaInv, QuotaTypes
  <2>2. Weight(call[s], q, day) \in 0..MostAdded
    <3>1. PICK c, d : c = call[s] /\ d = day
        OBVIOUS
    <3>2. c \in CallType /\ d \in Nat /\ CallOK(c, d)
        BY <3>1 DEF QuotaInv, QuotaTypes
    <3> QED BY <3>1, <3>2, WeightIs
  <2>3. PICK a, b, c, w : a = used[q] /\ b = Counted(q) /\ c = slack[q] /\ w = Weight(call[s], q, day)
    OBVIOUS
  <2>4. a \in Nat /\ b \in Nat /\ c \in Nat /\ w \in Nat
    BY <2>1, <2>2, <2>3, RequestsAssumption
  <2>5. a + 0 + b + c <= a + w + b + c
    BY <2>4
  <2>6. count'[q].n <= Cap[q] /\ count'[q].day <= day
    BY DEF QuotaInv, QuotaTypes
  <2> QED BY <2>1, <2>3, <2>5, <2>6
<1>2. /\ count' \in [Quotas -> [n : Nat, day : Nat]]
      /\ used' \in [Quotas -> Nat] /\ slack' \in [Quotas -> Nat] /\ day' = day
    BY DEF QuotaInv, QuotaTypes
<1> QED BY <1>1, <1>2, SlotStep

-----------------------------------------------------------------------------
(* Each step keeps the quotas *)

\* What is known of a call that runs, on the day d.
Running(c, d) ==
    /\ c \in CallType /\ d \in Nat /\ c.todo \in Spots /\ c.phase = "running"
    /\ c.amount \in 1..MostAdded /\ c.amount \in Nat /\ c.chat \in Chats
    /\ c.on \in Nat /\ c.on <= d
    /\ Head(c.todo).kind = "check" /\ Head(c.todo).quota # "none" => "newgroup" \in c.did
    /\ SpotFacts(c.todo) /\ NextFacts(c.todo) /\ PinFacts(c.todo)

LEMMA AtSpot ==
    ASSUME QuotaInv, NEW s \in Slots, call[s].phase = "running"
    PROVE  Running(call[s], day) /\ Next1(s) = Head(call[s].todo)
<1>1. PICK c, d : c = call[s] /\ d = day
    OBVIOUS
<1>2. c \in CallType /\ d \in Nat /\ CallOK(c, d) /\ c.phase = "running"
    BY <1>1 DEF QuotaInv, QuotaTypes
<1>3. c.todo \in Spots /\ c.amount \in 1..MostAdded /\ c.chat \in Chats /\ c.on <= d
    BY <1>2 DEF CallOK
<1>4. Head(c.todo).kind = "check" /\ Head(c.todo).quota # "none" => "newgroup" \in c.did
    BY <1>2 DEF CallOK
<1>5. SpotFacts(c.todo) /\ NextFacts(c.todo) /\ PinFacts(c.todo)
    BY <1>3, SpotsKnown
<1>6. c.on \in Nat /\ c.amount \in Nat
    BY <1>2 DEF CallType
<1>7. Running(c, d)
    BY <1>2, <1>3, <1>4, <1>5, <1>6 DEF Running
<1> QED BY <1>1, <1>7 DEF Next1

\* Calls that meet take no other kind of step.
LEMMA NeverAt ==
    ASSUME QuotaInv, NEW s \in Slots, NEW K,
           K \cap {"check", "reserve", "do", "room", "pinned"} = {}
    PROVE  ~At(s, K)
<1> SUFFICES ASSUME At(s, K) PROVE FALSE
    OBVIOUS
<1>1. call[s].phase = "running" /\ Next1(s).kind \in K
    BY DEF At
<1>2. Next1(s).kind \in {"check", "reserve", "do", "room", "pinned"}
    BY <1>1, AtSpot DEF Running, SpotFacts
<1> QED BY <1>1, <1>2

\* What a running call is after its step, or after it gave up.
Onward(c, c1, e, d) ==
    /\ e \in CallType /\ CallOK(e, d) /\ e.chat = c.chat /\ e.todo = Tail(c.todo)
    /\ e.phase = "running" <=> Tail(c.todo) \in Spots
    /\ \A q \in Quotas : Weight(e, q, d)
         = IF Head(c.todo).kind = "reserve" /\ Head(c.todo).on = q /\ c1.on = d THEN c1.amount ELSE 0
LEMMA OnwardIs ==
    ASSUME NEW c, NEW c1 \in CallType, NEW d, Running(c, d),
           c1.todo = c.todo, c1.chat = c.chat, c1.amount \in 1..MostAdded, c1.on <= d,
           Head(c.todo).kind = "do" /\ Head(c.todo).on = "newgroup" => "newgroup" \in c1.did
    PROVE  Onward(c, c1, Past(c1), d)
<1>1. d \in Nat /\ c1.todo \in Spots /\ c1.chat \in Chats
    BY DEF Running
<1>2. Head(c1.todo).kind = "do" /\ Head(c1.todo).on = "newgroup" => "newgroup" \in c1.did
    OBVIOUS
<1>3. PICK e : e = Past(c1)
    OBVIOUS
<1>4. /\ e \in CallType /\ CallOK(e, d) /\ Same(c1, e) /\ e.todo = Tail(c1.todo)
      /\ e.phase = "running" => Tail(c1.todo) \in Spots
      /\ Tail(c1.todo) \in Spots => e.phase = "running"
      /\ \A q \in Quotas : Weight(e, q, d)
                = IF Head(c1.todo).kind = "reserve" /\ Head(c1.todo).on = q /\ c1.on = d
                  THEN c1.amount ELSE 0
    BY <1>1, <1>2, <1>3, GoesOn
<1>5. e.chat = c.chat
    BY <1>4 DEF Same
<1> QED BY <1>3, <1>4, <1>5 DEF Onward

GaveUp(c, e, d) ==
    /\ e \in CallType /\ CallOK(e, d) /\ e.phase = "error"
    /\ \A q \in Quotas : Weight(e, q, d) = 0
LEMMA GaveUpIs ==
    ASSUME NEW c, NEW c1 \in CallType, NEW d, Running(c, d), c1.todo = c.todo, c1.on <= d
    PROVE  GaveUp(c, Failed(c1), d)
BY GivesUp DEF Running, GaveUp

\* A running call that goes on or gives up without a quota at stake.
LEMMA QMoves ==
    ASSUME QuotaInv, NEW s \in Slots, NEW e,
           \/ GaveUp(call[s], e, day)
           \/ \E c1 : Onward(call[s], c1, e, day) /\ Head(call[s].todo).kind # "reserve",
           call' = [call EXCEPT ![s] = e], UNCHANGED <<day, count, used, slack>>
    PROVE  QuotaInv'
<1>1. e \in CallType /\ CallOK(e, day) /\ \A q \in Quotas : Weight(e, q, day) = 0
    BY DEF GaveUp, Onward
<1> QED BY <1>1, SlotMoves

LEMMA ProceedIs ==
    ASSUME QuotaInv, NEW s \in Slots, Proceed(s)
    PROVE  /\ Running(call[s], day) /\ Head(call[s].todo).kind = "check"
           /\ \E e, c1 : Onward(call[s], c1, e, day) /\ call' = [call EXCEPT ![s] = e]
<1>1. call[s].phase = "running"
    BY DEF Proceed, At
<1>2. PICK c, d : c = call[s] /\ d = day
    OBVIOUS
<1>3. Running(c, d) /\ Next1(s) = Head(c.todo)
    BY <1>1, <1>2, AtSpot
<1>4. Head(c.todo).kind = "check"
    BY <1>3 DEF Running, SpotFacts, Proceed, At
<1>5. PICK c1 : /\ c1 = [c EXCEPT !.logged = @ \/ Head(c.todo).kind = "log",
                                  !.method = IF Head(c.todo).kind = "open" THEN Head(c.todo).on ELSE @]
                /\ call' = [call EXCEPT ![s] = Past(c1)]
    BY <1>2, <1>3, <1>4 DEF Proceed, On
<1>6. PICK l : l = (c.logged \/ Head(c.todo).kind = "log")
    OBVIOUS
<1>7. l \in BOOLEAN
    <2>1. c.logged \in BOOLEAN
        BY <1>3 DEF Running, CallType
    <2> QED BY <1>6, <2>1, Zenon
<1>8. c1 = [c EXCEPT !.logged = l, !.method = c.method]
    BY <1>4, <1>5, <1>6
<1>9. c1 \in CallType /\ c1.todo = c.todo /\ c1.chat = c.chat /\ c1.amount = c.amount /\ c1.on = c.on
    <2>1. c \in CallType
        BY <1>3 DEF Running
    <2> QED BY <1>7, <1>8, <2>1 DEF CallType
<1>10. Onward(c, c1, Past(c1), d)
    <2>1. c1.amount \in 1..MostAdded /\ c1.on <= d
        BY <1>3, <1>9 DEF Running
    <2> QED BY <1>3, <1>4, <1>9, <2>1, OnwardIs
<1> QED BY <1>2, <1>3, <1>4, <1>5, <1>10

LEMMA QProceed == ASSUME QuotaInv, NEW s \in Slots, Proceed(s) PROVE QuotaInv'
<1>1. PICK e, c1 : Onward(call[s], c1, e, day) /\ call' = [call EXCEPT ![s] = e]
    BY ProceedIs
<1>2. Head(call[s].todo).kind # "reserve"
    BY ProceedIs
<1>3. UNCHANGED <<day, count, used, slack>>
    BY DEF Proceed, Quiet, Shared
<1> QED BY <1>1, <1>2, <1>3, QMoves

\* A refund of c: the counter goes down by no more than c reserved, and what was
\* done all the same, and x, goes to the slack.
LEMMA Refund ==
    ASSUME QuotaInv, NEW q \in Quotas, NEW c, NEW done \in Nat, NEW x \in Nat,
           c.amount \in Nat, done <= c.amount,
           count' = [count EXCEPT ![q] = Refunded(q, c)], day' = day,
           slack' = [slack EXCEPT ![q] = slack'[q]],
           slack'[q] = slack[q] + Forgotten(q, c, done) + x
    PROVE  /\ count' \in [Quotas -> [n : Nat, day : Nat]] /\ slack' \in [Quotas -> Nat]
           /\ \A r \in Quotas : count'[r].n <= Cap[r] /\ count'[r].day <= day
           /\ \A r \in Quotas \ {q} : Counted(r)' = Counted(r) /\ slack'[r] = slack[r]
           /\ Counted(q) + slack[q] + (IF c.on = day THEN done ELSE 0) + x
                <= Counted(q)' + slack'[q] + (IF c.on = day THEN c.amount ELSE 0)
<1>1. PICK n, k, d, a, z, back, on : /\ n = count[q].n /\ k = count[q].day /\ d = day
                                     /\ a = c.amount /\ z = slack[q] /\ on = c.on
                                     /\ back = IF n < a THEN n ELSE a
    OBVIOUS
<1>2. /\ count \in [Quotas -> [n : Nat, day : Nat]] /\ slack \in [Quotas -> Nat] /\ day \in Nat
      /\ \A r \in Quotas : count[r].n <= Cap[r] /\ count[r].day <= day
    BY DEF QuotaInv, QuotaTypes
<1>3. n \in Nat /\ k \in Nat /\ d \in Nat /\ a \in Nat /\ z \in Nat /\ n <= Cap[q] /\ k <= d /\ done <= a
    BY <1>1, <1>2
<1>4. back \in Nat /\ n - back \in Nat /\ back <= a /\ n - back <= n /\ n = (n - back) + back
    BY <1>1, <1>3
<1>5. PICK m, g : m = n - back /\ g = slack'[q]
    OBVIOUS
<1>6. m \in Nat /\ m <= n /\ n = m + back
    BY <1>4, <1>5
<1>7. Refunded(q, c) = [n |-> m, day |-> k]
    BY <1>1, <1>5 DEF Refunded
<1>8. Forgotten(q, c, done) = IF k = d THEN (IF on = d THEN done ELSE n - m) ELSE 0
    BY <1>1, <1>7 DEF Forgotten
<1>9. g = z + (IF k = d THEN (IF on = d THEN done ELSE back) ELSE 0) + x
  <2>1. n - m = back
    BY <1>3, <1>4, <1>6
  <2>2. g = z + Forgotten(q, c, done) + x
    BY <1>1, <1>5
  <2> QED BY <1>8, <2>1, <2>2, Zenon
<1>10. g \in Nat
    BY <1>3, <1>4, <1>9
<1>11. count' = [count EXCEPT ![q] = [n |-> m, day |-> k]] /\ slack' = [slack EXCEPT ![q] = g]
    BY <1>5, <1>7
<1>12. count' \in [Quotas -> [n : Nat, day : Nat]] /\ slack' \in [Quotas -> Nat]
    BY <1>2, <1>3, <1>6, <1>10, <1>11
<1>13. count'[q].n = m /\ count'[q].day = k /\ \A r \in Quotas \ {q} : count'[r] = count[r] /\ slack'[r] = slack[r]
    BY <1>2, <1>11
<1>14. m <= Cap[q] /\ k <= day
  <2>1. Cap[q] \in Nat
    BY QuotasAre
  <2> QED BY <1>1, <1>3, <1>6, <2>1
<1>15. \A r \in Quotas : count'[r].n <= Cap[r] /\ count'[r].day <= day
    BY <1>2, <1>13, <1>14
<1>16. \A r \in Quotas \ {q} : Counted(r)' = Counted(r) /\ slack'[r] = slack[r]
    BY <1>13 DEF Counted
<1>17. Counted(q) = (IF k = d THEN n ELSE 0) /\ Counted(q)' = (IF k = d THEN m ELSE 0)
    BY <1>1, <1>13 DEF Counted
<1>18. (IF k = d THEN n ELSE 0) + z + (IF on = d THEN done ELSE 0) + x
         <= (IF k = d THEN m ELSE 0) + g + (IF on = d THEN a ELSE 0)
    BY <1>3, <1>4, <1>6, <1>9
<1>19. Counted(q) + slack[q] + (IF c.on = day THEN done ELSE 0) + x
        <= Counted(q)' + slack'[q] + (IF c.on = day THEN c.amount ELSE 0)
    BY <1>1, <1>5, <1>17, <1>18
<1> QED BY <1>12, <1>15, <1>16, <1>19

\* A step that fails and hands its reservation back.
Handback(s, e, q, c, done, more) ==
    /\ GaveUp(call[s], e, day) /\ Running(call[s], day)
    /\ call' = [call EXCEPT ![s] = e] /\ day' = day
    /\ q \in Quotas /\ c.amount = call[s].amount /\ c.on = call[s].on
    /\ done \in Nat /\ more \in Nat /\ done <= c.amount /\ more <= done
    /\ count' = [count EXCEPT ![q] = Refunded(q, c)]
    /\ slack' = [slack EXCEPT ![q] = slack'[q]]
    /\ slack'[q] = slack[q] + Forgotten(q, c, done) + (IF c.on # day THEN more ELSE 0)
    /\ used' = [used EXCEPT ![q] = used[q] + more]
    /\ \/ Weight(call[s], q, day) = (IF c.on = day THEN c.amount ELSE 0)
       \/ more = 0 /\ done = c.amount
LEMMA FailStep ==
    ASSUME QuotaInv, NEW s \in Slots, NEW e, NEW q, NEW c, NEW done, NEW more,
           Handback(s, e, q, c, done, more)
    PROVE  QuotaInv'
<1> USE DEF Handback
<1>1. PICK x : x = IF c.on # day THEN more ELSE 0
    OBVIOUS
<1>2. x \in Nat /\ c.amount \in Nat /\ slack'[q] = slack[q] + Forgotten(q, c, done) + x
    BY <1>1 DEF Running
<1>3. /\ count' \in [Quotas -> [n : Nat, day : Nat]] /\ slack' \in [Quotas -> Nat]
      /\ \A r \in Quotas : count'[r].n <= Cap[r] /\ count'[r].day <= day
      /\ \A r \in Quotas \ {q} : Counted(r)' = Counted(r) /\ slack'[r] = slack[r]
      /\ Counted(q) + slack[q] + (IF c.on = day THEN done ELSE 0) + x
            <= Counted(q)' + slack'[q] + (IF c.on = day THEN c.amount ELSE 0)
    BY <1>2, Refund
<1>4. used \in [Quotas -> Nat] /\ slack \in [Quotas -> Nat] /\ count \in [Quotas -> [n : Nat, day : Nat]]
    BY DEF QuotaInv, QuotaTypes
<1>5. used' \in [Quotas -> Nat] /\ used'[q] = used[q] + more /\ \A r \in Quotas \ {q} : used'[r] = used[r]
    BY <1>4
<1>6. e \in CallType /\ CallOK(e, day) /\ \A r \in Quotas : Weight(e, r, day) = 0
    BY DEF GaveUp
<1>7. \A r \in Quotas : Counted(r) \in Nat /\ Counted(r)' \in Nat
    BY <1>3, <1>4 DEF Counted
<1>8. ASSUME NEW r \in Quotas PROVE Weight(call[s], r, day) \in Nat
  <2>1. PICK f, d : f = call[s] /\ d = day
    OBVIOUS
  <2>2. f \in CallType /\ d \in Nat /\ CallOK(f, d)
    BY <2>1 DEF QuotaInv, QuotaTypes
  <2>3. Weight(f, r, d) \in 0..MostAdded
    BY <2>2, WeightIs
  <2> QED BY <2>1, <2>3, RequestsAssumption
<1>9. ASSUME NEW r \in Quotas
      PROVE  used'[r] + Weight(e, r, day) + Counted(r) + slack[r]
                <= used[r] + Weight(call[s], r, day) + Counted(r)' + slack'[r]
  <2>1. PICK u, w, n, z, m, g : /\ u = used[r] /\ w = Weight(call[s], r, day) /\ n = Counted(r)
                                /\ z = slack[r] /\ m = Counted(r)' /\ g = slack'[r]
    OBVIOUS
  <2>2. u \in Nat /\ w \in Nat /\ n \in Nat /\ z \in Nat /\ m \in Nat /\ g \in Nat
    BY <1>3, <1>4, <1>7, <1>8, <2>1
  <2>3. CASE r = q
    <3>1. PICK D, A : D = (IF c.on = day THEN done ELSE 0) /\ A = (IF c.on = day THEN c.amount ELSE 0)
        OBVIOUS
    <3>2. D \in Nat /\ A \in Nat /\ n + z + D + x <= m + g + A
        BY <1>2, <1>3, <2>1, <2>3, <3>1
    <3>3. more <= D + x
        BY <1>1, <1>2, <3>1
    <3>4. w = A \/ (more = 0 /\ D = A)
        BY <2>1, <2>3, <3>1
    <3>5. u + more + 0 + n + z <= u + w + m + g
        BY <1>2, <2>2, <3>2, <3>3, <3>4
    <3> QED BY <1>5, <1>6, <2>1, <2>3, <3>5
  <2>4. CASE r # q
    <3>1. m = n /\ g = z /\ used'[r] = u
        BY <1>3, <1>5, <2>1, <2>4
    <3>2. u + 0 + n + z <= u + w + n + z
        BY <2>2
    <3> QED BY <1>6, <2>1, <3>1, <3>2
  <2> QED BY <2>3, <2>4
<1> QED BY <1>3, <1>5, <1>6, <1>9, SlotStep

\* The call gives up at a step of that kind, at the price Fails says.
LEMMA FailsIs ==
    ASSUME QuotaInv, NEW s \in Slots, Running(call[s], day), Next1(s) = Head(call[s].todo),
           NEW done, Fails(s, done)
    PROVE  \E e : GaveUp(call[s], e, day) /\ call' = [call EXCEPT ![s] = e]
<1>1. PICK c, d : c = call[s] /\ d = day
    OBVIOUS
<1>2. GaveUp(c, Failed(c), d)
    <2>1. c \in CallType /\ c.on <= d /\ Running(c, d)
        BY <1>1 DEF Running
    <2> QED BY <2>1, GaveUpIs
<1> QED BY <1>1, <1>2 DEF Fails, Abort

LEMMA QFails ==
    ASSUME QuotaInv, NEW s \in Slots, Running(call[s], day), Next1(s) = Head(call[s].todo),
           NEW done \in Nat, Fails(s, done), UNCHANGED <<day, used>>, done <= call[s].amount,
           \/ Next1(s).kind = "do"
           \/ Next1(s).quota # "none" => done = call[s].amount
    PROVE  QuotaInv'
<1>1. PICK e : GaveUp(call[s], e, day) /\ call' = [call EXCEPT ![s] = e]
    BY FailsIs
<1>2. CASE Next1(s).quota = "none"
    BY <1>1, <1>2, QMoves DEF Fails, NoQuota
<1>3. CASE Next1(s).quota # "none"
  <2>1. PICK q, c : q = Next1(s).quota /\ c = call[s]
    OBVIOUS
  <2>2. q \in Quotas
    BY <1>3, <2>1, QuotasAre DEF Running, SpotFacts
  <2>3. /\ count' = [count EXCEPT ![q] = Refunded(q, c)]
        /\ slack' = [slack EXCEPT ![q] = @ + Forgotten(q, c, done)]
    BY <1>3, <2>1 DEF Fails, NoQuota
  <2>4. slack \in [Quotas -> Nat] /\ used \in [Quotas -> Nat] /\ day \in Nat
        /\ count \in [Quotas -> [n : Nat, day : Nat]]
    BY DEF QuotaInv, QuotaTypes
  <2>5. slack' = [slack EXCEPT ![q] = slack'[q]] /\ slack'[q] = slack[q] + Forgotten(q, c, done)
    BY <2>2, <2>3, <2>4
  <2>6. slack[q] + Forgotten(q, c, done) \in Int
    <3>1. c.amount \in Nat
        BY <2>1 DEF Running
    <3>2. count[q].n \in Nat
        BY <2>2, <2>4
    <3>3. Refunded(q, c).n \in Int
        BY <3>1, <3>2 DEF Refunded
    <3>4. Forgotten(q, c, done) \in Int
        BY <3>2, <3>3 DEF Forgotten
    <3> QED BY <2>2, <2>4, <3>4
  <2>7. slack'[q] = slack[q] + Forgotten(q, c, done) + (IF c.on # day THEN 0 ELSE 0)
    BY <2>5, <2>6
  <2>8. used' = [used EXCEPT ![q] = used[q] + 0]
    BY <2>2, <2>4
  <2>9. \/ Weight(call[s], q, day) = (IF c.on = day THEN c.amount ELSE 0)
        \/ done = c.amount
    BY <1>3, <2>1 DEF Weight, Holds, Running
  <2>10. day' = day /\ 0 \in Nat /\ 0 <= done /\ done <= c.amount
    BY <2>1
  <2>11. Handback(s, e, q, c, done, 0)
    BY <1>1, <2>1, <2>2, <2>3, <2>5, <2>7, <2>8, <2>9, <2>10 DEF Handback
  <2> QED BY <2>11, FailStep
<1> QED BY <1>2, <1>3

LEMMA QRefuse == ASSUME QuotaInv, NEW s \in Slots, Refuse(s) PROVE QuotaInv'
<1>1. call[s].phase = "running" /\ Next1(s).kind \in {"check", "never", "alive", "put"}
    BY DEF Refuse, At
<1>2. Running(call[s], day) /\ Next1(s) = Head(call[s].todo)
    BY <1>1, AtSpot
<1>3. Next1(s).kind = "check"
    BY <1>1, <1>2 DEF Running, SpotFacts
<1>4. PICK done : done = IF "newgroup" \in call[s].did THEN call[s].amount ELSE 0
    OBVIOUS
<1>5. done \in Nat /\ done <= call[s].amount
    BY <1>2, <1>4 DEF Running
<1>6. Next1(s).quota # "none" => done = call[s].amount
    BY <1>2, <1>3, <1>4 DEF Running
<1>7. Fails(s, done) /\ UNCHANGED <<day, used>>
    BY <1>4 DEF Refuse
<1> QED BY <1>2, <1>5, <1>6, <1>7, QFails

LEMMA QNotDone == ASSUME QuotaInv, NEW s \in Slots, NotDone(s) PROVE QuotaInv'
<1>1. call[s].phase = "running" /\ Next1(s).kind \in {"do", "try"}
    BY DEF NotDone, At
<1>2. Running(call[s], day) /\ Next1(s) = Head(call[s].todo)
    BY <1>1, AtSpot
<1>3. Next1(s).kind = "do"
    BY <1>1, <1>2 DEF Running, SpotFacts
<1>4. Fails(s, 0) /\ UNCHANGED <<day, used>>
    BY <1>3 DEF NotDone
<1>5. 0 \in Nat /\ 0 <= call[s].amount
    BY <1>2 DEF Running
<1> QED BY <1>2, <1>3, <1>4, <1>5, QFails

\* The call c, with a change to its name.
Marked(c, effect, lost) == [c EXCEPT !.did = @ \cup {effect}, !.lost = lost]
LEMMA MarkedIs ==
    ASSUME NEW c, NEW d, Running(c, d), Head(c.todo).kind = "do", NEW lost \in BOOLEAN
    PROVE  LET e == Marked(c, Head(c.todo).on, lost)
           IN /\ e \in CallType /\ e.todo = c.todo /\ e.chat = c.chat /\ e.amount = c.amount
              /\ e.on = c.on /\ Head(c.todo).on \in e.did
<1>1. PICK x : x = Head(c.todo).on
    OBVIOUS
<1>2. x \in {"newgroup", "members", "pin", "unpin"} /\ c \in CallType
    BY <1>1 DEF Running, SpotFacts
<1>3. PICK e : e = Marked(c, x, lost)
    OBVIOUS
<1>4. /\ e \in CallType /\ e.todo = c.todo /\ e.chat = c.chat /\ e.amount = c.amount
      /\ e.on = c.on /\ x \in e.did
    BY <1>2, <1>3 DEF Marked, CallType
<1> QED BY <1>1, <1>3, <1>4

LEMMA DoneAndFailedIs ==
    ASSUME QuotaInv, NEW s \in Slots, DoneAndFailed(s)
    PROVE  /\ Running(call[s], day) /\ Next1(s) = Head(call[s].todo) /\ Next1(s).kind = "do"
           /\ \E e : GaveUp(call[s], e, day) /\ call' = [call EXCEPT ![s] = e]
<1>1. call[s].phase = "running" /\ Next1(s).kind = "do"
    BY DEF DoneAndFailed, At
<1>2. PICK c, d : c = call[s] /\ d = day
    OBVIOUS
<1>3. Running(c, d) /\ Next1(s) = Head(c.todo)
    BY <1>1, <1>2, AtSpot
<1>4. PICK e : e = Marked(c, Head(c.todo).on, TRUE)
    OBVIOUS
<1>5. call' = [call EXCEPT ![s] = Failed(e)]
    BY <1>2, <1>3, <1>4 DEF DoneAndFailed, Abort, Marked
<1>6. e \in CallType /\ e.todo = c.todo /\ e.on = c.on
    BY <1>1, <1>3, <1>4, MarkedIs
<1>7. GaveUp(c, Failed(e), d)
    BY <1>3, <1>6, GaveUpIs DEF Running
<1> QED BY <1>1, <1>2, <1>3, <1>5, <1>7

LEMMA QDoneAndFailed == ASSUME QuotaInv, NEW s \in Slots, DoneAndFailed(s) PROVE QuotaInv'
<1>1. Running(call[s], day) /\ Next1(s) = Head(call[s].todo) /\ Next1(s).kind = "do"
    BY DoneAndFailedIs
<1>2. PICK e : GaveUp(call[s], e, day) /\ call' = [call EXCEPT ![s] = e]
    BY DoneAndFailedIs
<1>3. PICK x, q, c : /\ x = Next1(s).on /\ q = Next1(s).quota
                     /\ c = [call[s] EXCEPT !.did = @ \cup {x}, !.lost = TRUE]
    OBVIOUS
<1>4. QuotaOf(x) = q /\ q \in {"none", "create", "add"}
    BY <1>1, <1>3 DEF Running, SpotFacts
<1>5. c.amount = call[s].amount /\ c.on = call[s].on /\ c.amount \in Nat /\ c.amount \in 1..MostAdded
    BY <1>1, <1>3 DEF Running, CallType
<1>6. PICK n \in IF x = "members" THEN 1..call[s].amount ELSE {call[s].amount} :
        /\ used' = IF q = "none" THEN used ELSE [used EXCEPT ![q] = @ + n]
        /\ IF q = "none" THEN UNCHANGED <<count, slack>>
           ELSE /\ count' = [count EXCEPT ![q] = Refunded(q, c)]
                /\ slack' = [slack EXCEPT ![q] = @ + Forgotten(q, c, n) + IF c.on # day THEN n ELSE 0]
    BY <1>3, <1>4 DEF DoneAndFailed, Use, NoQuota
<1>7. n \in Nat /\ n <= c.amount
    BY <1>5, <1>6
<1>8. day' = day
    BY DEF DoneAndFailed
<1>9. CASE q = "none"
    BY <1>2, <1>6, <1>8, <1>9, QMoves
<1>10. CASE q # "none"
  <2>1. q \in Quotas
    BY <1>4, <1>10, QuotasAre
  <2>2. slack \in [Quotas -> Nat] /\ used \in [Quotas -> Nat]
    BY DEF QuotaInv, QuotaTypes
  <2>3. /\ slack' = [slack EXCEPT ![q] = slack'[q]]
        /\ slack'[q] = slack[q] + Forgotten(q, c, n) + (IF c.on # day THEN n ELSE 0)
        /\ used' = [used EXCEPT ![q] = used[q] + n]
        /\ count' = [count EXCEPT ![q] = Refunded(q, c)]
    BY <1>6, <1>10, <2>1, <2>2
  <2>4. Weight(call[s], q, day) = IF c.on = day THEN c.amount ELSE 0
    BY <1>1, <1>3, <1>5 DEF Weight, Holds, Running
  <2>5. Handback(s, e, q, c, n, n)
    BY <1>1, <1>2, <1>5, <1>7, <1>8, <2>1, <2>3, <2>4 DEF Handback
  <2> QED BY <2>5, FailStep
<1> QED BY <1>9, <1>10

LEMMA DoneIs ==
    ASSUME QuotaInv, NEW s \in Slots, Done(s)
    PROVE  /\ Running(call[s], day) /\ Next1(s) = Head(call[s].todo) /\ Next1(s).kind = "do"
           /\ \E e, c1 : Onward(call[s], c1, e, day) /\ call' = [call EXCEPT ![s] = e]
<1>1. call[s].phase = "running" /\ Next1(s).kind \in {"do", "try"}
    BY DEF Done, At
<1>2. PICK c, d : c = call[s] /\ d = day
    OBVIOUS
<1>3. Running(c, d) /\ Next1(s) = Head(c.todo)
    BY <1>1, <1>2, AtSpot
<1>4. Next1(s).kind = "do"
    BY <1>1, <1>3 DEF Running, SpotFacts
<1>5. PICK e : e = [c EXCEPT !.did = @ \cup {Head(c.todo).on}]
    OBVIOUS
<1>6. call' = [call EXCEPT ![s] = Past(e)]
    BY <1>2, <1>3, <1>5 DEF Done, On
<1>7. /\ e \in CallType /\ e.todo = c.todo /\ e.on = c.on /\ e.chat = c.chat /\ e.amount = c.amount
      /\ Head(c.todo).on \in e.did
    <2>1. PICK x : x = Head(c.todo).on
        OBVIOUS
    <2>2. x \in {"newgroup", "members", "pin", "unpin"} /\ c \in CallType
        BY <1>3, <1>4, <2>1 DEF Running, SpotFacts
    <2>3. e = [c EXCEPT !.did = @ \cup {x}]
        BY <1>5, <2>1
    <2>4. /\ e \in CallType /\ e.todo = c.todo /\ e.on = c.on /\ e.chat = c.chat
          /\ e.amount = c.amount /\ x \in e.did
        BY <2>2, <2>3 DEF CallType
    <2> QED BY <2>1, <2>4
<1>8. Onward(c, e, Past(e), d)
    <2>1. e.amount \in 1..MostAdded /\ e.on <= d
        BY <1>3, <1>7 DEF Running
    <2>2. Head(c.todo).kind = "do" /\ Head(c.todo).on = "newgroup" => "newgroup" \in e.did
        BY <1>7
    <2> QED BY <1>3, <1>7, <2>1, <2>2, OnwardIs
<1> QED BY <1>2, <1>3, <1>4, <1>6, <1>8

LEMMA QDone == ASSUME QuotaInv, NEW s \in Slots, Done(s) PROVE QuotaInv'
<1>1. Running(call[s], day) /\ Next1(s) = Head(call[s].todo) /\ Next1(s).kind = "do"
    BY DoneIs
<1>2. PICK e, c1 : Onward(call[s], c1, e, day) /\ call' = [call EXCEPT ![s] = e]
    BY DoneIs
<1>3. PICK q, a : q = Next1(s).quota /\ a = call[s].amount
    OBVIOUS
<1>4. QuotaOf(Next1(s).on) = q /\ q \in {"none", "create", "add"} /\ a \in Nat
    BY <1>1, <1>3 DEF Running, SpotFacts
<1>5. /\ used' = IF q = "none" THEN used ELSE [used EXCEPT ![q] = @ + a]
      /\ slack' = IF q # "none" /\ call[s].on # day THEN [slack EXCEPT ![q] = @ + a] ELSE slack
      /\ UNCHANGED <<day, count>>
    BY <1>3, <1>4 DEF Done, Use, Uncovered, NoQuota
<1>6. CASE q = "none"
    BY <1>1, <1>2, <1>5, <1>6, QMoves
<1>7. CASE q # "none"
  <2>1. q \in Quotas
    BY <1>4, <1>7, QuotasAre
  <2>2. /\ slack \in [Quotas -> Nat] /\ used \in [Quotas -> Nat] /\ count \in [Quotas -> [n : Nat, day : Nat]]
        /\ \A r \in Quotas : count[r].n <= Cap[r] /\ count[r].day <= day
    BY DEF QuotaInv, QuotaTypes
  <2>3. /\ used' \in [Quotas -> Nat] /\ slack' \in [Quotas -> Nat] /\ count' \in [Quotas -> [n : Nat, day : Nat]]
        /\ used'[q] = used[q] + a /\ slack'[q] = slack[q] + (IF call[s].on # day THEN a ELSE 0)
        /\ \A r \in Quotas \ {q} : used'[r] = used[r] /\ slack'[r] = slack[r]
    BY <1>4, <1>5, <1>7, <2>1, <2>2
  <2>4. Weight(call[s], q, day) = IF call[s].on = day THEN a ELSE 0
    BY <1>1, <1>3 DEF Weight, Holds, Running
  <2>5. e \in CallType /\ CallOK(e, day) /\ \A r \in Quotas : Weight(e, r, day) = 0
    BY <1>1, <1>2 DEF Onward
  <2>6. ASSUME NEW r \in Quotas PROVE Weight(call[s], r, day) \in Nat
    <3>1. PICK f, d : f = call[s] /\ d = day
      OBVIOUS
    <3>2. f \in CallType /\ d \in Nat /\ CallOK(f, d)
      BY <3>1 DEF QuotaInv, QuotaTypes
    <3>3. Weight(f, r, d) \in 0..MostAdded
      BY <3>2, WeightIs
    <3> QED BY <3>1, <3>3, RequestsAssumption
  <2>7. ASSUME NEW r \in Quotas
        PROVE  used'[r] + Weight(e, r, day) + Counted(r) + slack[r]
                <= used[r] + Weight(call[s], r, day) + Counted(r)' + slack'[r]
    <3>1. Counted(r)' = Counted(r) /\ Counted(r) \in Nat
      BY <1>5, <2>2 DEF Counted
    <3>2. PICK u, w, n, z : u = used[r] /\ w = Weight(call[s], r, day) /\ n = Counted(r) /\ z = slack[r]
      OBVIOUS
    <3>3. u \in Nat /\ w \in Nat /\ n \in Nat /\ z \in Nat
      BY <2>2, <2>6, <3>1, <3>2
    <3>4. CASE r = q
      <4>1. PICK g : g = IF call[s].on # day THEN a ELSE 0
        OBVIOUS
      <4>2. g \in Nat /\ a <= w + g
        BY <1>4, <2>4, <3>2, <3>4, <4>1
      <4>3. (u + a) + 0 + n + z <= u + w + n + (z + g)
        BY <1>4, <3>3, <4>2
      <4> QED BY <2>3, <2>5, <3>1, <3>2, <3>4, <4>1, <4>3
    <3>5. CASE r # q
      <4>1. u + 0 + n + z <= u + w + n + z
        BY <3>3
      <4> QED BY <2>3, <2>5, <3>1, <3>2, <3>5, <4>1
    <3> QED BY <3>4, <3>5
  <2>8. day' = day /\ \A r \in Quotas : count'[r].n <= Cap[r] /\ count'[r].day <= day
    BY <1>5, <2>2
  <2> QED BY <1>2, <2>3, <2>5, <2>7, <2>8, SlotStep
<1> QED BY <1>6, <1>7

LEMMA QReserve == ASSUME QuotaInv, NEW s \in Slots, ReserveSlots(s) PROVE QuotaInv'
<1>1. call[s].phase = "running" /\ Next1(s).kind = "reserve"
    BY DEF ReserveSlots, At
<1>2. PICK c, d, q : c = call[s] /\ d = day /\ q = Next1(s).on
    OBVIOUS
<1>3. Running(c, d) /\ Next1(s) = Head(c.todo)
    BY <1>1, <1>2, AtSpot
<1>4. q \in Quotas
    BY <1>1, <1>2, <1>3, QuotasAre DEF Running, SpotFacts
<1>5. PICK c1, a : a = (IF q = "create" THEN 1 ELSE c.amount) /\ c1 = [c EXCEPT !.on = d, !.amount = a]
    OBVIOUS
<1>6. c \in CallType /\ d \in Nat /\ a \in 1..MostAdded /\ a \in Nat
    BY <1>3, <1>5, RequestsAssumption DEF Running
<1>7. /\ c1 \in CallType /\ c1.todo = c.todo /\ c1.chat = c.chat /\ c1.amount = a /\ c1.on = d
    BY <1>5, <1>6 DEF CallType
<1>8. d <= d
    BY <1>6
<1>9. Onward(c, c1, Past(c1), d) /\ GaveUp(c, Failed(c1), d)
    BY <1>1, <1>3, <1>6, <1>7, <1>8, OnwardIs, GaveUpIs
<1>10. PICK n : n = Counted(q)
    OBVIOUS
<1>11. UNCHANGED <<day, used, slack>>
    BY DEF ReserveSlots
<1>12. /\ slack \in [Quotas -> Nat] /\ used \in [Quotas -> Nat] /\ count \in [Quotas -> [n : Nat, day : Nat]]
       /\ \A r \in Quotas : count[r].n <= Cap[r] /\ count[r].day <= day
    BY DEF QuotaInv, QuotaTypes
<1>13. n \in Nat /\ n <= Cap[q] /\ Cap[q] \in Nat
    BY <1>4, <1>10, <1>12, QuotasAre DEF Counted
<1>14. PICK m, e : /\ m \in Nat /\ m <= Cap[q]
                   /\ count' = [count EXCEPT ![q] = [n |-> m, day |-> d]]
                   /\ call' = [call EXCEPT ![s] = e]
                   /\ \/ m = n + a /\ e = Past(c1)
                      \/ m = n /\ e = Failed(c1)
  <2>1. CASE n + a > Cap[q]
    <3>1. /\ count' = [count EXCEPT ![q] = [n |-> n, day |-> d]]
          /\ call' = [call EXCEPT ![s] = Failed(c1)]
        BY <1>2, <1>5, <1>7, <1>10, <2>1 DEF ReserveSlots, Abort, Counted
    <3> QED BY <1>13, <3>1
  <2>2. CASE ~(n + a > Cap[q])
    <3>1. /\ count' = [count EXCEPT ![q] = [n |-> n + a, day |-> d]]
          /\ call' = [call EXCEPT ![s] = Past(c1)]
        BY <1>2, <1>5, <1>7, <1>10, <2>2 DEF ReserveSlots, On, Counted
    <3>2. n + a \in Nat /\ n + a <= Cap[q]
        BY <1>6, <1>13, <2>2
    <3> QED BY <3>1, <3>2
  <2> QED BY <2>1, <2>2
<1>15. e \in CallType /\ CallOK(e, d)
    BY <1>9, <1>14 DEF Onward, GaveUp
<1>16. /\ count' \in [Quotas -> [n : Nat, day : Nat]]
       /\ count'[q].n = m /\ count'[q].day = d /\ \A r \in Quotas \ {q} : count'[r] = count[r]
    BY <1>4, <1>6, <1>12, <1>14
<1>17. \A r \in Quotas : count'[r].n <= Cap[r] /\ count'[r].day <= day
    BY <1>2, <1>8, <1>12, <1>14, <1>16
<1>18. ASSUME NEW r \in Quotas PROVE Weight(call[s], r, day) \in Nat
  <2>1. CallOK(c, d)
    BY <1>2 DEF QuotaInv, QuotaTypes
  <2>2. Weight(c, r, d) \in 0..MostAdded
    BY <1>6, <2>1, WeightIs
  <2> QED BY <1>2, <2>2, RequestsAssumption
<1>19. ASSUME NEW r \in Quotas
       PROVE  used'[r] + Weight(e, r, day) + Counted(r) + slack[r]
                <= used[r] + Weight(call[s], r, day) + Counted(r)' + slack'[r]
  <2>1. PICK u, w, z, k, l, v : /\ u = used[r] /\ w = Weight(call[s], r, day) /\ z = slack[r]
                                /\ k = Counted(r) /\ l = Counted(r)' /\ v = Weight(e, r, day)
    OBVIOUS
  <2>2. u \in Nat /\ w \in Nat /\ z \in Nat /\ k \in Nat /\ l \in Nat
    BY <1>12, <1>16, <1>18, <2>1 DEF Counted
  <2>3. v \in Nat /\ k + v <= l
    <3>1. CASE r = q
      <4>1. k = n /\ l = m
        BY <1>2, <1>10, <1>11, <1>16, <2>1, <3>1 DEF Counted
      <4>2. CASE m = n + a /\ e = Past(c1)
        <5>1. v = a
            BY <1>1, <1>2, <1>3, <1>4, <1>7, <1>9, <2>1, <3>1, <4>2 DEF Onward
        <5> QED BY <1>6, <1>13, <4>1, <4>2, <5>1
      <4>3. CASE m = n /\ e = Failed(c1)
        <5>1. v = 0
            BY <1>2, <1>9, <2>1, <4>3 DEF GaveUp
        <5> QED BY <1>13, <4>1, <4>3, <5>1
      <4> QED BY <1>14, <4>2, <4>3
    <3>2. CASE r # q
      <4>1. k = l
        BY <1>11, <1>16, <2>1, <3>2 DEF Counted
      <4>2. v = 0
        <5>1. CASE e = Past(c1)
            BY <1>2, <1>3, <1>9, <2>1, <3>2, <5>1 DEF Onward
        <5>2. CASE e = Failed(c1)
            BY <1>2, <1>9, <2>1, <5>2 DEF GaveUp
        <5> QED BY <1>14, <5>1, <5>2
      <4> QED BY <2>2, <4>1, <4>2
    <3> QED BY <3>1, <3>2
  <2>4. u + v + k + z <= u + w + l + z
    BY <2>2, <2>3
  <2> QED BY <1>11, <2>1, <2>4
<1>20. call' = [call EXCEPT ![s] = e] /\ CallOK(e, day) /\ day' = day
       /\ used' \in [Quotas -> Nat] /\ slack' \in [Quotas -> Nat]
    BY <1>2, <1>11, <1>12, <1>14, <1>15
<1> QED BY <1>15, <1>16, <1>17, <1>19, <1>20, SlotStep

\* A call that goes on as it is.
LEMMA JustOn ==
    ASSUME QuotaInv, NEW s \in Slots, call[s].phase = "running",
           Next1(s).kind \in {"room", "pinned"}
    PROVE  /\ Running(call[s], day) /\ Next1(s) = Head(call[s].todo)
           /\ Onward(call[s], call[s], Past(call[s]), day) /\ GaveUp(call[s], Failed(call[s]), day)
<1>1. PICK c, d : c = call[s] /\ d = day
    OBVIOUS
<1>2. Running(c, d) /\ Next1(s) = Head(c.todo)
    BY <1>1, AtSpot
<1>3. c \in CallType /\ c.amount \in 1..MostAdded /\ c.on <= d
    BY <1>2 DEF Running
<1>4. Head(c.todo).kind # "do"
    BY <1>2
<1>5. Onward(c, c, Past(c), d) /\ GaveUp(c, Failed(c), d)
    BY <1>2, <1>3, <1>4, OnwardIs, GaveUpIs
<1> QED BY <1>1, <1>2, <1>5

LEMMA QRoom == ASSUME QuotaInv, NEW s \in Slots, LookForRoom(s) PROVE QuotaInv'
<1>1. call[s].phase = "running" /\ Next1(s).kind \in {"room", "pinned"} /\ Next1(s).kind # "reserve"
    BY DEF LookForRoom, At
<1>2. /\ Next1(s) = Head(call[s].todo)
      /\ Onward(call[s], call[s], Past(call[s]), day) /\ GaveUp(call[s], Failed(call[s]), day)
    BY <1>1, JustOn
<1>3. \/ call' = [call EXCEPT ![s] = Past(call[s])]
      \/ call' = [call EXCEPT ![s] = Failed(call[s])]
    BY DEF LookForRoom, On, Abort
<1>4. UNCHANGED <<day, count, used, slack>>
    BY DEF LookForRoom, Quiet, Shared
<1>5. CASE call' = [call EXCEPT ![s] = Past(call[s])]
  <2>1. PICK e, c1 : e = Past(call[s]) /\ c1 = call[s]
    OBVIOUS
  <2> QED BY <1>1, <1>2, <1>4, <1>5, <2>1, QMoves
<1>6. CASE call' = [call EXCEPT ![s] = Failed(call[s])]
  <2>1. PICK e : e = Failed(call[s])
    OBVIOUS
  <2> QED BY <1>2, <1>4, <1>6, <2>1, QMoves
<1> QED BY <1>3, <1>5, <1>6

LEMMA QNote == ASSUME QuotaInv, NEW s \in Slots, NotePin(s) PROVE QuotaInv'
<1>1. call[s].phase = "running" /\ Next1(s).kind \in {"room", "pinned"} /\ Next1(s).kind # "reserve"
    BY DEF NotePin, At
<1>2. /\ Next1(s) = Head(call[s].todo)
      /\ Onward(call[s], call[s], Past(call[s]), day)
    BY <1>1, JustOn
<1>3. call' = [call EXCEPT ![s] = Past(call[s])] /\ UNCHANGED <<day, count, used, slack>>
    BY DEF NotePin, On
<1>4. PICK e, c1 : e = Past(call[s]) /\ c1 = call[s]
    OBVIOUS
<1> QED BY <1>1, <1>2, <1>3, <1>4, QMoves

LEMMA QFinish == ASSUME QuotaInv, NEW s \in Slots, Finish(s) PROVE QuotaInv'
<1>1. PICK e : e = Idle
    OBVIOUS
<1>2. e \in CallType /\ e.phase = "idle" /\ e.on = 0
    BY <1>1, IdleTyped, Zenon
<1>3. day \in Nat
    BY DEF QuotaInv, QuotaTypes
<1>4. CallOK(e, day) /\ \A q \in Quotas : Weight(e, q, day) = 0
    BY <1>2, <1>3 DEF CallOK, Weight, Holds
<1>5. call' = [call EXCEPT ![s] = Idle] /\ UNCHANGED <<day, count, used, slack>>
    BY Zenon DEF Finish, Shared
<1>6. call' = [call EXCEPT ![s] = e]
    BY <1>1, <1>5, Zenon
<1>7. UNCHANGED <<day, count, used, slack>>
    BY <1>5, Zenon
<1> QED BY <1>2, <1>4, <1>6, <1>7, SlotMoves

LEMMA TogetherIs ==
    ASSUME NEW f \in {"groups", "pins"}, NEW r \in Together[f]
    PROVE  /\ r.method \in {"group.create", "group.addParticipants", "chat.pin"}
           /\ r.gates \in SUBSET {"group.add", "chat_state"}
           /\ r.todo \in {C1, A1, P1, U1}
<1>1. PICK a, b, c, d : a = C1 /\ b = A1 /\ c = P1 /\ d = U1
    OBVIOUS
<1>2. /\ Together.groups = {AtPort("group.create", {"group.add"}, a),
                            AtPort("group.addParticipants", {"group.add"}, b)}
      /\ Together.pins = {AtPort("chat.pin", {"chat_state"}, c), AtPort("chat.pin", {"chat_state"}, d)}
    BY <1>1, ProgramsAre DEF Together
<1>3. \/ r = AtPort("group.create", {"group.add"}, a)
      \/ r = AtPort("group.addParticipants", {"group.add"}, b)
      \/ r = AtPort("chat.pin", {"chat_state"}, c)
      \/ r = AtPort("chat.pin", {"chat_state"}, d)
    BY <1>2
<1>4. /\ r.method \in {"group.create", "group.addParticipants", "chat.pin"}
      /\ r.gates \in SUBSET {"group.add", "chat_state"}
      /\ r.todo \in {a, b, c, d}
    BY <1>3 DEF AtPort
<1> QED BY <1>1, <1>4

\* A call that starts is at the first step of its program.
LEMMA StartTogetherIs ==
    ASSUME NEW s \in Slots, day \in Nat, focus \in {"methods", "groups", "pins"}, StartTogether(s)
    PROVE  \E e \in CallType : /\ call' = [call EXCEPT ![s] = e] /\ e.todo \in {C1, A1, P1, U1}
                               /\ CallOK(e, day) /\ \A q \in Quotas : Weight(e, q, day) = 0
<1>1. focus \in {"groups", "pins"}
    BY Zenon DEF StartTogether
<1>2. PICK r \in Together[focus], n \in 1..MostAdded, c \in Chats :
        call' = [call EXCEPT ![s] = [Idle EXCEPT !.phase = "running", !.method = r.method,
                                                 !.gates = r.gates, !.todo = r.todo,
                                                 !.amount = n, !.chat = c]]
    BY Zenon DEF StartTogether
<1>3. PICK m, g, t, i, f, d : m = r.method /\ g = r.gates /\ t = r.todo /\ i = Idle /\ f = focus /\ d = day
    OBVIOUS
<1>4. /\ m \in {"group.create", "group.addParticipants", "chat.pin"}
      /\ g \in SUBSET {"group.add", "chat_state"} /\ t \in {C1, A1, P1, U1}
    <2>1. f \in {"groups", "pins"} /\ r \in Together[f]
        BY <1>1, <1>3, Zenon
    <2> QED BY <1>3, <2>1, TogetherIs, Zenon
<1>5. i \in CallType /\ i.on = 0
    BY <1>3, IdleTyped, Zenon
<1>6. PICK e : e = [i EXCEPT !.phase = "running", !.method = m, !.gates = g, !.todo = t,
                             !.amount = n, !.chat = c]
    OBVIOUS
<1>7. t \in Spots
    BY <1>4 DEF Spots
<1>8. e \in CallType /\ e.todo = t /\ e.amount = n /\ e.chat = c /\ e.on = 0
    <2>1. n \in Nat
        BY RequestsAssumption
    <2>2. t \in Spots \cup {<<>>} /\ c \in Chats \cup {NoName}
        BY <1>7
    <2>3. m \in {NoName, "group.create", "group.addParticipants", "chat.pin"}
        BY <1>4
    <2> QED BY <1>4, <1>5, <1>6, <2>1, <2>2, <2>3 DEF CallType
<1>9. Head(t).kind = "check" /\ Head(t).quota = "none"
    <2>1. /\ Head(C1).kind = "check" /\ Head(C1).quota = "none"
          /\ Head(A1).kind = "check" /\ Head(A1).quota = "none"
          /\ Head(P1).kind = "check" /\ Head(P1).quota = "none"
          /\ Head(U1).kind = "check" /\ Head(U1).quota = "none"
        BY AllSpots DEF Spot
    <2> QED BY <1>4, <2>1
<1>10. CallOK(e, d) /\ \A q \in Quotas : Weight(e, q, d) = 0
    <2>1. d \in Nat /\ 0 <= d
        BY <1>3
    <2> QED BY <1>7, <1>8, <1>9, <2>1 DEF CallOK, Weight, Holds
<1>11. call' = [call EXCEPT ![s] = e]
    BY <1>2, <1>3, <1>6, Zenon
<1>12. CallOK(e, day) /\ \A q \in Quotas : Weight(e, q, day) = 0
    BY <1>3, <1>10, Zenon
<1> QED BY <1>4, <1>8, <1>11, <1>12, Zenon

LEMMA QStart ==
    ASSUME QuotaInv, focus \in {"methods", "groups", "pins"}, NEW s \in Slots, StartTogether(s)
    PROVE  QuotaInv'
<1>1. day \in Nat
    BY DEF QuotaInv, QuotaTypes
<1>2. PICK e \in CallType : /\ call' = [call EXCEPT ![s] = e]
                            /\ CallOK(e, day) /\ \A q \in Quotas : Weight(e, q, day) = 0
    BY <1>1, StartTogetherIs, Zenon
<1>3. UNCHANGED <<day, count, used, slack>>
    BY Zenon DEF StartTogether, Shared
<1> QED BY <1>2, <1>3, SlotMoves

\* No call holds anything of that day.
LEMMA NothingHeld ==
    ASSUME NEW f, NEW q, NEW d, \A s \in Slots : Weight(f[s], q, d) = 0
    PROVE  Cardinality(HeldOf(f, q, d)) = 0
<1>1. HeldOf(f, q, d) = {}
    BY DEF HeldOf
<1> QED BY <1>1, FS_EmptySet

LEMMA QMidnight == ASSUME QuotaInv, Midnight PROVE QuotaInv'
<1>1. /\ day' = day + 1 /\ used' = [q \in Quotas |-> 0] /\ slack' = [q \in Quotas |-> 0]
      /\ call' = call /\ count' = count
    BY DEF Midnight
<1>2. PICK f, d : f = call /\ d = day
    OBVIOUS
<1>3. f \in [Slots -> CallType] /\ d \in Nat /\ \A s \in Slots : CallOK(f[s], d)
    BY <1>2 DEF QuotaInv, QuotaTypes
<1>4. ASSUME NEW s \in Slots PROVE CallOK(f[s], d + 1) /\ \A q : Weight(f[s], q, d + 1) = 0
  <2>1. PICK c : c = f[s]
    OBVIOUS
  <2>2. c \in CallType /\ CallOK(c, d)
    BY <1>3, <2>1
  <2>3. c.on \in Nat /\ c.on <= d
    BY <2>2 DEF CallType, CallOK
  <2>4. c.on <= d + 1 /\ c.on # d + 1
    BY <1>3, <2>3
  <2>5. CallOK(c, d + 1)
    BY <2>2, <2>4 DEF CallOK
  <2>6. \A q : Weight(c, q, d + 1) = 0
    BY <2>4 DEF Weight, Holds
  <2> QED BY <2>1, <2>5, <2>6
<1>5. ASSUME NEW q \in Quotas PROVE Cardinality(HeldOf(f, q, d + 1)) = 0
    BY <1>4, NothingHeld
<1>6. /\ count \in [Quotas -> [n : Nat, day : Nat]]
      /\ \A q \in Quotas : count[q].n <= Cap[q] /\ count[q].day <= d
    BY <1>2 DEF QuotaInv, QuotaTypes
<1>7. \A q \in Quotas : count[q].day <= d + 1
    BY <1>3, <1>6
<1>8. QuotaTypes'
    BY <1>1, <1>2, <1>3, <1>4, <1>6, <1>7 DEF QuotaTypes
<1>9. ASSUME NEW q \in Quotas
      PROVE  used'[q] + Cardinality(HeldOf(call', q, day')) <= Counted(q)' + slack'[q]
  <2>1. used'[q] = 0 /\ slack'[q] = 0
    BY <1>1
  <2>2. Cardinality(HeldOf(call', q, day')) = 0
    BY <1>1, <1>2, <1>5
  <2>3. Counted(q)' \in Nat
    BY <1>1, <1>6 DEF Counted
  <2> QED BY <2>1, <2>2, <2>3
<1> QED BY <1>8, <1>9 DEF QuotaInv

LEMMA RestartIs ==
    ASSUME QuotaInv, Restart
    PROVE  /\ call' \in [Slots -> CallType]
           /\ \A s \in Slots : call'[s].phase # "running" /\ CallOK(call'[s], day)
<1>1. PICK f, d : f = call /\ d = day
    OBVIOUS
<1>2. f \in [Slots -> CallType] /\ d \in Nat /\ \A s \in Slots : CallOK(f[s], d)
    BY <1>1 DEF QuotaInv, QuotaTypes
<1>3. call' = [s \in Slots |->
                    IF f[s].phase = "running"
                    THEN [f[s] EXCEPT !.todo = <<>>, !.phase = "error", !.lost = TRUE] ELSE f[s]]
    BY <1>1, Zenon DEF Restart
<1>4. ASSUME NEW s \in Slots
      PROVE  call'[s] \in CallType /\ call'[s].phase # "running" /\ CallOK(call'[s], d)
  <2>1. PICK c, e : c = f[s] /\ e = call'[s]
    OBVIOUS
  <2>2. c \in CallType /\ CallOK(c, d)
    BY <1>2, <2>1
  <2>3. e = IF c.phase = "running"
            THEN [c EXCEPT !.todo = <<>>, !.phase = "error", !.lost = TRUE] ELSE c
    BY <1>3, <2>1
  <2>4. e \in CallType /\ e.phase # "running" /\ e.on = c.on
    BY <2>2, <2>3 DEF CallType
  <2>5. CallOK(e, d)
    BY <2>2, <2>4 DEF CallOK
  <2> QED BY <2>1, <2>4, <2>5
<1>5. call' \in [Slots -> CallType]
    BY <1>3, <1>4
<1> QED BY <1>1, <1>4, <1>5

LEMMA QRestart == ASSUME QuotaInv, Restart PROVE QuotaInv'
<1>1. /\ day' = day /\ used' = used /\ slack' = used /\ count' = [q \in Quotas |-> [n |-> 0, day |-> 0]]
    BY DEF Restart
<1>2. day \in Nat /\ used \in [Quotas -> Nat]
    BY DEF QuotaInv, QuotaTypes
<1>3. call' \in [Slots -> CallType] /\ \A s \in Slots : call'[s].phase # "running" /\ CallOK(call'[s], day)
    BY RestartIs
<1>4. QuotaTypes'
  <2>1. \A q \in Quotas : count'[q].n = 0 /\ count'[q].day = 0 /\ Cap[q] \in Nat
    BY <1>1, QuotasAre
  <2>2. count' \in [Quotas -> [n : Nat, day : Nat]]
    BY <1>1
  <2>3. \A q \in Quotas : count'[q].n <= Cap[q] /\ count'[q].day <= day'
    BY <1>1, <1>2, <2>1
  <2> QED BY <1>1, <1>2, <1>3, <2>2, <2>3 DEF QuotaTypes
<1>5. ASSUME NEW q \in Quotas
      PROVE  used'[q] + Cardinality(HeldOf(call', q, day')) <= Counted(q)' + slack'[q]
  <2>1. PICK f, d : f = call' /\ d = day'
    OBVIOUS
  <2>2. \A s \in Slots : Weight(f[s], q, d) = 0
    BY <1>3, <2>1 DEF Weight, Holds
  <2>3. Cardinality(HeldOf(f, q, d)) = 0
    BY <2>2, NothingHeld
  <2>4. Counted(q)' = 0
    BY <1>1 DEF Counted
  <2>5. used'[q] = slack'[q] /\ used'[q] \in Nat
    BY <1>1, <1>2
  <2> QED BY <2>1, <2>3, <2>4, <2>5
<1> QED BY <1>4, <1>5 DEF QuotaInv

LEMMA QInit == ASSUME Init PROVE QuotaInv
<1>1. PICK i : i = Idle
    OBVIOUS
<1>2. i \in CallType /\ i.phase = "idle" /\ i.on = 0
    BY <1>1, IdleTyped, Zenon
<1>3. /\ day = 0 /\ count = [q \in Quotas |-> [n |-> 0, day |-> 0]]
      /\ used = [q \in Quotas |-> 0] /\ slack = [q \in Quotas |-> 0]
    BY Zenon DEF Init
<1>4. call = [s \in Slots |-> i]
    BY <1>1, Zenon DEF Init
<1>5. \A s \in Slots : CallOK(call[s], day)
    BY <1>2, <1>3, <1>4 DEF CallOK
<1>6. \A q \in Quotas : count[q].n = 0 /\ count[q].day = 0 /\ Cap[q] \in Nat
    BY <1>3, QuotasAre
<1>7. QuotaTypes
    BY <1>2, <1>3, <1>4, <1>5, <1>6 DEF QuotaTypes
<1>8. ASSUME NEW q \in Quotas PROVE used[q] + Cardinality(HeldOf(call, q, day)) <= Counted(q) + slack[q]
  <2>1. PICK f, d : f = call /\ d = day
    OBVIOUS
  <2>2. \A s \in Slots : Weight(f[s], q, d) = 0
    BY <1>2, <1>4, <2>1 DEF Weight, Holds
  <2>3. Cardinality(HeldOf(f, q, d)) = 0
    BY <2>2, NothingHeld
  <2>4. used[q] = 0 /\ slack[q] = 0 /\ Counted(q) = 0
    BY <1>3, <1>6 DEF Counted
  <2> QED BY <2>1, <2>3, <2>4
<1> QED BY <1>7, <1>8 DEF QuotaInv

-----------------------------------------------------------------------------
(* The limit of pins *)

\* The chats of the calls that are somewhere in S.
Placed(c, S) == c.phase = "running" /\ c.todo \in S
ChatsAt(f, S) == {f[s].chat : s \in {t \in Slots : Placed(f[t], S)}}

\* A chat pinned at WhatsApp is in the book, or its call has only the note left
\* to make; and only the calls in flight can be past a limit that is reached.
PinInv ==
    /\ pins \subseteq Chats /\ pinned \subseteq Chats /\ unseen \subseteq Chats
    /\ pins \ unseen \subseteq pinned \cup ChatsAt(call, {P5})
    /\ Cardinality(pinned \cup ChatsAt(call, PastRoom)) <= MaxPins + Cardinality(Slots) - 1

LEMMA PlacesAre ==
    ASSUME NEW f, NEW S
    PROVE  \A x : x \in ChatsAt(f, S) <=> \E t \in Slots : Placed(f[t], S) /\ f[t].chat = x
BY DEF ChatsAt

\* Chats in flight are chats, and no more of them than slots.
LEMMA PlacesAreChats ==
    ASSUME QuotaTypes, NEW S
    PROVE  ChatsAt(call, S) \subseteq Chats
<1>1. ASSUME NEW t \in Slots, call[t].phase = "running" PROVE call[t].chat \in Chats
    BY <1>1 DEF QuotaTypes, CallOK
<1> QED BY <1>1, PlacesAre DEF Placed

LEMMA PlacesFew ==
    ASSUME NEW f, NEW S
    PROVE  IsFiniteSet(ChatsAt(f, S)) /\ Cardinality(ChatsAt(f, S)) <= Cardinality(Slots)
<1>1. PICK T : T = {t \in Slots : Placed(f[t], S)}
    OBVIOUS
<1>2. T \in SUBSET Slots /\ IsFiniteSet(Slots)
    BY <1>1, RequestsAssumption
<1>3. IsFiniteSet(T) /\ Cardinality(T) <= Cardinality(Slots)
    BY <1>2, FS_Subset
<1>4. PICK A : A = ChatsAt(f, S)
    OBVIOUS
<1>5. A = {f[t].chat : t \in T}
    BY <1>1, <1>4 DEF ChatsAt
<1>6. PICK g : g = [t \in T |-> f[t].chat]
    OBVIOUS
<1>7. g \in Surjection(T, A)
    BY <1>5, <1>6 DEF Surjection
<1>8. IsFiniteSet(A) /\ Cardinality(A) <= Cardinality(T)
    BY <1>3, <1>7, FS_Surjection
<1>9. Cardinality(A) \in Nat /\ Cardinality(T) \in Nat /\ Cardinality(Slots) \in Nat
    BY <1>2, <1>3, <1>8, FS_CardinalityType
<1> QED BY <1>3, <1>4, <1>8, <1>9

LEMMA SlotsAre == Cardinality(Slots) \in Nat \ {0} /\ MaxPins \in Nat /\ IsFiniteSet(Chats)
<1>1. IsFiniteSet(Slots) /\ Slots # {}
    BY RequestsAssumption
<1>2. Cardinality(Slots) \in Nat /\ Cardinality(Slots) # 0
    BY <1>1, FS_CardinalityType, FS_EmptySet
<1> QED BY <1>2, RequestsAssumption

\* No more chats are past the limit than before.
LEMMA NoMorePins ==
    ASSUME NEW A, NEW B, B \subseteq Chats, A \subseteq B, NEW n \in Int, Cardinality(B) <= n
    PROVE  Cardinality(A) <= n
<1>1. IsFiniteSet(B)
    <2>1. B \in SUBSET Chats /\ IsFiniteSet(Chats)
        BY SlotsAre
    <2> QED BY <2>1, FS_Subset
<1>2. A \in SUBSET B
    OBVIOUS
<1>3. IsFiniteSet(A) /\ Cardinality(A) <= Cardinality(B)
    BY <1>1, <1>2, FS_Subset
<1>4. Cardinality(A) \in Nat /\ Cardinality(B) \in Nat
    BY <1>1, <1>3, FS_CardinalityType
<1> QED BY <1>3, <1>4

\* A step that brings nothing past the limit.
LEMMA PinStep ==
    ASSUME QuotaTypes, PinInv,
           pins' \subseteq Chats, pinned' \subseteq Chats, unseen' \subseteq Chats,
           pins' \ unseen' \subseteq pinned' \cup ChatsAt(call', {P5}),
           pinned' \cup ChatsAt(call', PastRoom) \subseteq pinned \cup ChatsAt(call, PastRoom)
    PROVE  PinInv'
<1>1. PICK A, B, n : /\ A = pinned' \cup ChatsAt(call', PastRoom) /\ B = pinned \cup ChatsAt(call, PastRoom)
                     /\ n = MaxPins + Cardinality(Slots) - 1
    OBVIOUS
<1>2. B \subseteq Chats
    BY <1>1, PlacesAreChats DEF PinInv
<1>3. n \in Int /\ A \subseteq B /\ Cardinality(B) <= n
    <2>1. n \in Int
        BY <1>1, SlotsAre
    <2> QED BY <1>1, <2>1 DEF PinInv
<1>4. Cardinality(A) <= n
    BY <1>2, <1>3, NoMorePins
<1>5. Cardinality(pinned' \cup ChatsAt(call', PastRoom)) <= MaxPins + Cardinality(Slots) - 1
    BY <1>1, <1>4
<1> QED BY <1>5 DEF PinInv

\* Where the chats of the calls are after a step of the slot s.
Moved(f, g, s, e) == f \in [Slots -> CallType] /\ s \in Slots /\ g = [f EXCEPT ![s] = e]
Places(f, g, s, e, S) ==
    /\ \A x \in ChatsAt(g, S) : x \in ChatsAt(f, S) \/ (Placed(e, S) /\ x = e.chat)
    /\ \A x \in ChatsAt(f, S) : x \in ChatsAt(g, S) \/ (Placed(f[s], S) /\ x = f[s].chat)
    /\ Placed(e, S) => e.chat \in ChatsAt(g, S)
    /\ Placed(f[s], S) => f[s].chat \in ChatsAt(f, S)
LEMMA PlacesMove ==
    ASSUME NEW f, NEW s, NEW e, NEW g, Moved(f, g, s, e), NEW S
    PROVE  Places(f, g, s, e, S)
<1>1. s \in Slots /\ g[s] = e /\ \A t \in Slots \ {s} : g[t] = f[t]
    BY DEF Moved
<1>2. ASSUME NEW x \in ChatsAt(g, S) PROVE x \in ChatsAt(f, S) \/ (Placed(e, S) /\ x = e.chat)
  <2>1. PICK t \in Slots : Placed(g[t], S) /\ g[t].chat = x
    BY <1>2, PlacesAre
  <2>2. CASE t = s
    BY <1>1, <2>1, <2>2
  <2>3. CASE t # s
    <3>1. g[t] = f[t]
        BY <1>1, <2>3
    <3>2. Placed(f[t], S) /\ f[t].chat = x
        BY <2>1, <3>1
    <3> QED BY <3>2, PlacesAre
  <2> QED BY <2>2, <2>3
<1>3. ASSUME NEW x \in ChatsAt(f, S) PROVE x \in ChatsAt(g, S) \/ (Placed(f[s], S) /\ x = f[s].chat)
  <2>1. PICK t \in Slots : Placed(f[t], S) /\ f[t].chat = x
    BY <1>3, PlacesAre
  <2>2. CASE t = s
    BY <2>1, <2>2
  <2>3. CASE t # s
    <3>1. g[t] = f[t]
        BY <1>1, <2>3
    <3>2. Placed(g[t], S) /\ g[t].chat = x
        BY <2>1, <3>1
    <3> QED BY <3>2, PlacesAre
  <2> QED BY <2>2, <2>3
<1>4. Placed(e, S) => e.chat \in ChatsAt(g, S)
    BY <1>1, PlacesAre
<1>5. Placed(f[s], S) => f[s].chat \in ChatsAt(f, S)
    BY <1>1, PlacesAre
<1> QED BY <1>2, <1>3, <1>4, <1>5 DEF Places

\* A step that leaves the pins and the book alone and does not pass the limit.
LEMMA PinQuiet ==
    ASSUME QuotaTypes, PinInv, NEW s \in Slots, NEW e, call' = [call EXCEPT ![s] = e],
           UNCHANGED <<pins, pinned, unseen>>,
           e.phase = "running" /\ e.todo \in PastRoom =>
            e.chat = call[s].chat /\ call[s].phase = "running" /\ call[s].todo \in PastRoom,
           call[s].phase = "running" => call[s].todo # P5
    PROVE  PinInv'
<1>1. PICK f, g, A, B : f = call /\ g = call' /\ A = {P5} /\ B = PastRoom
    OBVIOUS
<1>2. Moved(f, g, s, e)
    BY <1>1 DEF QuotaTypes, Moved
<1>a. Places(f, g, s, e, A) /\ Places(f, g, s, e, B)
    BY <1>2, PlacesMove
<1>3. ChatsAt(f, A) \subseteq ChatsAt(g, A)
    BY <1>1, <1>a DEF Places, Placed
<1>4. ChatsAt(g, B) \subseteq ChatsAt(f, B)
    BY <1>1, <1>a DEF Places, Placed
<1>5. /\ pins' \ unseen' \subseteq pinned' \cup ChatsAt(call', {P5})
      /\ pinned' \cup ChatsAt(call', PastRoom) \subseteq pinned \cup ChatsAt(call, PastRoom)
      /\ pins' \subseteq Chats /\ pinned' \subseteq Chats /\ unseen' \subseteq Chats
    BY <1>1, <1>3, <1>4 DEF PinInv
<1> QED BY <1>5, PinStep

\* A running call that does not look for room, nor notes a pin.
LEMMA PinMoves ==
    ASSUME QuotaInv, PinInv, NEW s \in Slots, NEW e, call' = [call EXCEPT ![s] = e],
           UNCHANGED <<pins, pinned, unseen>>, Running(call[s], day),
           Head(call[s].todo).kind # "pinned",
           \/ GaveUp(call[s], e, day)
           \/ Head(call[s].todo).kind # "room" /\ \E c1 : Onward(call[s], c1, e, day)
    PROVE  PinInv'
<1>1. PICK c, t : c = call[s] /\ t = call[s].todo
    OBVIOUS
<1>2. PinFacts(t) /\ Head(t).kind # "pinned" /\ call[s].phase = "running"
    BY <1>1 DEF Running
<1>3. t # P5
    BY <1>2 DEF PinFacts
<1>4. e.phase = "running" /\ e.todo \in PastRoom => e.chat = call[s].chat /\ t \in PastRoom
  <2>1. CASE GaveUp(call[s], e, day)
    BY <2>1 DEF GaveUp
  <2>2. CASE Head(call[s].todo).kind # "room" /\ \E c1 : Onward(call[s], c1, e, day)
    BY <1>1, <1>2, <2>2 DEF Onward, PinFacts
  <2> QED BY <2>1, <2>2
<1>5. QuotaTypes
    BY DEF QuotaInv
<1> QED BY <1>1, <1>2, <1>3, <1>4, <1>5, PinQuiet

LEMMA PProceed == ASSUME QuotaInv, PinInv, NEW s \in Slots, Proceed(s) PROVE PinInv'
<1>1. PICK e, c1 : Onward(call[s], c1, e, day) /\ call' = [call EXCEPT ![s] = e]
    BY ProceedIs
<1>2. Running(call[s], day) /\ Head(call[s].todo).kind = "check"
    BY ProceedIs
<1>3. UNCHANGED <<pins, pinned, unseen>>
    BY DEF Proceed, Quiet, Shared
<1> QED BY <1>1, <1>2, <1>3, PinMoves

LEMMA PRefuse == ASSUME QuotaInv, PinInv, NEW s \in Slots, Refuse(s) PROVE PinInv'
<1>1. call[s].phase = "running" /\ Next1(s).kind \in {"check", "never", "alive", "put"}
    BY DEF Refuse, At
<1>2. Running(call[s], day) /\ Next1(s) = Head(call[s].todo)
    BY <1>1, AtSpot
<1>3. PICK done : Fails(s, done)
    BY DEF Refuse
<1>4. PICK e : GaveUp(call[s], e, day) /\ call' = [call EXCEPT ![s] = e]
    BY <1>2, <1>3, FailsIs
<1>5. UNCHANGED <<pins, pinned, unseen>>
    BY DEF Refuse
<1> QED BY <1>1, <1>2, <1>4, <1>5, PinMoves

LEMMA PNotDone == ASSUME QuotaInv, PinInv, NEW s \in Slots, NotDone(s) PROVE PinInv'
<1>1. call[s].phase = "running" /\ Next1(s).kind \in {"do", "try"}
    BY DEF NotDone, At
<1>2. Running(call[s], day) /\ Next1(s) = Head(call[s].todo)
    BY <1>1, AtSpot
<1>3. Next1(s).kind = "do"
    BY <1>1, <1>2 DEF Running, SpotFacts
<1>4. PICK done : Fails(s, done)
    BY <1>3 DEF NotDone
<1>5. PICK e : GaveUp(call[s], e, day) /\ call' = [call EXCEPT ![s] = e]
    BY <1>2, <1>4, FailsIs
<1>6. UNCHANGED <<pins, pinned, unseen>>
    BY DEF NotDone
<1> QED BY <1>2, <1>3, <1>5, <1>6, PinMoves

LEMMA PReserve == ASSUME QuotaInv, PinInv, NEW s \in Slots, ReserveSlots(s) PROVE PinInv'
<1>1. call[s].phase = "running" /\ Next1(s).kind = "reserve"
    BY DEF ReserveSlots, At
<1>2. PICK c, d, q : c = call[s] /\ d = day /\ q = Next1(s).on
    OBVIOUS
<1>3. Running(c, d) /\ Next1(s) = Head(c.todo)
    BY <1>1, <1>2, AtSpot
<1>4. PICK c1, a : a = (IF q = "create" THEN 1 ELSE c.amount) /\ c1 = [c EXCEPT !.on = d, !.amount = a]
    OBVIOUS
<1>5. c \in CallType /\ d \in Nat /\ a \in 1..MostAdded /\ a \in Nat
    BY <1>3, <1>4, RequestsAssumption DEF Running
<1>6. c1 \in CallType /\ c1.todo = c.todo /\ c1.chat = c.chat /\ c1.amount = a /\ c1.on = d
    BY <1>4, <1>5 DEF CallType
<1>7. d <= d
    BY <1>5
<1>8. Onward(c, c1, Past(c1), d) /\ GaveUp(c, Failed(c1), d)
    BY <1>1, <1>3, <1>5, <1>6, <1>7, OnwardIs, GaveUpIs
<1>9. PICK e : call' = [call EXCEPT ![s] = e] /\ (e = Past(c1) \/ e = Failed(c1))
    BY <1>2, <1>4 DEF ReserveSlots, On, Abort
<1>10. UNCHANGED <<pins, pinned, unseen>>
    BY DEF ReserveSlots
<1>11. GaveUp(call[s], e, day) \/ \E c2 : Onward(call[s], c2, e, day)
    BY <1>2, <1>8, <1>9
<1> QED BY <1>1, <1>2, <1>3, <1>9, <1>10, <1>11, PinMoves

LEMMA PRoom == ASSUME QuotaInv, PinInv, NEW s \in Slots, LookForRoom(s) PROVE PinInv'
<1>1. call[s].phase = "running" /\ Next1(s).kind \in {"room", "pinned"} /\ Next1(s).kind = "room"
    BY DEF LookForRoom, At
<1>2. /\ Running(call[s], day) /\ Next1(s) = Head(call[s].todo)
      /\ Onward(call[s], call[s], Past(call[s]), day) /\ GaveUp(call[s], Failed(call[s]), day)
    BY <1>1, JustOn
<1>3. UNCHANGED <<pins, pinned, unseen>>
    BY DEF LookForRoom, Quiet, Shared
<1>4. QuotaTypes /\ QuotaTypes'
    BY QRoom DEF QuotaInv
<1>5. PICK f, g, e, A, B : f = call /\ g = call' /\ A = {P5} /\ B = PastRoom /\ e = g[s]
    OBVIOUS
<1>6. CASE call' = [call EXCEPT ![s] = Failed(call[s])]
  <2>1. PICK x : x = Failed(call[s])
    OBVIOUS
  <2> QED BY <1>1, <1>2, <1>3, <1>6, <2>1, PinMoves
<1>7. CASE /\ call[s].chat \in pinned \/ Cardinality(pinned) < MaxPins
           /\ call' = [call EXCEPT ![s] = Past(call[s])]
  <2>1. e = Past(call[s]) /\ e.chat = f[s].chat /\ Moved(f, g, s, e)
    BY <1>2, <1>4, <1>5, <1>7 DEF QuotaTypes, Moved, Onward
  <2>2. Places(f, g, s, e, A) /\ Places(f, g, s, e, B)
    BY <2>1, PlacesMove
  <2>3. f[s].todo # P5
    BY <1>1, <1>2, <1>5 DEF Running, PinFacts
  <2>4. ChatsAt(f, A) \subseteq ChatsAt(g, A)
    BY <1>5, <2>2, <2>3 DEF Places, Placed
  <2>5. /\ pins' \ unseen' \subseteq pinned' \cup ChatsAt(call', {P5})
        /\ pins' \subseteq Chats /\ pinned' \subseteq Chats /\ unseen' \subseteq Chats
    BY <1>3, <1>5, <2>4 DEF PinInv
  <2>6. CASE call[s].chat \in pinned
    <3>1. ChatsAt(g, B) \subseteq pinned \cup ChatsAt(f, B)
        BY <1>5, <2>1, <2>2, <2>6 DEF Places
    <3>2. pinned' \cup ChatsAt(call', PastRoom) \subseteq pinned \cup ChatsAt(call, PastRoom)
        BY <1>3, <1>5, <3>1
    <3> QED BY <1>4, <2>5, <3>2, PinStep
  <2>7. CASE Cardinality(pinned) < MaxPins
    <3>1. PICK D, E : D = pinned /\ E = ChatsAt(g, B)
        OBVIOUS
    <3>2. D \in SUBSET Chats /\ IsFiniteSet(Chats)
        BY <3>1, SlotsAre DEF PinInv
    <3>3. IsFiniteSet(D)
        BY <3>2, FS_Subset
    <3>4. IsFiniteSet(E) /\ Cardinality(E) <= Cardinality(Slots)
        BY <3>1, PlacesFew
    <3>5. Cardinality(D \cup E) = Cardinality(D) + Cardinality(E) - Cardinality(D \cap E)
        BY <3>3, <3>4, FS_Union
    <3>6. D \cap E \in SUBSET D
        OBVIOUS
    <3>7. IsFiniteSet(D \cap E)
        BY <3>3, <3>6, FS_Subset
    <3>8. Cardinality(D) \in Nat /\ Cardinality(E) \in Nat /\ Cardinality(D \cap E) \in Nat
        BY <3>3, <3>4, <3>7, FS_CardinalityType
    <3>9. Cardinality(D) < MaxPins
        BY <2>7, <3>1
    <3>10. PICK i, j, k, l : /\ i = Cardinality(D) /\ j = Cardinality(E) /\ k = Cardinality(D \cap E)
                             /\ l = Cardinality(Slots)
        OBVIOUS
    <3>11. i \in Nat /\ j \in Nat /\ k \in Nat /\ l \in Nat /\ MaxPins \in Nat /\ i < MaxPins /\ j <= l
        BY <3>4, <3>8, <3>9, <3>10, SlotsAre
    <3>12. i + j - k <= MaxPins + l - 1
        BY <3>11
    <3>13. Cardinality(pinned' \cup ChatsAt(call', PastRoom)) <= MaxPins + Cardinality(Slots) - 1
        BY <1>3, <1>5, <3>1, <3>5, <3>10, <3>12
    <3> QED BY <2>5, <3>13 DEF PinInv
  <2> QED BY <1>7, <2>6, <2>7
<1> QED BY <1>6, <1>7 DEF LookForRoom, On, Abort

LEMMA PNote == ASSUME QuotaInv, PinInv, NEW s \in Slots, NotePin(s) PROVE PinInv'
<1>1. call[s].phase = "running" /\ Next1(s).kind \in {"room", "pinned"} /\ Next1(s).kind = "pinned"
    BY DEF NotePin, At
<1>2. /\ Running(call[s], day) /\ Next1(s) = Head(call[s].todo)
      /\ Onward(call[s], call[s], Past(call[s]), day)
    BY <1>1, JustOn
<1>3. PICK f, g, e, x, A, B : f = call /\ g = call' /\ A = {P5} /\ B = PastRoom /\ e = g[s] /\ x = f[s].chat
    OBVIOUS
<1>4. QuotaTypes
    BY DEF QuotaInv
<1>5. e = Past(call[s]) /\ Moved(f, g, s, e)
    BY <1>3, <1>4 DEF QuotaTypes, Moved, NotePin, On
<1>6. Places(f, g, s, e, A) /\ Places(f, g, s, e, B)
    BY <1>5, PlacesMove
<1>7. PinFacts(f[s].todo) /\ f[s].phase = "running" /\ x \in Chats /\ Next1(s) = Head(f[s].todo)
    BY <1>2, <1>3 DEF Running
<1>8. e.phase # "running"
  <2>1. Tail(f[s].todo) = <<>>
    BY <1>1, <1>7 DEF PinFacts
  <2>2. <<>> \notin Spots
    BY SpotsKnown DEF SpotFacts
  <2> QED BY <1>2, <1>3, <1>5, <2>1, <2>2 DEF Onward
<1>9. ChatsAt(g, B) \subseteq ChatsAt(f, B)
    BY <1>6, <1>8 DEF Places, Placed
<1>10. \A y \in ChatsAt(f, A) : y \in ChatsAt(g, A) \/ (f[s].todo = P5 /\ y = x)
    BY <1>3, <1>6 DEF Places, Placed
<1>11. /\ pinned' = IF Next1(s).on = "pin" THEN pinned \cup {x} ELSE pinned \ {x}
       /\ unseen' = IF Next1(s).on = "unpin" /\ x \in pins THEN unseen \cup {x} ELSE unseen \ {x}
       /\ pins' = pins
    BY <1>3 DEF NotePin
<1>12. pins' \subseteq Chats /\ pinned' \subseteq Chats /\ unseen' \subseteq Chats
    BY <1>7, <1>11 DEF PinInv
<1>13. pins \ unseen \subseteq pinned \cup ChatsAt(f, A)
    BY <1>3 DEF PinInv
<1>14. CASE Next1(s).on = "pin"
  <2>1. f[s].todo \in B
    BY <1>1, <1>3, <1>7, <1>14 DEF PinFacts
  <2>2. x \in ChatsAt(f, B)
    BY <1>3, <1>6, <1>7, <2>1 DEF Places, Placed
  <2>3. pinned' = pinned \cup {x} /\ unseen' = unseen \ {x}
    BY <1>11, <1>14
  <2>4. pins' \ unseen' \subseteq pinned' \cup ChatsAt(g, A)
    BY <1>10, <1>11, <1>13, <2>3
  <2>5. pinned' \cup ChatsAt(g, B) \subseteq pinned \cup ChatsAt(f, B)
    BY <1>9, <2>2, <2>3
  <2> QED BY <1>3, <1>4, <1>12, <2>4, <2>5, PinStep
<1>15. CASE Next1(s).on # "pin"
  <2>1. Next1(s).on = "unpin" /\ f[s].todo # P5
    BY <1>1, <1>7, <1>15 DEF PinFacts
  <2>2. pinned' = pinned \ {x} /\ unseen' = IF x \in pins THEN unseen \cup {x} ELSE unseen \ {x}
    BY <1>11, <2>1
  <2>3. pins' \ unseen' \subseteq pinned' \cup ChatsAt(g, A)
    BY <1>10, <1>11, <1>13, <2>1, <2>2
  <2>4. pinned' \cup ChatsAt(g, B) \subseteq pinned \cup ChatsAt(f, B)
    BY <1>9, <2>2
  <2> QED BY <1>3, <1>4, <1>12, <2>3, <2>4, PinStep
<1> QED BY <1>14, <1>15

LEMMA PDone == ASSUME QuotaInv, PinInv, NEW s \in Slots, Done(s) PROVE PinInv'
<1>1. Running(call[s], day) /\ Next1(s) = Head(call[s].todo) /\ Next1(s).kind = "do"
    BY DoneIs
<1>2. PICK e, c1 : Onward(call[s], c1, e, day) /\ call' = [call EXCEPT ![s] = e]
    BY DoneIs
<1>3. PICK f, g, t, x, A, B : /\ f = call /\ g = call' /\ A = {P5} /\ B = PastRoom
                              /\ t = f[s].todo /\ x = f[s].chat
    OBVIOUS
<1>4. QuotaTypes /\ Moved(f, g, s, e)
    BY <1>2, <1>3 DEF QuotaInv, QuotaTypes, Moved
<1>5. Places(f, g, s, e, A) /\ Places(f, g, s, e, B)
    BY <1>4, PlacesMove
<1>6. /\ PinFacts(t) /\ f[s].phase = "running" /\ x \in Chats /\ Next1(s) = Head(t)
      /\ e.todo = Tail(t) /\ e.chat = x /\ (e.phase = "running" <=> Tail(t) \in Spots)
    BY <1>1, <1>2, <1>3 DEF Running, Onward
<1>7. ChatsAt(g, B) \subseteq ChatsAt(f, B)
  <2>1. Placed(e, B) => Placed(f[s], B)
    BY <1>1, <1>3, <1>6 DEF Placed, PinFacts
  <2> QED BY <1>3, <1>5, <1>6, <2>1 DEF Places
<1>8. ChatsAt(f, A) \subseteq ChatsAt(g, A)
  <2>1. ~Placed(f[s], A)
    BY <1>1, <1>3, <1>6 DEF Placed, PinFacts
  <2> QED BY <1>5, <2>1 DEF Places
<1>9. Next1(s).on = "pin" => x \in ChatsAt(g, A)
  <2>1. Next1(s).on = "pin" => Tail(t) = P5
    BY <1>1, <1>6 DEF PinFacts
  <2>2. P5 \in Spots
    BY DEF Spots
  <2>3. Next1(s).on = "pin" => Placed(e, A)
    BY <1>3, <1>6, <2>1, <2>2 DEF Placed
  <2> QED BY <1>5, <1>6, <2>3 DEF Places
<1>10. /\ pins' = CASE Next1(s).on = "pin" -> pins \cup {x}
                    [] Next1(s).on = "unpin" -> pins \ {x}
                    [] OTHER -> pins
       /\ UNCHANGED <<pinned, unseen>>
    BY <1>3 DEF Done, Change
<1>11. \A y \in pins' : y \in pins \/ (Next1(s).on = "pin" /\ y = x)
    BY <1>10
<1>12. pins' \subseteq Chats /\ pinned' \subseteq Chats /\ unseen' \subseteq Chats
    BY <1>6, <1>10, <1>11 DEF PinInv
<1>13. pins' \ unseen' \subseteq pinned' \cup ChatsAt(g, A)
  <2>1. pins \ unseen \subseteq pinned \cup ChatsAt(f, A)
    BY <1>3 DEF PinInv
  <2> QED BY <1>8, <1>9, <1>10, <1>11, <2>1
<1>14. pinned' \cup ChatsAt(g, B) \subseteq pinned \cup ChatsAt(f, B)
    BY <1>7, <1>10
<1> QED BY <1>3, <1>4, <1>12, <1>13, <1>14, PinStep

LEMMA PDoneAndFailed == ASSUME QuotaInv, PinInv, NEW s \in Slots, DoneAndFailed(s) PROVE PinInv'
<1>1. Running(call[s], day) /\ Next1(s) = Head(call[s].todo) /\ Next1(s).kind = "do"
    BY DoneAndFailedIs
<1>2. PICK e : GaveUp(call[s], e, day) /\ call' = [call EXCEPT ![s] = e]
    BY DoneAndFailedIs
<1>3. PICK f, g, t, x, A, B : /\ f = call /\ g = call' /\ A = {P5} /\ B = PastRoom
                              /\ t = f[s].todo /\ x = f[s].chat
    OBVIOUS
<1>4. QuotaTypes /\ Moved(f, g, s, e)
    BY <1>2, <1>3 DEF QuotaInv, QuotaTypes, Moved
<1>5. Places(f, g, s, e, A) /\ Places(f, g, s, e, B)
    BY <1>4, PlacesMove
<1>6. PinFacts(t) /\ f[s].phase = "running" /\ x \in Chats /\ Next1(s) = Head(t) /\ e.phase # "running"
    BY <1>1, <1>2, <1>3 DEF Running, GaveUp
<1>7. ChatsAt(g, B) \subseteq ChatsAt(f, B)
    BY <1>5, <1>6 DEF Places, Placed
<1>8. ChatsAt(f, A) \subseteq ChatsAt(g, A)
  <2>1. ~Placed(f[s], A)
    BY <1>1, <1>3, <1>6 DEF Placed, PinFacts
  <2> QED BY <1>5, <2>1 DEF Places
<1>9. /\ pins' = CASE Next1(s).on = "pin" -> pins \cup {x}
                   [] Next1(s).on = "unpin" -> pins \ {x}
                   [] OTHER -> pins
      /\ unseen' = IF Next1(s).on = "pin" THEN unseen \cup {x} ELSE unseen
      /\ pinned' = pinned
    BY <1>3 DEF DoneAndFailed, Change
<1>10. \A y \in pins' : y \in pins \/ (Next1(s).on = "pin" /\ y = x)
    BY <1>9
<1>11. pins' \subseteq Chats /\ pinned' \subseteq Chats /\ unseen' \subseteq Chats
    BY <1>6, <1>9, <1>10 DEF PinInv
<1>12. pins' \ unseen' \subseteq pinned' \cup ChatsAt(g, A)
  <2>1. pins \ unseen \subseteq pinned \cup ChatsAt(f, A)
    BY <1>3 DEF PinInv
  <2> QED BY <1>8, <1>9, <1>10, <2>1
<1>13. pinned' \cup ChatsAt(g, B) \subseteq pinned \cup ChatsAt(f, B)
    BY <1>7, <1>9
<1> QED BY <1>3, <1>4, <1>11, <1>12, <1>13, PinStep

LEMMA PFinish == ASSUME QuotaInv, PinInv, NEW s \in Slots, Finish(s) PROVE PinInv'
<1>1. PICK e : e = Idle
    OBVIOUS
<1>2. e.phase = "idle"
    BY <1>1, IdleTyped, Zenon
<1>3. call' = [call EXCEPT ![s] = Idle] /\ call[s].phase \in {"ok", "error"}
    BY Zenon DEF Finish
<1>4. UNCHANGED <<pins, pinned, unseen>>
    BY Zenon DEF Finish, Shared
<1>5. call' = [call EXCEPT ![s] = e]
    BY <1>1, <1>3, Zenon
<1>6. call[s].phase # "running"
    <2>1. call[s].phase \in {"ok", "error"}
        BY <1>3, Zenon
    <2> QED BY <2>1
<1>7. QuotaTypes
    BY DEF QuotaInv
<1> QED BY <1>2, <1>4, <1>5, <1>6, <1>7, PinQuiet

LEMMA PStart ==
    ASSUME QuotaInv, PinInv, focus \in {"methods", "groups", "pins"}, NEW s \in Slots, StartTogether(s)
    PROVE  PinInv'
<1>1. day \in Nat /\ QuotaTypes
    BY DEF QuotaInv, QuotaTypes
<1>2. PICK e \in CallType : call' = [call EXCEPT ![s] = e] /\ e.todo \in {C1, A1, P1, U1}
    BY <1>1, StartTogetherIs, Zenon
<1>3. e.todo \notin PastRoom
    BY <1>2, SpotsApart
<1>4. call[s].phase = "idle"
    BY Zenon DEF StartTogether
<1>5. UNCHANGED <<pins, pinned, unseen>>
    BY Zenon DEF StartTogether, Shared
<1>6. call[s].phase # "running"
    BY <1>4
<1> QED BY <1>1, <1>2, <1>3, <1>5, <1>6, PinQuiet

LEMMA PMidnight == ASSUME PinInv, Midnight PROVE PinInv'
BY DEF Midnight, PinInv

\* Nothing is pinned that the book could know of.
LEMMA NoPins ==
    ASSUME NEW f, \A s \in Slots : f[s].phase # "running"
    PROVE  Cardinality({} \cup ChatsAt(f, PastRoom)) <= MaxPins + Cardinality(Slots) - 1
<1>1. {} \cup ChatsAt(f, PastRoom) = {}
    BY PlacesAre DEF Placed
<1>2. Cardinality({} \cup ChatsAt(f, PastRoom)) = 0
    BY <1>1, FS_EmptySet
<1> QED BY <1>2, SlotsAre

LEMMA PRestart == ASSUME QuotaInv, PinInv, Restart PROVE PinInv'
<1>1. PICK g : g = call'
    OBVIOUS
<1>2. \A s \in Slots : g[s].phase # "running"
    BY <1>1, RestartIs
<1>3. Cardinality({} \cup ChatsAt(g, PastRoom)) <= MaxPins + Cardinality(Slots) - 1
    BY <1>2, NoPins
<1>4. pinned' = {} /\ unseen' = pins /\ pins' = pins
    BY DEF Restart
<1> QED BY <1>1, <1>3, <1>4 DEF PinInv

LEMMA PInit == ASSUME Init PROVE PinInv
<1>1. PICK f, i : f = call /\ i = Idle
    OBVIOUS
<1>2. f = [s \in Slots |-> i] /\ i.phase = "idle"
    BY <1>1, IdleTyped, Zenon DEF Init
<1>3. \A s \in Slots : f[s].phase # "running"
    BY <1>2
<1>4. Cardinality({} \cup ChatsAt(f, PastRoom)) <= MaxPins + Cardinality(Slots) - 1
    BY <1>3, NoPins
<1>5. pinned = {} /\ unseen = {} /\ pins = {}
    BY Zenon DEF Init
<1> QED BY <1>1, <1>4, <1>5 DEF PinInv

-----------------------------------------------------------------------------
(* The theorems *)

\* What holds of the calls that meet; the calls of focus "methods" run alone.
MeetInv ==
    /\ focus \in {"methods", "groups", "pins"}
    /\ focus # "methods" => QuotaInv /\ PinInv

LEMMA MeetStep == MeetInv /\ [Next]_vars => MeetInv'
<1> SUFFICES ASSUME MeetInv, [Next]_vars PROVE MeetInv'
    OBVIOUS
<1>1. focus \in {"methods", "groups", "pins"}
    BY DEF MeetInv
<1>2. focus' = focus
  <2>1. CASE UNCHANGED vars
    BY <2>1, Zenon DEF vars
  <2>2. CASE Midnight
    BY <2>2, Zenon DEF Midnight
  <2>3. CASE Restart
    BY <2>3, Zenon DEF Restart
  <2>4. ASSUME NEW s \in Slots, Start(s) \/ StartTogether(s) \/ StepOf(s) \/ Finish(s)
        PROVE  focus' = focus
    BY <2>4, Zenon DEF Start, StartTogether, StepOf, Finish, Proceed, Admitted, Refuse, PassGate, Store,
        ReserveSlots, Done, NotDone, DoneAndFailed, LookForRoom, NotePin, LoseReply, Quiet
  <2> QED BY <2>1, <2>2, <2>3, <2>4, Zenon DEF Next
<1>3. ASSUME focus # "methods" PROVE QuotaInv' /\ PinInv'
  <2>0. QuotaInv /\ PinInv
    BY <1>3, Zenon DEF MeetInv
  <2>1. CASE UNCHANGED vars
    <3>1. UNCHANGED <<call, day, count, used, slack>> /\ UNCHANGED <<pins, pinned, unseen>>
        BY <2>1, Zenon DEF vars
    <3>2. QuotaInv'
        BY <2>0, <3>1 DEF QuotaInv, QuotaTypes, Counted
    <3>3. PinInv'
        BY <2>0, <3>1 DEF PinInv
    <3> QED BY <3>2, <3>3
  <2>2. CASE Midnight
    BY <2>0, <2>2, QMidnight, PMidnight
  <2>3. CASE Restart
    BY <2>0, <2>3, QRestart, PRestart
  <2>4. ASSUME NEW s \in Slots, Start(s) PROVE FALSE
    BY <1>3, <2>4, Zenon DEF Start
  <2>5. ASSUME NEW s \in Slots, StartTogether(s) PROVE QuotaInv' /\ PinInv'
    BY <1>1, <2>0, <2>5, QStart, PStart
  <2>6. ASSUME NEW s \in Slots, Finish(s) PROVE QuotaInv' /\ PinInv'
    BY <2>0, <2>6, QFinish, PFinish
  <2>7. ASSUME NEW s \in Slots, StepOf(s) PROVE QuotaInv' /\ PinInv'
    <3>1. ASSUME Admitted(s) \/ PassGate(s) \/ Store(s) \/ LoseReply(s) PROVE FALSE
      <4>1. At(s, {"admit"}) \/ At(s, {"gate"}) \/ At(s, {"put", "keep"}) \/ At(s, {"reply"})
        BY <3>1, Zenon DEF Admitted, PassGate, Store, LoseReply
      <4>2. ASSUME NEW K \in {{"admit"}, {"gate"}, {"put", "keep"}, {"reply"}} PROVE ~At(s, K)
        <5>1. K \cap {"check", "reserve", "do", "room", "pinned"} = {}
            OBVIOUS
        <5> QED BY <2>0, <5>1, NeverAt
      <4> QED BY <4>1, <4>2
    <3>2. CASE Proceed(s)
        BY <2>0, <3>2, QProceed, PProceed
    <3>3. CASE Refuse(s)
        BY <2>0, <3>3, QRefuse, PRefuse
    <3>4. CASE ReserveSlots(s)
        BY <2>0, <3>4, QReserve, PReserve
    <3>5. CASE Done(s)
        BY <2>0, <3>5, QDone, PDone
    <3>6. CASE NotDone(s)
        BY <2>0, <3>6, QNotDone, PNotDone
    <3>7. CASE DoneAndFailed(s)
        BY <2>0, <3>7, QDoneAndFailed, PDoneAndFailed
    <3>8. CASE LookForRoom(s)
        BY <2>0, <3>8, QRoom, PRoom
    <3>9. CASE NotePin(s)
        BY <2>0, <3>9, QNote, PNote
    <3> QED BY <2>7, <3>1, <3>2, <3>3, <3>4, <3>5, <3>6, <3>7, <3>8, <3>9, Zenon DEF StepOf
  <2> QED BY <2>1, <2>2, <2>3, <2>4, <2>5, <2>6, <2>7, Zenon DEF Next
<1> QED BY <1>1, <1>2, <1>3 DEF MeetInv

LEMMA MeetInvHolds == Spec => []MeetInv
<1>1. Init => MeetInv
  <2> SUFFICES ASSUME Init PROVE MeetInv
    OBVIOUS
  <2>1. focus \in {"methods", "groups", "pins"}
    BY Zenon DEF Init
  <2>2. QuotaInv /\ PinInv
    BY QInit, PInit
  <2> QED BY <2>1, <2>2 DEF MeetInv
<1> QED BY <1>1, MeetStep, PTL DEF Spec

\* groupadmin.go reserveCreateSlot, reserveAddSlots and their refunds: however calls,
\* failures, midnights and restarts fall, no more groups are made and no more
\* participants added in a day than the cap and the uses the counters lost.
THEOREM QuotaHoldsHolds == Spec => [](focus # "methods" => QuotaHolds)
<1>1. MeetInv => (focus # "methods" => QuotaHolds)
  <2> SUFFICES ASSUME QuotaInv, NEW q \in Quotas PROVE used[q] <= Cap[q] + slack[q]
    BY Zenon DEF MeetInv, QuotaHolds
  <2>1. PICK u, h, n, z, m : /\ u = used[q] /\ h = Cardinality(HeldOf(call, q, day)) /\ n = Counted(q)
                             /\ z = slack[q] /\ m = Cap[q]
    OBVIOUS
  <2>2. h \in Nat
    <3>1. PICK f, d : f = call /\ d = day
        OBVIOUS
    <3>2. Cardinality(HeldOf(f, q, d)) \in Nat
        BY HeldFinite
    <3> QED BY <2>1, <3>1, <3>2
  <2>3. u \in Nat /\ n \in Nat /\ z \in Nat /\ m \in Nat /\ n <= m
    BY <2>1, QuotasAre DEF QuotaInv, QuotaTypes, Counted
  <2>4. u + h <= n + z
    BY <2>1 DEF QuotaInv
  <2>5. u <= m + z
    BY <2>2, <2>3, <2>4
  <2> QED BY <2>1, <2>5
<1> QED BY <1>1, MeetInvHolds, PTL

\* chatstate.go Pin: the limit is looked at and noted in two critical sections with
\* the patch between them; the chats the book should know of pass it by at most one
\* call in flight each, less the one that found the last room.
THEOREM PinBoundHolds == Spec => [](focus # "methods" => PinBound)
<1>1. MeetInv => (focus # "methods" => PinBound)
  <2> SUFFICES ASSUME QuotaInv, PinInv PROVE PinBound
    BY Zenon DEF MeetInv
  <2>1. PICK A, B, n, f : /\ A = pins \ unseen /\ B = pinned \cup ChatsAt(call, PastRoom) /\ f = call
                          /\ n = MaxPins + Cardinality(Slots) - 1
    OBVIOUS
  <2>2. ChatsAt(f, {P5}) \subseteq ChatsAt(f, PastRoom)
    BY PlacesAre DEF Placed, PastRoom
  <2>3. QuotaTypes
    BY DEF QuotaInv
  <2>4. B \subseteq Chats
    BY <2>1, <2>3, PlacesAreChats DEF PinInv
  <2>5. A \subseteq B
    BY <2>1, <2>2 DEF PinInv
  <2>6. n \in Int /\ Cardinality(B) <= n
    <3>1. n \in Int
        BY <2>1, SlotsAre
    <3> QED BY <2>1, <3>1 DEF PinInv
  <2>7. Cardinality(A) <= n
    BY <2>4, <2>5, <2>6, NoMorePins
  <2> QED BY <2>1, <2>7 DEF PinBound
<1> QED BY <1>1, MeetInvHolds, PTL
=============================================================================
