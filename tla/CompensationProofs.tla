------------------------- MODULE CompensationProofs -------------------------
(***************************************************************************)
(* Theorems about TravelCompensation, for any set of executions and any    *)
(* kinds of calls that may reject.                                         *)
(***************************************************************************)
EXTENDS TravelCompensation, SequenceTheorems, TLAPS

(* The services of the first n reservations, and the compensations that    *)
(* cancel them.                                                            *)
First(n) == {ReserveOrder[i] : i \in 1 .. n}

PlanOf(n) ==
    CASE n = 0 -> <<>>
      [] n = 1 -> <<"flight">>
      [] n = 2 -> <<"hotel", "flight">>
      [] n = 3 -> <<"car", "hotel", "flight">>

LEMMA OrderLemma ==
    /\ ReserveOrder[1] = "flight" /\ ReserveOrder[2] = "hotel" /\ ReserveOrder[3] = "car"
    /\ First(0) = {} /\ First(3) = Services
    /\ \A n \in 1 .. 3 : /\ First(n) = First(n - 1) \cup {ReserveOrder[n]}
                         /\ ReserveOrder[n] \in Services
                         /\ ReserveOrder[n] \notin First(n - 1)
                         /\ ReserveOrder[n] = "car" <=> n = 3
<1>1. ReserveOrder[1] = "flight" /\ ReserveOrder[2] = "hotel" /\ ReserveOrder[3] = "car"
  BY DEF ReserveOrder
<1>2. /\ First(0) = {} /\ First(1) = {"flight"} /\ First(2) = {"flight", "hotel"}
      /\ First(3) = {"flight", "hotel", "car"}
  <2>1. 1 .. 0 = {} /\ 1 .. 1 = {1} /\ 1 .. 2 = {1, 2} /\ 1 .. 3 = {1, 2, 3}
    OBVIOUS
  <2> QED
    BY <1>1, <2>1 DEF First
<1>3. \A n \in 1 .. 3 : n = 1 \/ n = 2 \/ n = 3
  OBVIOUS
<1> QED
  BY <1>1, <1>2, <1>3 DEF Services

(* Append to sequences of one and two elements, written out.               *)
LEMMA AppendToOne ==
    ASSUME NEW T, NEW a \in T, NEW b \in T
    PROVE  Append(<<a>>, b) = <<a, b>>
<1> DEFINE s == <<a, b>>
           t == Append(<<a>>, b)
<1>1. <<a>> \in Seq(T) /\ Len(<<a>>) = 1 /\ <<a>>[1] = a
  OBVIOUS
<1>2. s \in Seq(T) /\ Len(s) = 2 /\ s[1] = a /\ s[2] = b
  OBVIOUS
<1>3. t \in Seq(T) /\ Len(t) = 2 /\ t[1] = a /\ t[2] = b
  BY <1>1, AppendProperties
<1> HIDE DEF s, t
<1>4. \A i \in 1 .. Len(t) : t[i] = s[i]
  BY <1>2, <1>3
<1>5. t = s
  BY <1>2, <1>3, <1>4, SeqEqual
<1> QED
  BY <1>5 DEF s, t

LEMMA AppendToTwo ==
    ASSUME NEW T, NEW a \in T, NEW b \in T, NEW c \in T
    PROVE  Append(<<a, b>>, c) = <<a, b, c>>
<1> DEFINE s == <<a, b, c>>
           t == Append(<<a, b>>, c)
<1>1. <<a, b>> \in Seq(T) /\ Len(<<a, b>>) = 2 /\ <<a, b>>[1] = a /\ <<a, b>>[2] = b
  OBVIOUS
<1>2. s \in Seq(T) /\ Len(s) = 3 /\ s[1] = a /\ s[2] = b /\ s[3] = c
  OBVIOUS
<1>3. t \in Seq(T) /\ Len(t) = 3 /\ t[1] = a /\ t[2] = b /\ t[3] = c
  BY <1>1, AppendProperties
<1> HIDE DEF s, t
<1>4. \A i \in 1 .. Len(t) : t[i] = s[i]
  BY <1>2, <1>3
<1>5. t = s
  BY <1>2, <1>3, <1>4, SeqEqual
<1> QED
  BY <1>5 DEF s, t

(* compensate takes the last reservation first, and each compensation      *)
(* leaves those of the reservations before it.                             *)
LEMMA PlanLemma ==
    /\ \A n \in 0 .. 3 : /\ PlanOf(n) \in Seq(Services)
                         /\ CompensationPlan(First(n)) = PlanOf(n)
    /\ PlanOf(0) = <<>>
    /\ \A n \in 1 .. 3 : /\ PlanOf(n) # <<>>
                         /\ Head(PlanOf(n)) = ReserveOrder[n]
                         /\ Tail(PlanOf(n)) = PlanOf(n - 1)
<1>1. /\ PlanOf(0) = <<>> /\ PlanOf(1) = <<"flight">> /\ PlanOf(2) = <<"hotel", "flight">>
      /\ PlanOf(3) = <<"car", "hotel", "flight">>
  BY DEF PlanOf
<1>2. /\ PlanOf(0) \in Seq(Services) /\ PlanOf(1) \in Seq(Services)
      /\ PlanOf(2) \in Seq(Services) /\ PlanOf(3) \in Seq(Services)
  <2>1. <<>> \in Seq(Services)
    OBVIOUS
  <2>2. <<"flight">> \in Seq(Services)
    BY DEF Services
  <2>3. <<"hotel", "flight">> \in Seq(Services)
    BY DEF Services
  <2>4. <<"car", "hotel", "flight">> \in Seq(Services)
    BY DEF Services
  <2> QED
    BY <1>1, <2>1, <2>2, <2>3, <2>4
<1>3. /\ First(0) = {} /\ First(1) = {"flight"} /\ First(2) = {"flight", "hotel"}
      /\ First(3) = {"flight", "hotel", "car"}
  <2>1. First(1) = First(0) \cup {"flight"} /\ First(2) = First(1) \cup {"hotel"}
    BY OrderLemma
  <2> QED
    BY <2>1, OrderLemma DEF Services
<1>4. /\ CompensationPlan(First(0)) = PlanOf(0)
      /\ CompensationPlan(First(1)) = PlanOf(1)
      /\ CompensationPlan(First(2)) = PlanOf(2)
      /\ CompensationPlan(First(3)) = PlanOf(3)
  <2>0. "flight" \in Services /\ "hotel" \in Services /\ "car" \in Services
    BY DEF Services
  <2>1. Append(<<>>, "flight") = <<"flight">>
    OBVIOUS
  <2>2. Append(<<>>, "hotel") = <<"hotel">>
    OBVIOUS
  <2>3. Append(<<"hotel">>, "flight") = <<"hotel", "flight">>
    BY <2>0, AppendToOne
  <2>4. Append(<<>>, "car") = <<"car">>
    OBVIOUS
  <2>5. Append(<<"car">>, "hotel") = <<"car", "hotel">>
    BY <2>0, AppendToOne
  <2>6. Append(<<"car", "hotel">>, "flight") = <<"car", "hotel", "flight">>
    BY <2>0, AppendToTwo
  <2>7. CompensationPlan(First(0)) = <<>>
    BY <1>3, Zenon DEF CompensationPlan, PushIfHeld
  <2>8. CompensationPlan(First(1)) = <<"flight">>
    BY <1>3, <2>1 DEF CompensationPlan, PushIfHeld
  <2>9. CompensationPlan(First(2)) = <<"hotel", "flight">>
    BY <1>3, <2>2, <2>3 DEF CompensationPlan, PushIfHeld
  <2>10. CompensationPlan(First(3)) = <<"car", "hotel", "flight">>
    BY <1>3, <2>4, <2>5, <2>6 DEF CompensationPlan, PushIfHeld
  <2> QED
    BY <1>1, <2>7, <2>8, <2>9, <2>10
<1>5. /\ Head(PlanOf(1)) = "flight" /\ Tail(PlanOf(1)) = PlanOf(0)
      /\ Head(PlanOf(2)) = "hotel" /\ Tail(PlanOf(2)) = PlanOf(1)
      /\ Head(PlanOf(3)) = "car" /\ Tail(PlanOf(3)) = PlanOf(2)
      /\ PlanOf(1) # <<>> /\ PlanOf(2) # <<>> /\ PlanOf(3) # <<>>
  <2>1. Head(<<"flight">>) = "flight" /\ Tail(<<"flight">>) = <<>> /\ <<"flight">> # <<>>
    OBVIOUS
  <2>2. /\ Head(<<"hotel", "flight">>) = "hotel" /\ Tail(<<"hotel", "flight">>) = <<"flight">>
        /\ <<"hotel", "flight">> # <<>>
    OBVIOUS
  <2>3. /\ Head(<<"car", "hotel", "flight">>) = "car"
        /\ Tail(<<"car", "hotel", "flight">>) = <<"hotel", "flight">>
        /\ <<"car", "hotel", "flight">> # <<>>
    OBVIOUS
  <2> QED
    BY <1>1, <2>1, <2>2, <2>3, Zenon
<1>6. \A n \in 0 .. 3 : n = 0 \/ n = 1 \/ n = 2 \/ n = 3
  OBVIOUS
<1>0. /\ \A n \in 1 .. 3 : n = 1 \/ n = 2 \/ n = 3
      /\ 1 - 1 = 0 /\ 2 - 1 = 1 /\ 3 - 1 = 2
  OBVIOUS
<1>7. PlanOf(0) = <<>>
  BY <1>1
<1>8. \A n \in 0 .. 3 : PlanOf(n) \in Seq(Services) /\ CompensationPlan(First(n)) = PlanOf(n)
  BY <1>2, <1>4, <1>6, Zenon
<1>9. \A n \in 1 .. 3 : /\ PlanOf(n) # <<>>
                        /\ Head(PlanOf(n)) = ReserveOrder[n]
                        /\ Tail(PlanOf(n)) = PlanOf(n - 1)
  <2> TAKE n \in 1 .. 3
  <2>1. CASE n = 1
    BY ONLY <1>0, <1>5, <2>1, OrderLemma, Zenon
  <2>2. CASE n = 2
    BY ONLY <1>0, <1>5, <2>2, OrderLemma, Zenon
  <2>3. CASE n = 3
    BY ONLY <1>0, <1>5, <2>3, OrderLemma, Zenon
  <2> QED
    BY ONLY <1>0, <2>1, <2>2, <2>3, n \in 1 .. 3, Zenon
<1> QED
  BY <1>7, <1>8, <1>9, Zenon
-----------------------------------------------------------------------------
(* Holds(b): the services that have a reservation of b; Lost(b): those     *)
(* that a dead letter reports. While b reserves, it holds what the locals  *)
(* say; while it compensates, what is still to be cancelled or was lost.   *)
Holds(b) == {s \in Services : b \in reservations[s]}
Lost(b) == {s \in Services : <<b, s>> \in deadLetters}

Fits(b) ==
    /\ booking[b].at # "done" => booking[b].reply = "none"
    /\ booking[b].at = "reserve" =>
           booking[b].held = First(booking[b].k - 1) /\ Holds(b) = booking[b].held
           /\ Lost(b) = {}
    /\ booking[b].at = "pay" =>
           booking[b].held = Services /\ Holds(b) = Services /\ Lost(b) = {}
    /\ booking[b].at = "compensate" =>
           \E n \in 1 .. 3 : /\ booking[b].plan = PlanOf(n)
                             /\ Holds(b) = First(n) \cup Lost(b)
                             /\ Lost(b) \cap First(n) = {}
    /\ booking[b].at = "done" =>
           \/ booking[b].reply = "CONFIRMED" /\ Holds(b) = Services /\ Lost(b) = {}
           \/ booking[b].reply = "COMPENSATING" /\ Holds(b) = Lost(b)

CompInv == CompTypeOK /\ \A b \in Bookings : Fits(b)

LEMMA CompInit == Init => CompInv
<1> SUFFICES ASSUME Init PROVE CompInv
  OBVIOUS
<1>1. CompTypeOK
  BY DEF Init, CompTypeOK, BookingState
<1>2. ASSUME NEW b \in Bookings PROVE Fits(b)
  <2>1. /\ booking[b].at = "reserve" /\ booking[b].k = 1 /\ booking[b].held = {}
        /\ booking[b].reply = "none"
        /\ Holds(b) = {} /\ Lost(b) = {}
    BY DEF Init, Holds, Lost
  <2> QED
    BY <2>1, OrderLemma DEF Fits
<1> QED
  BY <1>1, <1>2 DEF CompInv

(* A step of b moves nothing of the other executions.                      *)
OthersKept(b) ==
    \A c \in Bookings \ {b} :
        booking'[c] = booking[c] /\ Holds(c)' = Holds(c) /\ Lost(c)' = Lost(c)

(* What Compensating does, n compensations being left.                     *)
LEMMA CompensatingStep ==
    ASSUME CompTypeOK, NEW b \in Bookings, NEW n \in 0 .. 3, Compensating(b, PlanOf(n))
    PROVE  /\ booking' \in [Bookings -> BookingState]
           /\ \A c \in Bookings \ {b} : booking'[c] = booking[c]
           /\ n = 0 => booking'[b].at = "done" /\ booking'[b].reply = "COMPENSATING"
           /\ n # 0 => /\ booking'[b].at = "compensate" /\ booking'[b].plan = PlanOf(n)
                       /\ booking'[b].reply = booking[b].reply
<1>1. booking \in [Bookings -> BookingState] /\ PlanOf(n) \in Seq(Services)
  BY PlanLemma DEF CompTypeOK
<1> DEFINE ended == [booking[b] EXCEPT !.at = "done", !.plan = PlanOf(n),
                                       !.reply = "COMPENSATING"]
           going == [booking[b] EXCEPT !.at = "compensate", !.plan = PlanOf(n)]
<1>2. /\ ended \in BookingState /\ ended.at = "done" /\ ended.reply = "COMPENSATING"
      /\ going \in BookingState /\ going.at = "compensate" /\ going.plan = PlanOf(n)
      /\ going.reply = booking[b].reply
  BY <1>1 DEF BookingState
<1>3. /\ n = 0 => booking' = [booking EXCEPT ![b] = ended]
      /\ n # 0 => booking' = [booking EXCEPT ![b] = going]
  <2>1. CASE PlanOf(n) = <<>>
    <3>1. n = 0
      BY <2>1, PlanLemma
    <3>2. booking' = [booking EXCEPT ![b].at = "done", ![b].plan = PlanOf(n),
                                     ![b].reply = "COMPENSATING"]
      BY <2>1 DEF Compensating
    <3> QED
      BY <3>1, <3>2
  <2>2. CASE PlanOf(n) # <<>>
    <3>1. n # 0
      BY <2>2, PlanLemma
    <3>2. booking' = [booking EXCEPT ![b].at = "compensate", ![b].plan = PlanOf(n)]
      BY <2>2 DEF Compensating
    <3> QED
      BY <3>1, <3>2
  <2> QED
    BY <2>1, <2>2
<1> HIDE DEF ended, going
<1>4. CASE n = 0
  <2>1. booking' \in [Bookings -> BookingState] /\ booking'[b] = ended
    BY <1>1, <1>2, <1>3, <1>4
  <2> QED
    BY <1>1, <1>2, <1>3, <1>4, <2>1
<1>5. CASE n # 0
  <2>1. booking' \in [Bookings -> BookingState] /\ booking'[b] = going
    BY <1>1, <1>2, <1>3, <1>5
  <2> QED
    BY <1>1, <1>2, <1>3, <1>5, <2>1
<1> QED
  BY <1>4, <1>5

(* What each call does to the reservations and the dead letters.           *)
LEMMA ReserveStep ==
    ASSUME CompInv, NEW b \in Bookings, Reserve(b)
    PROVE  /\ CompTypeOK' /\ Fits(b)' /\ OthersKept(b) /\ Lost(b)' = Lost(b)
           /\ booking[b].at = "reserve"
           /\ \/ /\ booking'[b].reply = "none"
                 /\ \E s \in Services : s \notin Holds(b) /\ Holds(b)' = Holds(b) \cup {s}
              \/ Holds(b)' = Holds(b)
<1> DEFINE k == booking[b].k
           s == ReserveOrder[k]
<1>1. /\ booking \in [Bookings -> BookingState]
      /\ reservations \in [Services -> SUBSET Bookings]
      /\ deadLetters \subseteq Bookings \X Services
      /\ booking[b].at = "reserve" /\ booking[b].reply = "none" /\ k \in 1 .. 3
      /\ booking[b].held = First(k - 1) /\ Holds(b) = First(k - 1) /\ Lost(b) = {}
      /\ UNCHANGED deadLetters
  BY DEF CompInv, CompTypeOK, Fits, Reserve, BookingState
<1>2. First(k) = First(k - 1) \cup {s} /\ s \in Services /\ s \notin First(k - 1)
      /\ (s = "car" <=> k = 3)
  BY <1>1, OrderLemma
<1>3. \A c \in Bookings : Lost(c)' = Lost(c)
  BY <1>1 DEF Lost
<1>4. CASE /\ reservations' = [reservations EXCEPT ![s] = @ \cup {b}]
           /\ booking' = [booking EXCEPT ![b].held = @ \cup {s},
                                         ![b].at = IF s = "car" THEN "pay" ELSE @,
                                         ![b].k = IF s = "car" THEN @ ELSE @ + 1]
  <2>1. /\ booking'[b].held = First(k)
        /\ booking'[b].at = IF k = 3 THEN "pay" ELSE "reserve"
        /\ booking'[b].k = IF k = 3 THEN k ELSE k + 1
        /\ booking'[b].reply = "none"
        /\ booking'[b].plan = booking[b].plan
        /\ \A c \in Bookings \ {b} : booking'[c] = booking[c]
    BY <1>1, <1>2, <1>4 DEF BookingState
  <2>2. reservations' \in [Services -> SUBSET Bookings]
    BY <1>1, <1>2, <1>4
  <2>3. Holds(b)' = First(k) /\ \A c \in Bookings \ {b} : Holds(c)' = Holds(c)
    BY <1>1, <1>2, <1>4 DEF Holds
  <2>4. booking' \in [Bookings -> BookingState]
    <3>1. /\ First(k) \in SUBSET Services
          /\ (IF s = "car" THEN "pay" ELSE booking[b].at) \in {"reserve", "pay"}
          /\ (IF s = "car" THEN k ELSE k + 1) \in 1 .. 3
      BY <1>1, <1>2, <2>3 DEF Holds
    <3> HIDE DEF k, s
    <3> QED
      BY <1>1, <1>2, <1>4, <3>1 DEF BookingState, k
  <2>5. Fits(b)'
    <3>1. CASE k = 3
      <4>1. First(k) = Services
        BY <3>1, OrderLemma
      <4> QED
        BY <1>1, <1>3, <2>1, <2>3, <3>1, <4>1 DEF Fits
    <3>2. CASE k # 3
      BY <1>1, <1>3, <2>1, <2>3, <3>2 DEF Fits
    <3> QED
      BY <3>1, <3>2
  <2> QED
    BY <1>1, <1>2, <1>3, <2>1, <2>2, <2>3, <2>4, <2>5 DEF CompTypeOK, OthersKept
<1>5. CASE Compensating(b, CompensationPlan(booking[b].held)) /\ UNCHANGED reservations
  <2>1. Compensating(b, PlanOf(k - 1)) /\ k - 1 \in 0 .. 3
    BY <1>1, <1>5, PlanLemma
  <2>2. \A c \in Bookings : Holds(c)' = Holds(c)
    BY <1>5 DEF Holds
  <2>3. /\ booking' \in [Bookings -> BookingState]
        /\ \A c \in Bookings \ {b} : booking'[c] = booking[c]
        /\ k - 1 = 0 => booking'[b].at = "done" /\ booking'[b].reply = "COMPENSATING"
        /\ k - 1 # 0 => /\ booking'[b].at = "compensate" /\ booking'[b].plan = PlanOf(k - 1)
                        /\ booking'[b].reply = booking[b].reply
    BY <2>1, CompensatingStep DEF CompInv
  <2>4. Fits(b)'
    <3>1. CASE k - 1 = 0
      BY <1>1, <1>3, <2>2, <2>3, <3>1, OrderLemma DEF Fits
    <3>2. CASE k - 1 # 0
      <4>1. k - 1 \in 1 .. 3
        BY <1>1, <3>2
      <4> QED
        BY <1>1, <1>3, <2>2, <2>3, <3>2, <4>1 DEF Fits
    <3> QED
      BY <3>1, <3>2
  <2> QED
    BY <1>1, <1>3, <1>5, <2>2, <2>3, <2>4 DEF CompTypeOK, OthersKept
<1> QED
  BY <1>4, <1>5 DEF Reserve

LEMMA PayStep ==
    ASSUME CompInv, NEW b \in Bookings, Pay(b)
    PROVE  /\ CompTypeOK' /\ Fits(b)' /\ OthersKept(b)
           /\ booking[b].at = "pay"
           /\ Holds(b)' = Holds(b) /\ Lost(b)' = Lost(b)
<1>1. /\ booking \in [Bookings -> BookingState]
      /\ booking[b].at = "pay" /\ booking[b].reply = "none"
      /\ booking[b].held = Services /\ Holds(b) = Services /\ Lost(b) = {}
      /\ UNCHANGED <<reservations, deadLetters>>
  BY DEF CompInv, CompTypeOK, Fits, Pay
<1>2. \A c \in Bookings : Holds(c)' = Holds(c) /\ Lost(c)' = Lost(c)
  BY <1>1 DEF Holds, Lost
<1>3. CASE booking' = [booking EXCEPT ![b].at = "done", ![b].reply = "CONFIRMED"]
  <2>1. /\ booking'[b].at = "done" /\ booking'[b].reply = "CONFIRMED"
        /\ \A c \in Bookings \ {b} : booking'[c] = booking[c]
        /\ booking' \in [Bookings -> BookingState]
    BY <1>1, <1>3 DEF BookingState
  <2> QED
    BY <1>1, <1>2, <2>1 DEF Fits, CompInv, CompTypeOK, OthersKept
<1>4. CASE Compensating(b, CompensationPlan(booking[b].held))
  <2>1. Compensating(b, PlanOf(3)) /\ First(3) = Services
    BY <1>1, <1>4, PlanLemma, OrderLemma
  <2>2. /\ booking'[b].at = "compensate" /\ booking'[b].plan = PlanOf(3)
        /\ booking'[b].reply = "none"
        /\ \A c \in Bookings \ {b} : booking'[c] = booking[c]
        /\ booking' \in [Bookings -> BookingState]
    BY <1>1, <2>1, CompensatingStep DEF CompInv
  <2> QED
    BY <1>1, <1>2, <2>1, <2>2 DEF Fits, CompInv, CompTypeOK, OthersKept
<1> QED
  BY <1>3, <1>4 DEF Pay

LEMMA CancelStep ==
    ASSUME CompInv, NEW b \in Bookings, Cancel(b)
    PROVE  /\ CompTypeOK' /\ Fits(b)' /\ OthersKept(b)
           /\ booking[b].at = "compensate"
           /\ \E n \in 1 .. 3 :
                  /\ Holds(b) = First(n) \cup Lost(b)
                  /\ Lost(b) \cap First(n) = {}
                  /\ \/ /\ Holds(b)' = Holds(b) \ {ReserveOrder[n]}
                        /\ Lost(b)' = Lost(b)
                     \/ /\ Lost(b)' = Lost(b) \cup {ReserveOrder[n]}
                        /\ Holds(b)' = Holds(b)
<1>1. /\ booking \in [Bookings -> BookingState]
      /\ reservations \in [Services -> SUBSET Bookings]
      /\ deadLetters \subseteq Bookings \X Services
      /\ booking[b].at = "compensate" /\ booking[b].reply = "none"
  BY DEF CompInv, CompTypeOK, Fits, Cancel
<1>2. PICK n \in 1 .. 3 : /\ booking[b].plan = PlanOf(n)
                          /\ Holds(b) = First(n) \cup Lost(b)
                          /\ Lost(b) \cap First(n) = {}
  BY <1>1 DEF CompInv, Fits
<1> DEFINE s == ReserveOrder[n]
<1>3. /\ Head(booking[b].plan) = s /\ Tail(booking[b].plan) = PlanOf(n - 1)
      /\ n - 1 \in 0 .. 3
      /\ First(n) = First(n - 1) \cup {s} /\ s \in Services /\ s \notin First(n - 1)
  BY <1>2, PlanLemma, OrderLemma
<1>4. Compensating(b, PlanOf(n - 1))
  BY <1>3 DEF Cancel
<1>5. /\ booking' \in [Bookings -> BookingState]
      /\ \A c \in Bookings \ {b} : booking'[c] = booking[c]
      /\ n - 1 = 0 => booking'[b].at = "done" /\ booking'[b].reply = "COMPENSATING"
      /\ n - 1 # 0 => /\ booking'[b].at = "compensate" /\ booking'[b].plan = PlanOf(n - 1)
                      /\ booking'[b].reply = "none"
  BY <1>1, <1>3, <1>4, CompensatingStep DEF CompInv
<1>6. /\ CompTypeOK'
      /\ \A c \in Bookings \ {b} : Holds(c)' = Holds(c) /\ Lost(c)' = Lost(c)
      /\ \/ Holds(b)' = Holds(b) \ {s} /\ Lost(b)' = Lost(b)
         \/ Lost(b)' = Lost(b) \cup {s} /\ Holds(b)' = Holds(b)
  <2>1. CASE /\ reservations' = [reservations EXCEPT ![s] = @ \ {b}]
             /\ UNCHANGED deadLetters
    BY <1>1, <1>3, <1>5, <2>1 DEF CompTypeOK, Holds, Lost
  <2>2. CASE /\ deadLetters' = deadLetters \cup {<<b, s>>}
             /\ UNCHANGED reservations
    BY <1>1, <1>3, <1>5, <2>2 DEF CompTypeOK, Holds, Lost
  <2> QED
    BY <1>3, <2>1, <2>2 DEF Cancel
<1>7. /\ Holds(b)' = First(n - 1) \cup Lost(b)'
      /\ Lost(b)' \cap First(n - 1) = {}
  BY <1>2, <1>3, <1>6
<1>8. Fits(b)'
  <2>1. CASE n - 1 = 0
    BY <1>5, <1>7, <2>1, OrderLemma DEF Fits
  <2>2. CASE n - 1 # 0
    <3>1. n - 1 \in 1 .. 3
      BY <1>3, <2>2
    <3> QED
      BY <1>5, <1>7, <2>2, <3>1 DEF Fits
  <2> QED
    BY <2>1, <2>2
<1> QED
  BY <1>1, <1>2, <1>5, <1>6, <1>8 DEF OthersKept

LEMMA OthersFit ==
    ASSUME CompInv, NEW b \in Bookings, OthersKept(b), CompTypeOK', Fits(b)'
    PROVE  CompInv'
<1>1. ASSUME NEW c \in Bookings, c # b
      PROVE  Fits(c)'
  <2>1. booking'[c] = booking[c] /\ Holds(c)' = Holds(c) /\ Lost(c)' = Lost(c)
    BY <1>1 DEF OthersKept
  <2>2. Fits(c)
    BY DEF CompInv
  <2> QED
    BY <2>1, <2>2 DEF Fits
<1> QED
  BY <1>1 DEF CompInv

LEMMA CompStep == CompInv /\ [Next]_tvars => CompInv'
<1> SUFFICES ASSUME CompInv, [Next]_tvars
             PROVE  CompInv'
  OBVIOUS
<1>1. ASSUME NEW b \in Bookings, Reserve(b) \/ Pay(b) \/ Cancel(b)
      PROVE  CompInv'
  BY <1>1, ReserveStep, PayStep, CancelStep, OthersFit
<1>2. CASE UNCHANGED tvars
  BY <1>2 DEF tvars, CompInv, CompTypeOK, Fits, Holds, Lost
<1> QED
  BY <1>1, <1>2 DEF Next

LEMMA CompInvariance == Spec => []CompInv
BY CompInit, CompStep, PTL DEF Spec

(* The locals of an execution, the maps of the services and the dead       *)
(* letters keep their types.                                               *)
THEOREM CompTypesOK == Spec => []CompTypeOK
<1>1. CompInv => CompTypeOK
  BY DEF CompInv
<1> QED
  BY <1>1, CompInvariance, PTL
-----------------------------------------------------------------------------
(* An execution that gave up holds nothing in silence, whichever of its    *)
(* calls reject: what a service still holds for it is a dead letter.       *)
THEOREM NothingIsLeftBehind == Spec => []NothingLeftBehind
<1>1. CompInv => NothingLeftBehind
  <2> SUFFICES ASSUME CompInv, NEW b \in Bookings, NEW s \in Services,
                      booking[b].reply = "COMPENSATING", b \in reservations[s]
               PROVE  <<b, s>> \in deadLetters
    BY DEF NothingLeftBehind
  <2>1. Holds(b) = Lost(b)
    BY DEF CompInv, Fits
  <2> QED
    BY <2>1 DEF Holds, Lost
<1> QED
  BY <1>1, CompInvariance, PTL

(* A reservation is cancelled only when all later ones of its booking are  *)
(* cancelled or given up: what is still planned is what came before.       *)
THEOREM CompensationIsReversed == Spec => ReverseOrder
<1>1. CompInv /\ [Next]_tvars =>
          [\A b \in Bookings, i, j \in 1 .. 3 :
              /\ i < j
              /\ b \in reservations[ReserveOrder[i]]
              /\ b \notin reservations'[ReserveOrder[i]]
              => \/ b \notin reservations[ReserveOrder[j]]
                 \/ <<b, ReserveOrder[j]>> \in deadLetters]_tvars
  <2> SUFFICES ASSUME CompInv, Next, NEW b \in Bookings, NEW i \in 1 .. 3, NEW j \in 1 .. 3,
                      i < j, b \in reservations[ReserveOrder[i]],
                      b \notin reservations'[ReserveOrder[i]],
                      b \in reservations[ReserveOrder[j]]
               PROVE  <<b, ReserveOrder[j]>> \in deadLetters
    OBVIOUS
  <2>1. /\ ReserveOrder[i] \in Services /\ ReserveOrder[j] \in Services
        /\ ReserveOrder[i] \in Holds(b) /\ ReserveOrder[i] \notin Holds(b)'
        /\ ReserveOrder[j] \in Holds(b)
    BY OrderLemma DEF Holds
  <2>2. Cancel(b)
    <3>1. PICK c \in Bookings : Reserve(c) \/ Pay(c) \/ Cancel(c)
      BY DEF Next
    <3>2. c = b
      BY <2>1, <3>1, ReserveStep, PayStep, CancelStep DEF OthersKept
    <3> QED
      BY <2>1, <3>1, <3>2, ReserveStep, PayStep
  <2>3. PICK n \in 1 .. 3 : /\ Holds(b) = First(n) \cup Lost(b)
                            /\ ReserveOrder[i] \notin Holds(b) \ {ReserveOrder[n]}
    BY <2>1, <2>2, CancelStep
  <2>4. ReserveOrder[i] = ReserveOrder[n]
    BY <2>1, <2>3
  <2>5. n = i
    BY <2>4, OrderLemma
  <2>6. ReserveOrder[j] \notin First(n)
    BY <2>5, OrderLemma DEF First
  <2> QED
    BY <2>1, <2>3, <2>6 DEF Lost
<1> QED
  BY <1>1, CompInvariance, PTL DEF Spec, ReverseOrder
-----------------------------------------------------------------------------
(* The executions implement CompensationPromise: held and givenUp are what *)
(* Holds and Lost say, and a booking is open until it is answered.         *)
Outcome(b) == IF booking[b].reply = "none" THEN "open" ELSE booking[b].reply

HeldNow == [b \in Bookings |-> Holds(b)]
GivenUpNow == [b \in Bookings |-> Lost(b)]
OutcomeNow == [b \in Bookings |-> Outcome(b)]

(* A step of b that is not over changes the outcome of b at most, and ends *)
(* b only with nothing held but what was given up, or with everything.     *)
Settled(b) ==
    \/ UNCHANGED OutcomeNow
    \/ /\ HeldNow'[b] = Services /\ GivenUpNow'[b] = {}
       /\ OutcomeNow' = [OutcomeNow EXCEPT ![b] = "CONFIRMED"]
    \/ /\ HeldNow'[b] = GivenUpNow'[b]
       /\ OutcomeNow' = [OutcomeNow EXCEPT ![b] = "COMPENSATING"]

LEMMA SettleStep ==
    ASSUME CompInv, NEW b \in Bookings, OthersKept(b), Fits(b)', booking[b].at # "done"
    PROVE  OutcomeNow[b] = "open" /\ Settled(b)
<1>1. Outcome(b) = "open"
  BY DEF CompInv, Fits, Outcome
<1>2. /\ \A c \in Bookings \ {b} : Outcome(c)' = Outcome(c)
      /\ OutcomeNow' = [c \in Bookings |-> Outcome(c)']
      /\ HeldNow'[b] = Holds(b)' /\ GivenUpNow'[b] = Lost(b)'
  BY DEF OthersKept, Outcome, OutcomeNow, HeldNow, GivenUpNow
<1>3. CASE booking'[b].at # "done"
  <2>1. Outcome(b)' = Outcome(b)
    BY <1>3 DEF CompInv, Fits, Outcome
  <2> QED
    BY <1>1, <1>2, <2>1 DEF Settled, OutcomeNow
<1>4. CASE booking'[b].at = "done" /\ booking'[b].reply = "CONFIRMED"
  <2>1. Outcome(b)' = "CONFIRMED" /\ Holds(b)' = Services /\ Lost(b)' = {}
    BY <1>4 DEF Fits, Outcome
  <2> QED
    BY <1>1, <1>2, <2>1 DEF Settled, OutcomeNow
<1>5. CASE booking'[b].at = "done" /\ booking'[b].reply = "COMPENSATING"
  <2>1. Outcome(b)' = "COMPENSATING" /\ Holds(b)' = Lost(b)'
    BY <1>5 DEF Fits, Outcome
  <2> QED
    BY <1>1, <1>2, <2>1 DEF Settled, OutcomeNow
<1> QED
  BY <1>3, <1>4, <1>5 DEF Fits

LEMMA PromiseStep ==
    ASSUME CompInv, [Next]_tvars
    PROVE  [Promise!Next]_<<HeldNow, GivenUpNow, OutcomeNow>>
<1>1. ASSUME NEW b \in Bookings, Reserve(b) \/ Pay(b), UNCHANGED HeldNow
      PROVE  Promise!Next
  <2>1. /\ Fits(b)' /\ OthersKept(b) /\ Lost(b)' = Lost(b) /\ booking[b].at # "done"
    BY <1>1, ReserveStep, PayStep
  <2>2. UNCHANGED GivenUpNow
    BY <2>1 DEF OthersKept, GivenUpNow
  <2>3. OutcomeNow[b] = "open" /\ Settled(b)
    BY <2>1, SettleStep
  <2>4. Promise!End(b)
    BY <1>1, <2>2, <2>3 DEF Promise!End, Promise!Settle, Settled, HeldNow, GivenUpNow,
       OutcomeNow, Holds, Lost, Outcome
  <2> QED
    BY <2>3, <2>4 DEF Promise!Next, OutcomeNow, Outcome
<1>2. ASSUME NEW b \in Bookings, Reserve(b), HeldNow' # HeldNow
      PROVE  Promise!Next
  <2>1. /\ Fits(b)' /\ OthersKept(b) /\ Lost(b)' = Lost(b) /\ booking[b].at # "done"
        /\ Holds(b)' # Holds(b)
    BY <1>2, ReserveStep DEF OthersKept, HeldNow
  <2>2. PICK s \in Services : s \notin Holds(b) /\ Holds(b)' = Holds(b) \cup {s}
    BY <1>2, <2>1, ReserveStep
  <2>3. /\ s \notin HeldNow[b]
        /\ HeldNow' = [HeldNow EXCEPT ![b] = @ \cup {s}]
        /\ UNCHANGED GivenUpNow
    BY <2>1, <2>2 DEF OthersKept, HeldNow, GivenUpNow
  <2>4. OutcomeNow[b] = "open" /\ UNCHANGED OutcomeNow
    <3>1. booking[b].reply = "none" /\ booking'[b].reply = "none"
      BY <1>2, <2>1, ReserveStep DEF CompInv, Fits
    <3> QED
      BY <2>1, <3>1 DEF OthersKept, OutcomeNow, Outcome
  <2>5. Promise!Obtain(b, s)
    BY <2>3, <2>4 DEF Promise!Obtain, HeldNow, GivenUpNow, OutcomeNow, Holds, Lost, Outcome
  <2> QED
    BY <2>4, <2>5 DEF Promise!Next, OutcomeNow, Outcome
<1>3. ASSUME NEW b \in Bookings, Cancel(b)
      PROVE  Promise!Next
  <2>1. Fits(b)' /\ OthersKept(b) /\ booking[b].at # "done"
    BY <1>3, CancelStep
  <2>2. PICK n \in 1 .. 3 :
            /\ Holds(b) = First(n) \cup Lost(b)
            /\ Lost(b) \cap First(n) = {}
            /\ \/ /\ Holds(b)' = Holds(b) \ {ReserveOrder[n]}
                  /\ Lost(b)' = Lost(b)
               \/ /\ Lost(b)' = Lost(b) \cup {ReserveOrder[n]}
                  /\ Holds(b)' = Holds(b)
    BY <1>3, CancelStep
  <2> DEFINE s == ReserveOrder[n]
  <2>3. s \in Services /\ s \in First(n)
    BY OrderLemma
  <2>4. OutcomeNow[b] = "open" /\ Settled(b)
    BY <2>1, SettleStep
  <2>5. s \in HeldNow[b] \ GivenUpNow[b]
    BY <2>2, <2>3 DEF HeldNow, GivenUpNow
  <2>6. \/ HeldNow' = [HeldNow EXCEPT ![b] = @ \ {s}] /\ UNCHANGED GivenUpNow
        \/ GivenUpNow' = [GivenUpNow EXCEPT ![b] = @ \cup {s}] /\ UNCHANGED HeldNow
    BY <2>1, <2>2 DEF OthersKept, HeldNow, GivenUpNow
  <2> HIDE DEF s
  <2>7. Promise!Return(b, s) \/ Promise!GiveUp(b, s)
    BY <2>4, <2>5, <2>6 DEF Promise!Return, Promise!GiveUp, Promise!Settle, Settled,
       HeldNow, GivenUpNow, OutcomeNow, Holds, Lost, Outcome
  <2> QED
    BY <2>3, <2>4, <2>7 DEF Promise!Next, OutcomeNow, Outcome
<1>4. ASSUME NEW b \in Bookings, Pay(b)
      PROVE  UNCHANGED HeldNow
  BY <1>4, PayStep DEF OthersKept, HeldNow
<1>5. CASE UNCHANGED tvars
  BY <1>5 DEF tvars, HeldNow, GivenUpNow, OutcomeNow, Holds, Lost, Outcome
<1> QED
  BY <1>1, <1>2, <1>3, <1>4, <1>5 DEF Next

(* Whatever rejects, every execution keeps the promise: it ends once,      *)
(* confirmed with everything or compensated but for what it reported.      *)
THEOREM CompensationPromiseIsKept == Spec => KeepsCompensationPromise
<1>1. Init => Promise!Init
  BY DEF Init, Promise!Init
<1>2. CompInv /\ [Next]_tvars =>
          [Promise!Next]_<<[b \in Bookings |-> {s \in Services : b \in reservations[s]}],
                           [b \in Bookings |-> {s \in Services : <<b, s>> \in deadLetters}],
                           [b \in Bookings |-> IF booking[b].reply = "none" THEN "open"
                                               ELSE booking[b].reply]>>
  BY PromiseStep DEF HeldNow, GivenUpNow, OutcomeNow, Holds, Lost, Outcome
<1> QED
  BY <1>1, <1>2, CompInvariance, PTL DEF Spec, KeepsCompensationPromise, Promise!Spec
=============================================================================
