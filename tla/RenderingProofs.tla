-------------------------- MODULE RenderingProofs --------------------------
(***************************************************************************)
(* What goes out to readers, for every list of events, of texts, of groups *)
(* and of attachments: the calendar is one function of its list            *)
(* (RenderedAlike), its lines keep to the limit (LinesFit), its text is    *)
(* read as it was (TextIsRead), and a mail is known again (MailIsFound).   *)
(*                                                                         *)
(* Where the code goes through a sequence, the proof goes through the      *)
(* natural numbers: the set of those for which the claim holds contains 0  *)
(* and goes over from each to the next, so it contains Nat (Induction).    *)
(***************************************************************************)
EXTENDS Rendering, FiniteSetTheorems, SequenceTheorems, FunctionTheorems, TLAPS


(***************************************************************************)
(* Which events are rendered, and in which order (ICalendar).              *)
(***************************************************************************)
(* Of the first n events, those with an identifier that are its latest.    *)
Latest(list, n) ==
  {i \in 1..n :
     /\ list[i].id # 0
     /\ \A j \in 1..n :
          list[j].id = list[i].id =>
            \/ list[j].modified < list[i].modified
            \/ (list[j].modified = list[i].modified /\ j >= i)}

WithoutIDTo(list, n) == {i \in 1..n : list[i].id = 0}

(* A list that has the events at some places in the order of the places.   *)
Lists(all, list, z, places) ==
  /\ z \in [1..Len(list) -> places]
  /\ \A k, l \in 1..Len(list) : k < l => z[k] < z[l]
  /\ \A i \in places : \E k \in 1..Len(list) : z[k] = i
  /\ \A k \in 1..Len(list) : list[k] = all[z[k]]

(* deduplicate reads: the map has the latest of each identifier that has   *)
(* been read and not yet been taken out of it again, the result those that *)
(* have.                                                                   *)
MapSound ==
  /\ \A id \in DOMAIN byID : \E i \in Latest(events, index - 1) : events[i].id = id /\ byID[id] = events[i]
  /\ \A k \in DOMAIN result : \E i \in Latest(events, index - 1) : result[k] = events[i]
  /\ \A k, l \in DOMAIN result : result[k].id = result[l].id => k = l
  /\ \A i \in 1..index - 1 :
       events[i].id # 0 =>
         (events[i].id \in DOMAIN byID <=> \A k \in DOMAIN result : result[k].id # events[i].id)

(* A list that has the kept events, those without an identifier in their   *)
(* order.                                                                  *)
Arranges(all, kept, list, p) ==
  /\ p \in [1..Len(list) -> kept]
  /\ \A k, l \in 1..Len(list) : p[k] = p[l] => k = l
  /\ \A i \in kept : \E k \in 1..Len(list) : p[k] = i
  /\ \A k \in 1..Len(list) : list[k] = all[p[k]]
  /\ \A k, l \in 1..Len(list) : k < l /\ list[k].id = 0 /\ list[l].id = 0 => p[k] < p[l]

CalendarInv ==
  /\ events \in Seq(Event) /\ result \in Seq(Event) /\ withoutID \in Seq(Event)
  /\ index \in 1..Len(events) + 1
  /\ phase \in {"collect", "iterate", "sort", "write", "done", "failed"}
  /\ phase \in {"collect", "iterate"} =>
       MapSound /\ \E z : Lists(events, withoutID, z, WithoutIDTo(events, index - 1))
  /\ phase = "collect" => result = <<>>
  /\ phase = "iterate" => index = Len(events) + 1
  /\ phase = "sort" => \E p : Arranges(events, Kept, result, p)
  /\ phase = "write" => IsRendering(result) /\ \A k \in DOMAIN result : \E i \in Kept : result[k] = events[i]
  /\ RenderedOnce

LEMMA KeptIs == ASSUME events \in Seq(Event)
                PROVE Kept = Latest(events, Len(events)) \cup WithoutIDTo(events, Len(events))
                      /\ Kept \subseteq 1..Len(events)
                      /\ IsFiniteSet(Kept)
<1>1. DOMAIN events = 1..Len(events)
  OBVIOUS
<1>2. Kept = Latest(events, Len(events)) \cup WithoutIDTo(events, Len(events))
  BY <1>1 DEF Kept, Listed, Latest, WithoutIDTo
<1>3. Kept \subseteq 1..Len(events)
  BY <1>2 DEF Latest, WithoutIDTo
<1>4. IsFiniteSet(1..Len(events))
  BY FS_Interval
<1>5. IsFiniteSet(Kept)
  BY <1>3, <1>4, FS_Subset
<1> QED BY <1>2, <1>3, <1>5

LEMMA LatestOnce ==
  ASSUME events \in Seq(Event), NEW n \in 0..Len(events), NEW i \in Latest(events, n), NEW j \in Latest(events, n),
         events[i].id = events[j].id
  PROVE  i = j
<1>1. i \in 1..n /\ j \in 1..n /\ events[i] \in Event /\ events[j] \in Event
  BY DEF Latest
<1>2. events[i].modified \in Nat /\ events[j].modified \in Nat
  BY <1>1, CalendarAssumption DEF Event
<1> QED BY <1>1, <1>2 DEF Latest

LEMMA CollectOne ==
  ASSUME CalendarInv, Collect
  PROVE  CalendarInv'
<1> PICK n, e : n = index - 1 /\ e = events[index]
  OBVIOUS
<1>1. /\ n \in 0..Len(events) - 1 /\ index = n + 1 /\ index' = index + 1 /\ events' = events
      /\ e \in Event /\ phase = "collect" /\ phase' = phase /\ result = <<>> /\ result' = <<>>
  BY DEF Collect, CalendarInv
<1>2. MapSound /\ \E z : Lists(events, withoutID, z, WithoutIDTo(events, n))
  BY <1>1 DEF CalendarInv
<1>3. \A i \in 1..n : events[i].id \in Nat /\ events[i].modified \in Nat
  <2>1. \A i \in 1..n : events[i] \in Event
    BY <1>1 DEF CalendarInv
  <2> QED BY <2>1, CalendarAssumption DEF Event
<1>4. e.id \in Nat /\ e.modified \in Nat
  BY <1>1, CalendarAssumption DEF Event
<1>5. CASE e.id = 0
  <2>1. withoutID' = Append(withoutID, e) /\ byID' = byID
    BY <1>5 DEF Collect
  <2>2. Latest(events, n + 1) = Latest(events, n)
    BY <1>1, <1>5 DEF Latest
  <2>3. MapSound'
    BY <1>1, <1>2, <2>1, <2>2, <1>5 DEF MapSound
  <2>4. \E z : Lists(events, withoutID', z, WithoutIDTo(events, n + 1))
    <3>1. PICK z : Lists(events, withoutID, z, WithoutIDTo(events, n))
      BY <1>2
    <3> DEFINE m == Len(withoutID)
               y == [k \in 1..m + 1 |-> IF k = m + 1 THEN n + 1 ELSE z[k]]
    <3>2. /\ m \in Nat /\ Len(withoutID') = m + 1 /\ withoutID'[m + 1] = e
          /\ \A k \in 1..m : withoutID'[k] = withoutID[k]
      BY <2>1, <1>1 DEF CalendarInv
    <3>3. WithoutIDTo(events, n + 1) = WithoutIDTo(events, n) \cup {n + 1}
      BY <1>1, <1>5 DEF WithoutIDTo
    <3>4. WithoutIDTo(events, n) \subseteq 1..n
      BY DEF WithoutIDTo
    <3>5. Lists(events, withoutID', y, WithoutIDTo(events, n + 1))
      <4>1. z \in [1..m -> WithoutIDTo(events, n)]
        BY <3>1 DEF Lists
      <4>2. y \in [1..m + 1 -> WithoutIDTo(events, n + 1)]
        BY <3>2, <3>3, <4>1
      <4>3. \A k, l \in 1..m + 1 : k < l => y[k] < y[l]
        <5>1. \A k \in 1..m : z[k] \in 1..n
          BY <3>4, <4>1
        <5>2. \A k, l \in 1..m : k < l => z[k] < z[l]
          BY <3>1 DEF Lists
        <5>3. \A k \in 1..m : y[k] = z[k] /\ y[k] < n + 1
          BY <1>1, <3>2, <5>1
        <5>4. y[m + 1] = n + 1
          BY <3>2
        <5> HIDE DEF y
        <5> QED BY <3>2, <5>2, <5>3, <5>4
      <4>4. \A i \in WithoutIDTo(events, n + 1) : \E k \in 1..m + 1 : y[k] = i
        BY <3>1, <3>2, <3>3 DEF Lists
      <4>5. \A k \in 1..m + 1 : withoutID'[k] = events[y[k]]
        BY <1>1, <3>1, <3>2 DEF Lists
      <4> HIDE DEF y
      <4> QED BY <3>2, <4>2, <4>3, <4>4, <4>5 DEF Lists
    <3> QED BY <3>5
  <2>5. withoutID' \in Seq(Event)
    BY <2>1, <1>1 DEF CalendarInv
  <2> QED BY <1>1, <2>3, <2>4, <2>5 DEF CalendarInv, RenderedOnce
<1>6. CASE e.id # 0
  <2>1. withoutID' = withoutID
        /\ byID' = IF e.id \notin DOMAIN byID \/ Supersedes(e, byID[e.id]) THEN Put(byID, e) ELSE byID
    BY <1>6 DEF Collect
  <2>2. WithoutIDTo(events, n + 1) = WithoutIDTo(events, n)
    BY <1>1, <1>6 DEF WithoutIDTo
  <2>3. MapSound'
    <3>1. CASE e.id \notin DOMAIN byID
      <4>1. Latest(events, n + 1) = Latest(events, n) \cup {n + 1}
        BY <1>1, <1>2, <1>3, <3>1, <1>6 DEF Latest, MapSound
      <4>2. byID' = Put(byID, e)
        BY <2>1, <3>1
      <4> QED BY <1>1, <1>2, <1>6, <4>1, <4>2 DEF MapSound, Put
    <3>2. CASE e.id \in DOMAIN byID
      <4>1. PICK i \in Latest(events, n) : events[i].id = e.id /\ byID[e.id] = events[i]
        BY <3>2, <1>2 DEF MapSound
      <4>2. i \in 1..n
        BY <4>1 DEF Latest
      <4>3. CASE Supersedes(e, byID[e.id])
        <5>1. byID' = Put(byID, e)
          BY <2>1, <4>3
        <5>2. Latest(events, n + 1) = (Latest(events, n) \ {i}) \cup {n + 1}
          <6>1. \A j \in 1..n : events[j].id = e.id => events[j].modified <= events[i].modified
            BY <1>3, <4>1, <4>2 DEF Latest
          <6>2. n + 1 \in Latest(events, n + 1) /\ i \notin Latest(events, n + 1)
            <7>1. e.modified > events[i].modified /\ events[n + 1] = e
              BY <1>1, <4>1, <4>3 DEF Supersedes
            <7>2. i \notin Latest(events, n + 1)
              <8>1. n + 1 \in 1..n + 1 /\ events[n + 1].id = events[i].id
                BY <1>1, <4>1, <7>1
              <8>2. ~(events[n + 1].modified < events[i].modified) /\ events[n + 1].modified # events[i].modified
                BY <1>3, <1>4, <4>2, <7>1
              <8> QED BY <8>1, <8>2, Zenon DEF Latest
            <7>3. ASSUME NEW j \in 1..n + 1, events[j].id = e.id, j # n + 1 PROVE events[j].modified < e.modified
              <8>1. j \in 1..n
                BY <1>1, <7>3
              <8>2. events[j].modified \in Nat /\ events[i].modified \in Nat /\ events[j].modified <= events[i].modified
                BY <1>3, <4>2, <6>1, <7>3, <8>1
              <8> QED BY <1>4, <7>1, <8>2
            <7>4. n + 1 \in Latest(events, n + 1)
              BY <1>1, <1>4, <1>6, <7>1, <7>3 DEF Latest
            <7> QED BY <7>2, <7>4
          <6>3. \A j \in 1..n : j \in Latest(events, n + 1) => j \in Latest(events, n)
            BY <1>1 DEF Latest
          <6>4. ASSUME NEW j \in Latest(events, n), events[j].id = e.id PROVE j = i
            <7>1. events \in Seq(Event) /\ n \in 0..Len(events) /\ events[i].id = events[j].id
              BY <1>1, <4>1, <6>4 DEF CalendarInv
            <7> QED BY <4>1, <7>1, LatestOnce, Zenon
          <6>5. \A j \in Latest(events, n) : j # i => j \in Latest(events, n + 1)
            BY <1>1, <6>4 DEF Latest
          <6>6. Latest(events, n + 1) \subseteq 1..n + 1 /\ Latest(events, n) \subseteq 1..n
            BY DEF Latest
          <6> QED BY <1>1, <6>2, <6>3, <6>5, <6>6
        <5>3. \A j \in Latest(events, n) : events[j].id # e.id => j # i
          BY <4>1
        <5> QED BY <1>1, <1>2, <1>6, <3>2, <5>1, <5>2, <5>3 DEF MapSound, Put
      <4>4. CASE ~Supersedes(e, byID[e.id])
        <5>1. byID' = byID
          BY <2>1, <3>2, <4>4
        <5>2. Latest(events, n + 1) = Latest(events, n)
          <6>1. n + 1 \notin Latest(events, n + 1)
            BY <1>1, <1>3, <1>4, <4>1, <4>2, <4>4 DEF Latest, Supersedes
          <6>2. \A j \in 1..n : j \in Latest(events, n + 1) => j \in Latest(events, n)
            BY <1>1 DEF Latest
          <6>3. ASSUME NEW j \in Latest(events, n), events[j].id = e.id PROVE j = i
            <7>1. events \in Seq(Event) /\ n \in 0..Len(events) /\ events[i].id = events[j].id
              BY <1>1, <4>1, <6>3 DEF CalendarInv
            <7> QED BY <4>1, <7>1, LatestOnce, Zenon
          <6>4. i \in Latest(events, n + 1)
            BY <1>1, <1>3, <1>4, <4>1, <4>2, <4>4 DEF Latest, Supersedes
          <6>5. \A j \in Latest(events, n) : j # i => j \in Latest(events, n + 1)
            BY <1>1, <6>3 DEF Latest
          <6>6. Latest(events, n + 1) \subseteq 1..n + 1 /\ Latest(events, n) \subseteq 1..n
            BY DEF Latest
          <6>7. \A j \in 1..n + 1 : j \in Latest(events, n + 1) <=> j \in Latest(events, n)
            BY <1>1, <6>1, <6>2, <6>4, <6>5, <6>6
          <6>8. \A j \in Latest(events, n) : j \in 1..n + 1
            BY <1>1, <6>6
          <6> QED BY <6>6, <6>7, <6>8
        <5> QED BY <1>1, <1>2, <1>6, <3>2, <5>1, <5>2 DEF MapSound
      <4> QED BY <4>3, <4>4
    <3> QED BY <3>1, <3>2
  <2> QED BY <1>1, <1>2, <2>1, <2>2, <2>3 DEF CalendarInv, RenderedOnce
<1> QED BY <1>5, <1>6
LEMMA CollectedOnce ==
  ASSUME CalendarInv, Collected
  PROVE  CalendarInv'
<1>1. /\ index = Len(events) + 1 /\ index' = index /\ events' = events /\ byID' = byID
      /\ withoutID' = withoutID /\ result' = result /\ phase = "collect" /\ phase' = "iterate"
  BY DEF Collected, CalendarInv
<1>2. MapSound'
  BY <1>1 DEF CalendarInv, MapSound
<1> QED BY <1>1, <1>2 DEF CalendarInv, RenderedOnce

LEMMA IterateOne ==
  ASSUME CalendarInv, Iterate
  PROVE  CalendarInv'
<1>1. PICK id \in DOMAIN byID : result' = Append(result, byID[id]) /\ byID' = [i \in DOMAIN byID \ {id} |-> byID[i]]
  BY DEF Iterate
<1>2. /\ index = Len(events) + 1 /\ index' = index /\ events' = events /\ withoutID' = withoutID
      /\ phase = "iterate" /\ phase' = phase /\ MapSound
      /\ events \in Seq(Event) /\ result \in Seq(Event)
      /\ \E z : Lists(events, withoutID, z, WithoutIDTo(events, index - 1))
  BY DEF Iterate, CalendarInv
<1>3. PICK n : n = index - 1
  OBVIOUS
<1>4. PICK i \in Latest(events, n) : events[i].id = id /\ byID[id] = events[i]
  BY <1>2, <1>3 DEF MapSound
<1>5. i \in 1..n /\ n = Len(events) /\ id # 0 /\ events[i] \in Event
  BY <1>2, <1>3, <1>4 DEF Latest
<1>6. /\ result' \in Seq(Event) /\ Len(result') = Len(result) + 1 /\ Len(result) \in Nat
      /\ DOMAIN result = 1..Len(result) /\ DOMAIN result' = 1..Len(result) + 1
      /\ \A k \in 1..Len(result) : result'[k] = result[k]
      /\ result'[Len(result) + 1] = events[i]
  BY <1>1, <1>2, <1>4, <1>5
<1>7. \A k \in 1..Len(result) : result[k].id # id
  BY <1>2, <1>3, <1>4, <1>5, <1>6 DEF MapSound
<1>8. MapSound'
  <2>1. \A d \in DOMAIN byID' : \E j \in Latest(events, n) : events[j].id = d /\ byID'[d] = events[j]
    BY <1>1, <1>2, <1>3 DEF MapSound
  <2>2. \A k \in DOMAIN result' : \E j \in Latest(events, n) : result'[k] = events[j]
    BY <1>2, <1>3, <1>4, <1>6 DEF MapSound
  <2>3. \A k, l \in 1..Len(result) : result[k].id = result[l].id => k = l
    BY <1>2, <1>6 DEF MapSound
  <2>4. \A k, l \in DOMAIN result' : result'[k].id = result'[l].id => k = l
    BY <1>4, <1>6, <1>7, <2>3
  <2>5. ASSUME NEW j \in 1..n, events[j].id # 0
        PROVE  events[j].id \in DOMAIN byID' <=> \A k \in DOMAIN result' : result'[k].id # events[j].id
    <3>1. events[j].id \in DOMAIN byID <=> \A k \in 1..Len(result) : result[k].id # events[j].id
      BY <1>2, <1>3, <1>6, <2>5 DEF MapSound
    <3>2. events[j].id \in DOMAIN byID' <=> events[j].id \in DOMAIN byID /\ events[j].id # id
      BY <1>1
    <3> QED BY <1>4, <1>6, <3>1, <3>2
  <2> QED BY <1>2, <1>3, <2>1, <2>2, <2>4, <2>5 DEF MapSound
<1> QED BY <1>2, <1>6, <1>8 DEF CalendarInv, RenderedOnce

LEMMA IteratedAll ==
  ASSUME CalendarInv, Iterated
  PROVE  CalendarInv'
<1> DEFINE all == events
           n == Len(events)
           r == Len(result)
           w == Len(withoutID)
<1>1. /\ DOMAIN byID = {} /\ result' = result \o withoutID /\ index = n + 1
      /\ index' = index /\ events' = events /\ withoutID' = withoutID /\ phase' = "sort" /\ MapSound
      /\ events \in Seq(Event) /\ result \in Seq(Event) /\ withoutID \in Seq(Event)
  BY DEF Iterated, CalendarInv
<1>2. PICK z : Lists(events, withoutID, z, WithoutIDTo(events, n))
  BY <1>1 DEF CalendarInv, Iterated
<1>3. /\ result' \in Seq(Event) /\ Len(result') = r + w /\ r \in Nat /\ w \in Nat /\ n \in Nat
      /\ \A k \in 1..r : result'[k] = result[k]
      /\ \A k \in 1..w : result'[r + k] = withoutID[k]
  BY <1>1, ConcatProperties
<1>4. Kept = Latest(events, n) \cup WithoutIDTo(events, n)
  BY <1>1, KeptIs
<1>5. \A k \in 1..r : \E i \in Latest(events, n) : result[k] = events[i]
  <2>1. DOMAIN result = 1..r /\ index - 1 = n
    BY <1>1, <1>3
  <2>2. \A k \in DOMAIN result : \E i \in Latest(events, index - 1) : result[k] = events[i]
    BY <1>1, Zenon DEF MapSound
  <2> QED BY <2>1, <2>2, Zenon
<1> DEFINE q == [k \in 1..r |-> CHOOSE i \in Latest(events, n) : result[k] = events[i]]
           p == [k \in 1..r + w |-> IF k <= r THEN q[k] ELSE z[k - r]]
<1>6. \A k \in 1..r : q[k] \in Latest(events, n) /\ result[k] = events[q[k]]
  BY <1>5
<1>7. \A k \in 1..r : p[k] = q[k]
  BY <1>3
<1>8. \A k \in 1..w : p[r + k] = z[k]
  BY <1>3
<1>9. \A k \in 1..r + w : k \in 1..r \/ \E l \in 1..w : k = r + l
  <2>1. \A k \in 1..r + w : k \in 1..r \/ (k - r \in 1..w /\ k = r + (k - r))
    BY <1>3
  <2> QED BY <2>1
<1>10. DOMAIN p = 1..r + w /\ p = [k \in 1..r + w |-> p[k]]
  OBVIOUS
<1> HIDE DEF p, q
<1>11. \A k \in 1..w : z[k] \in WithoutIDTo(events, n) /\ withoutID[k] = events[z[k]]
  BY <1>2 DEF Lists
<1>12. ASSUME NEW k \in 1..r + w
       PROVE  p[k] \in Kept /\ result'[k] = events[p[k]]
  <2>1. CASE k \in 1..r
    BY <1>3, <1>4, <1>6, <1>7, <2>1
  <2>2. CASE k \notin 1..r
    <3>1. PICK l \in 1..w : k = r + l
      BY <1>9, <2>2
    <3> QED BY <1>3, <1>4, <1>8, <1>11, <3>1
  <2> QED BY <2>1, <2>2
<1>13. \A i \in Latest(events, n), j \in WithoutIDTo(events, n) : events[i].id # 0 /\ events[j].id = 0 /\ i # j
  BY DEF Latest, WithoutIDTo
<1>15. \A k, l \in 1..r : result[k].id = result[l].id => k = l
  BY <1>1 DEF MapSound
<1>16. \A k, l \in 1..r + w : p[k] = p[l] => k = l
  <2>1. \A k, l \in 1..r : q[k] = q[l] => k = l
    BY <1>6, <1>15
  <2>2. \A k, l \in 1..w : z[k] = z[l] => k = l
    <3>1. \A k, l \in 1..w : k < l => z[k] < z[l]
      BY <1>2 DEF Lists
    <3>2. \A k \in 1..w : z[k] \in Int
      BY <1>11 DEF WithoutIDTo
    <3> QED BY <3>1, <3>2
  <2> SUFFICES ASSUME NEW k \in 1..r + w, NEW l \in 1..r + w, p[k] = p[l] PROVE k = l
    OBVIOUS
  <2>3. CASE k \in 1..r /\ l \in 1..r
    BY <1>7, <2>1, <2>3
  <2>4. CASE k \in 1..r /\ l \notin 1..r
    <3>1. PICK b \in 1..w : l = r + b
      BY <1>9, <2>4
    <3>2. p[k] = q[k] /\ q[k] \in Latest(events, n)
      BY <1>6, <1>7, <2>4
    <3>3. p[l] = z[b] /\ z[b] \in WithoutIDTo(events, n)
      BY <1>8, <1>11, <3>1
    <3> QED BY <1>13, <3>2, <3>3, Zenon
  <2>5. CASE k \notin 1..r /\ l \in 1..r
    <3>1. PICK a \in 1..w : k = r + a
      BY <1>9, <2>5
    <3>2. p[l] = q[l] /\ q[l] \in Latest(events, n)
      BY <1>6, <1>7, <2>5
    <3>3. p[k] = z[a] /\ z[a] \in WithoutIDTo(events, n)
      BY <1>8, <1>11, <3>1
    <3> QED BY <1>13, <3>2, <3>3, Zenon
  <2>6. CASE k \notin 1..r /\ l \notin 1..r
    <3>1. PICK a \in 1..w, b \in 1..w : k = r + a /\ l = r + b
      BY <1>9, <2>6
    <3> QED BY <1>8, <2>2, <3>1
  <2> QED BY <2>3, <2>4, <2>5, <2>6
<1>17. ASSUME NEW i \in Kept PROVE \E k \in 1..r + w : p[k] = i
  <2>1. CASE i \in Latest(events, n)
    <3>1. i \in 1..n /\ events[i].id # 0
      BY <2>1 DEF Latest
    <3>2. PICK k \in 1..r : result[k].id = events[i].id
      <4>1. index - 1 = n /\ DOMAIN result = 1..r
        BY <1>1, <1>3
      <4>2. events[i].id \in DOMAIN byID <=> \A k \in DOMAIN result : result[k].id # events[i].id
        BY <1>1, <3>1, <4>1 DEF MapSound
      <4> QED BY <1>1, <4>1, <4>2
    <3>3. q[k] \in Latest(events, n) /\ events[q[k]].id = events[i].id /\ n \in 0..Len(events)
      BY <1>3, <1>6, <3>2
    <3>4. q[k] = i
      BY <1>1, <2>1, <3>3, LatestOnce
    <3> QED BY <1>3, <1>7, <3>4
  <2>2. CASE i \in WithoutIDTo(events, n)
    <3>1. PICK k \in 1..w : z[k] = i
      BY <1>2, <2>2 DEF Lists
    <3>2. r + k \in 1..r + w
      BY <1>3
    <3> QED BY <1>8, <3>1, <3>2
  <2> QED BY <1>4, <2>1, <2>2
<1>18. ASSUME NEW k \in 1..r + w, NEW l \in 1..r + w, k < l, result'[k].id = 0, result'[l].id = 0
       PROVE  p[k] < p[l]
  <2>1. k \notin 1..r /\ l \notin 1..r
    <3>1. \A m \in 1..r : result[m].id # 0
      <4> SUFFICES ASSUME NEW m \in 1..r PROVE result[m].id # 0
        OBVIOUS
      <4>1. q[m] \in Latest(events, n) /\ result[m] = events[q[m]]
        BY <1>6
      <4>2. events[q[m]].id # 0
        BY <4>1 DEF Latest
      <4> QED BY <4>1, <4>2, Zenon
    <3>2. \A m \in 1..r : result'[m] = result[m]
      BY <1>3
    <3> QED BY <1>18, <3>1, <3>2, Zenon
  <2>2. PICK a \in 1..w, b \in 1..w : k = r + a /\ l = r + b
    BY <1>9, <2>1
  <2>3. a < b
    BY <1>3, <1>18, <2>2
  <2> QED BY <1>2, <1>8, <2>2, <2>3 DEF Lists
<1>19. Arranges(events, Kept, result', p)
  <2>1. p \in [1..r + w -> Kept]
    BY <1>10, <1>12
  <2> QED BY <1>3, <1>12, <1>16, <1>17, <1>18, <2>1 DEF Arranges
<1>20. Kept' = Kept
  BY <1>1 DEF Kept, Listed
<1> QED BY <1>1, <1>3, <1>19, <1>20 DEF CalendarInv, RenderedOnce

(***************************************************************************)
(* The order of the calendar, and the place of an event in it.             *)
(***************************************************************************)
EarlierOf(all, i, j) ==
  \/ all[i].start < all[j].start
  \/ all[i].start = all[j].start /\ all[i].id < all[j].id
  \/ all[i].start = all[j].start /\ all[i].id = all[j].id /\ i < j

Ahead(all, kept, i) == {j \in kept : EarlierOf(all, j, i)}

(* What stands before a place of a list when it is sorted.                 *)
Preceding(list, k) ==
  {j \in DOMAIN list : Before(list[j], list[k]) \/ (~Before(list[k], list[j]) /\ j < k)}

LEMMA EarlierOrders ==
  ASSUME NEW all \in Seq(Event), NEW i \in 1..Len(all), NEW j \in 1..Len(all), NEW k \in 1..Len(all)
  PROVE  /\ ~EarlierOf(all, i, i)
         /\ EarlierOf(all, i, j) /\ EarlierOf(all, j, k) => EarlierOf(all, i, k)
         /\ EarlierOf(all, i, j) \/ EarlierOf(all, j, i) \/ i = j
<1>1. all[i] \in Event /\ all[j] \in Event /\ all[k] \in Event
  OBVIOUS
<1>2. /\ all[i].start \in Nat /\ all[j].start \in Nat /\ all[k].start \in Nat
      /\ all[i].id \in Nat /\ all[j].id \in Nat /\ all[k].id \in Nat
  BY <1>1, CalendarAssumption DEF Event
<1>3. ~EarlierOf(all, i, i)
  BY <1>2 DEF EarlierOf
<1>4. EarlierOf(all, i, j) /\ EarlierOf(all, j, k) => EarlierOf(all, i, k)
  BY <1>2 DEF EarlierOf
<1>5. EarlierOf(all, i, j) \/ EarlierOf(all, j, i) \/ i = j
  BY <1>2 DEF EarlierOf
<1> QED BY <1>3, <1>4, <1>5

(* The number of events before an event is its own.                        *)
LEMMA PlacesDiffer ==
  ASSUME NEW all \in Seq(Event), NEW kept \in SUBSET (1..Len(all)), NEW i \in kept, NEW j \in kept
  PROVE  /\ Cardinality(Ahead(all, kept, i)) \in 0..Cardinality(kept) - 1
         /\ Cardinality(Ahead(all, kept, i)) = Cardinality(Ahead(all, kept, j)) => i = j
<1>1. IsFiniteSet(kept)
  <2>1. IsFiniteSet(1..Len(all))
    BY FS_Interval
  <2> QED BY <2>1, FS_Subset
<1>2. \A k \in kept : Ahead(all, kept, k) \in SUBSET kept
  BY DEF Ahead
<1>3. \A k \in kept : IsFiniteSet(Ahead(all, kept, k)) /\ Cardinality(Ahead(all, kept, k)) \in Nat
  BY <1>1, <1>2, FS_Subset, FS_CardinalityType
<1>4. \A k \in kept : k \notin Ahead(all, kept, k)
  BY EarlierOrders DEF Ahead
<1>5. Cardinality(Ahead(all, kept, i)) < Cardinality(kept)
  BY <1>1, <1>2, <1>3, <1>4, FS_Subset, FS_CardinalityType
<1>6. ASSUME NEW k \in kept, NEW l \in kept, EarlierOf(all, k, l)
      PROVE  Cardinality(Ahead(all, kept, k)) # Cardinality(Ahead(all, kept, l))
  <2>1. Ahead(all, kept, k) \in SUBSET Ahead(all, kept, l)
    BY <1>6, EarlierOrders DEF Ahead
  <2>2. k \in Ahead(all, kept, l) /\ k \notin Ahead(all, kept, k)
    BY <1>4, <1>6 DEF Ahead
  <2> QED BY <1>3, <2>1, <2>2, FS_Subset
<1>7. EarlierOf(all, i, j) \/ EarlierOf(all, j, i) \/ i = j
  BY EarlierOrders
<1> QED BY <1>1, <1>3, <1>5, <1>6, <1>7, FS_CardinalityType

(* What stands before an event in the sorted list is what is before it in  *)
(* the order of the calendar.                                              *)
LEMMA PlaceIs ==
  ASSUME NEW all \in Seq(Event), NEW kept \in SUBSET (1..Len(all)), NEW list \in Seq(Event), NEW p,
         \A i, j \in kept : all[i].id = all[j].id /\ all[i].id # 0 => i = j,
         Arranges(all, kept, list, p), NEW k \in 1..Len(list)
  PROVE  Cardinality(Preceding(list, k)) = Cardinality(Ahead(all, kept, p[k]))
<1>1. /\ p \in [1..Len(list) -> kept] /\ DOMAIN list = 1..Len(list) /\ Len(list) \in Nat
      /\ \A a, b \in 1..Len(list) : p[a] = p[b] => a = b
      /\ \A i \in kept : \E a \in 1..Len(list) : p[a] = i
      /\ \A a \in 1..Len(list) : list[a] = all[p[a]]
  BY DEF Arranges
<1>2. ASSUME NEW a \in 1..Len(list), NEW b \in 1..Len(list)
      PROVE  a \in Preceding(list, b) <=> EarlierOf(all, p[a], p[b])
  <2>1. list[a] = all[p[a]] /\ list[b] = all[p[b]] /\ p[a] \in kept /\ p[b] \in kept
    BY <1>1
  <2>2. /\ list[a].start \in Nat /\ list[b].start \in Nat
        /\ list[a].id \in Nat /\ list[b].id \in Nat /\ p[a] \in Nat /\ p[b] \in Nat
    <3>1. list[a] \in Event /\ list[b] \in Event
      OBVIOUS
    <3>2. /\ list[a].start \in Nat /\ list[b].start \in Nat
          /\ list[a].id \in Nat /\ list[b].id \in Nat
      BY <3>1, CalendarAssumption DEF Event
    <3>3. \A i \in kept : i \in Nat
      OBVIOUS
    <3>4. p[a] \in Nat /\ p[b] \in Nat
      BY <2>1, <3>3
    <3> QED BY <3>2, <3>4
  <2>3. CASE list[a].id = list[b].id /\ list[a].start = list[b].start
    <3>1. a < b <=> p[a] < p[b]
      <4>1. CASE list[a].id # 0
        <5>1. p[a] = p[b]
          BY <2>1, <2>3, <4>1
        <5> QED BY <1>1, <2>2, <5>1
      <4>2. CASE list[a].id = 0
        <5>1. /\ a < b => p[a] < p[b]
              /\ b < a => p[b] < p[a]
          BY <2>3, <4>2 DEF Arranges
        <5> QED BY <2>2, <5>1
      <4> QED BY <4>1, <4>2
    <3> QED BY <1>1, <2>1, <2>2, <2>3, <3>1 DEF Preceding, EarlierOf, Before
  <2>4. CASE ~(list[a].id = list[b].id /\ list[a].start = list[b].start)
    <3>1. Before(list[a], list[b]) \/ Before(list[b], list[a])
      BY <2>2, <2>4 DEF Before
    <3>2. ~(Before(list[a], list[b]) /\ Before(list[b], list[a]))
      BY <2>2 DEF Before
    <3>3. a \in Preceding(list, b) <=> Before(list[a], list[b])
      BY <1>1, <3>1, <3>2, Zenon DEF Preceding
    <3>4. EarlierOf(all, p[a], p[b]) <=> Before(list[a], list[b])
      <4>1. EarlierOf(all, p[a], p[b]) <=>
              \/ list[a].start < list[b].start
              \/ list[a].start = list[b].start /\ list[a].id < list[b].id
        BY <2>1, <2>4, Zenon DEF EarlierOf
      <4> QED BY <4>1, Zenon DEF Before
    <3> QED BY <3>3, <3>4, Zenon
  <2> QED BY <2>3, <2>4
<1> DEFINE S == Preceding(list, k)
           T == Ahead(all, kept, p[k])
           f == [a \in S |-> p[a]]
<1>3. S \in SUBSET (1..Len(list)) /\ IsFiniteSet(S)
  <2>1. S \in SUBSET (1..Len(list)) /\ IsFiniteSet(1..Len(list))
    BY <1>1, FS_Interval DEF Preceding
  <2> QED BY <2>1, FS_Subset
<1>4. \A a \in S : f[a] \in T
  BY <1>1, <1>2, <1>3 DEF Ahead
<1>5. \A i \in T : \E a \in S : f[a] = i
  BY <1>1, <1>2 DEF Ahead
<1>6. \A a, b \in S : f[a] = f[b] => a = b
  BY <1>1, <1>3
<1>7. f \in [S -> T]
  BY <1>4
<1> HIDE DEF S, T, f
<1>8. f \in Bijection(S, T)
  BY <1>5, <1>6, <1>7, Fun_IsBij, Fun_IsInj, Fun_IsSurj
<1>9. ExistsBijection(S, T)
  BY <1>8, Fun_ExistsBij
<1> QED BY <1>3, <1>9, FS_Bijection DEF S, T

LEMMA SortedIsRendering ==
  ASSUME events \in Seq(Event), NEW list \in Seq(Event), NEW p, Arranges(events, Kept, list, p)
  PROVE  /\ StableSort(list) \in Seq(Event)
         /\ IsRendering(StableSort(list))
         /\ \A k \in DOMAIN StableSort(list) : \E i \in Kept : StableSort(list)[k] = events[i]
<1> DEFINE n == Len(list)
           Place(k) == Cardinality(Preceding(list, k)) + 1
           out == StableSort(list)
<1>1. out = [k \in 1..n |-> list[CHOOSE i \in 1..n : Place(i) = k]]
  <2>1. DOMAIN list = 1..n
    OBVIOUS
  <2> QED BY <2>1 DEF StableSort, Preceding
<1>2. Kept \in SUBSET (1..Len(events)) /\ IsFiniteSet(Kept) /\ Cardinality(Kept) \in Nat
  BY KeptIs, FS_CardinalityType
<1>3. \A i, j \in Kept : events[i].id = events[j].id /\ events[i].id # 0 => i = j
  <2> SUFFICES ASSUME NEW i \in Kept, NEW j \in Kept, events[i].id = events[j].id, events[i].id # 0
               PROVE  i = j
    OBVIOUS
  <2>1. i \in Latest(events, Len(events)) /\ j \in Latest(events, Len(events))
    BY KeptIs DEF WithoutIDTo
  <2> QED BY <2>1, LatestOnce
<1>4. /\ p \in [1..n -> Kept] /\ n \in Nat
      /\ \A k, l \in 1..n : p[k] = p[l] => k = l
      /\ \A i \in Kept : \E k \in 1..n : p[k] = i
      /\ \A k \in 1..n : list[k] = events[p[k]]
  BY DEF Arranges
<1>5. Cardinality(Kept) = n
  <2>1. p \in Bijection(1..n, Kept)
    BY <1>4, Fun_IsBij, Fun_IsInj, Fun_IsSurj
  <2>2. ExistsBijection(1..n, Kept)
    BY <2>1, Fun_ExistsBij
  <2> QED BY <1>4, <2>2, FS_CountingElements
<1>6. \A k \in 1..n : Place(k) = Cardinality(Ahead(events, Kept, p[k])) + 1
  BY <1>2, <1>3, PlaceIs
<1>7. \A k \in 1..n : Place(k) \in 1..n
  <2> SUFFICES ASSUME NEW k \in 1..n PROVE Place(k) \in 1..n
    OBVIOUS
  <2>1. p[k] \in Kept
    BY <1>4
  <2>2. Cardinality(Ahead(events, Kept, p[k])) \in 0..n - 1
    BY <1>2, <1>5, <2>1, PlacesDiffer
  <2> HIDE DEF Place
  <2> QED BY <1>4, <1>6, <2>2
<1>8. \A k, l \in 1..n : Place(k) = Place(l) => k = l
  <2> SUFFICES ASSUME NEW k \in 1..n, NEW l \in 1..n, Place(k) = Place(l) PROVE k = l
    OBVIOUS
  <2>1. /\ Cardinality(Ahead(events, Kept, p[k])) \in Int
        /\ Cardinality(Ahead(events, Kept, p[l])) \in Int
    <3>1. p[k] \in Kept /\ p[l] \in Kept
      BY <1>4
    <3>2. /\ Cardinality(Ahead(events, Kept, p[k])) \in 0..Cardinality(Kept) - 1
          /\ Cardinality(Ahead(events, Kept, p[l])) \in 0..Cardinality(Kept) - 1
      BY <1>2, <3>1, PlacesDiffer
    <3> QED BY <1>2, <3>2
  <2>2. Cardinality(Ahead(events, Kept, p[k])) = Cardinality(Ahead(events, Kept, p[l]))
    <3>1. Place(k) = Cardinality(Ahead(events, Kept, p[k])) + 1 /\ Place(l) = Cardinality(Ahead(events, Kept, p[l])) + 1
      BY <1>6
    <3>2. Cardinality(Ahead(events, Kept, p[k])) + 1 = Cardinality(Ahead(events, Kept, p[l])) + 1
      <4> HIDE DEF Place
      <4> QED BY <3>1
    <3> QED BY <2>1, <3>2
  <2>3. p[k] = p[l]
    <3>1. p[k] \in Kept /\ p[l] \in Kept
      BY <1>4
    <3> QED BY <1>2, <2>2, <3>1, PlacesDiffer
  <2> QED BY <1>4, <2>3
<1>9. \A m \in 1..n : \E k \in 1..n : Place(k) = m
  <2> DEFINE place == [k \in 1..n |-> Place(k)]
  <2>1. place \in [1..n -> 1..n] /\ \A k, l \in 1..n : place[k] = place[l] => k = l
    BY <1>7, <1>8
  <2>2. place \in Injection(1..n, 1..n)
    BY <2>1, Fun_IsInj
  <2>3. place \in Surjection(1..n, 1..n)
    <3>1. IsFiniteSet(1..n)
      BY <1>4, FS_Interval
    <3> QED BY <2>2, <3>1, FS_Injection
  <2>4. \A m \in 1..n : \E k \in 1..n : place[k] = m
    <3> HIDE DEF place
    <3> QED BY <2>3, Zenon DEF Surjection
  <2>5. \A k \in 1..n : place[k] = Place(k)
    OBVIOUS
  <2> HIDE DEF Place, place
  <2> QED BY <2>4, <2>5
<1> HIDE DEF Place, out
<1>10. \A k \in 1..n : out[Place(k)] = list[k]
  BY <1>1, <1>7, <1>8
<1>11. \A m \in 1..n : \E k \in 1..n : out[m] = list[k]
  BY <1>1, <1>9
<1>12. out \in Seq(Event) /\ Len(out) = n /\ DOMAIN out = 1..n
  <2>1. \A m \in 1..n : out[m] \in Event
    BY <1>11
  <2>2. out \in [1..n -> Event]
    BY <1>1, <2>1
  <2> QED BY <1>4, <2>2
<1>13. IsRendering(out)
  <2>1. ASSUME NEW i \in Kept PROVE out[Cardinality(Ahead(events, Kept, i)) + 1] = events[i]
    <3>1. PICK k \in 1..n : p[k] = i
      BY <1>4, Zenon
    <3>2. list[k] = events[i]
      BY <1>4, <3>1, Zenon
    <3>3. Place(k) = Cardinality(Ahead(events, Kept, i)) + 1
      BY <1>6, <3>1, Zenon
    <3> QED BY <1>10, <3>2, <3>3, Zenon
  <2> QED BY <1>5, <1>12, <2>1 DEF IsRendering, Ahead, EarlierOf
<1>14. \A m \in 1..n : \E i \in Kept : out[m] = events[i]
  BY <1>4, <1>11
<1> QED BY <1>12, <1>13, <1>14 DEF out

LEMMA SortOne ==
  ASSUME CalendarInv, Sort
  PROVE  CalendarInv'
<1>1. /\ result' = StableSort(result) /\ phase' = "write" /\ events' = events /\ index' = index
      /\ withoutID' = withoutID /\ events \in Seq(Event) /\ result \in Seq(Event)
  BY DEF Sort, CalendarInv
<1>2. PICK p : Arranges(events, Kept, result, p)
  BY DEF Sort, CalendarInv
<1>3. /\ result' \in Seq(Event)
      /\ IsRendering(result')
      /\ \A k \in DOMAIN result' : \E i \in Kept : result'[k] = events[i]
  BY <1>1, <1>2, SortedIsRendering
<1>4. Kept' = Kept /\ (IsRendering(result))' = IsRendering(result')
  BY <1>1 DEF Kept, Listed, IsRendering
<1> QED BY <1>1, <1>3, <1>4 DEF CalendarInv, RenderedOnce

LEMMA WriteOne ==
  ASSUME CalendarInv, Write
  PROVE  CalendarInv'
<1>1. /\ result' = result /\ events' = events /\ index' = index /\ withoutID' = withoutID
      /\ events \in Seq(Event) /\ result \in Seq(Event)
      /\ IsRendering(result) /\ \A k \in DOMAIN result : \E i \in Kept : result[k] = events[i]
  BY DEF Write, CalendarInv
<1>2. Kept' = Kept /\ (IsRendering(output))' = IsRendering(output')
  BY <1>1 DEF Kept, Listed, IsRendering
<1>3. CASE \A k \in DOMAIN result : result[k].sound
  <2>1. phase' = "done" /\ output' = result
    BY <1>3 DEF Write
  <2>2. ASSUME NEW i \in Kept PROVE events[i].sound
    <3> DEFINE m == Cardinality(Ahead(events, Kept, i)) + 1
    <3>1. result[m] = events[i] /\ Len(result) = Cardinality(Kept)
      BY <1>1 DEF IsRendering, Ahead, EarlierOf
    <3>2. m \in DOMAIN result
      BY <1>1, <3>1, KeptIs, PlacesDiffer, FS_CardinalityType
    <3> QED BY <1>3, <3>1, <3>2
  <2>3. RenderedOnce'
    BY <1>1, <1>2, <2>1, <2>2 DEF RenderedOnce
  <2> QED BY <1>1, <2>1, <2>3 DEF CalendarInv
<1>4. CASE ~ \A k \in DOMAIN result : result[k].sound
  <2>1. phase' = "failed"
    BY <1>4 DEF Write
  <2>2. \E i \in Kept : ~events[i].sound
    BY <1>1, <1>4
  <2>3. RenderedOnce'
    BY <1>1, <1>2, <2>1, <2>2 DEF RenderedOnce
  <2> QED BY <1>1, <2>1, <2>3 DEF CalendarInv
<1> QED BY <1>3, <1>4

LEMMA CalendarInit == Init => CalendarInv
<1> SUFFICES ASSUME Init PROVE CalendarInv
  OBVIOUS
<1>1. events \in Seq(Event) /\ Len(events) \in Nat
  <2>1. PICK n \in 0..MaxEvents : events \in [1..n -> Event]
    BY DEF Init
  <2> QED BY <2>1, CalendarAssumption
<1>2. Lists(events, <<>>, <<>>, WithoutIDTo(events, 0))
  BY DEF Lists, WithoutIDTo
<1>3. MapSound
  BY DEF MapSound, Init
<1> QED BY <1>1, <1>2, <1>3 DEF CalendarInv, Init, RenderedOnce

LEMMA CalendarStep == CalendarInv /\ [Next]_vars => CalendarInv'
<1> SUFFICES ASSUME CalendarInv, [Next]_vars PROVE CalendarInv'
  OBVIOUS
<1>1. CASE UNCHANGED vars
  <2>1. /\ events' = events /\ phase' = phase /\ index' = index /\ byID' = byID
        /\ withoutID' = withoutID /\ result' = result /\ output' = output
    BY <1>1 DEF vars
  <2>2. MapSound' = MapSound
    BY <2>1 DEF MapSound
  <2>3. Kept' = Kept
    BY <2>1 DEF Kept, Listed
  <2>4. (IsRendering(result))' = IsRendering(result) /\ RenderedOnce' = RenderedOnce
    BY <2>1, <2>3 DEF IsRendering, RenderedOnce
  <2> QED BY <2>1, <2>2, <2>3, <2>4 DEF CalendarInv
<1> QED BY <1>1, CollectOne, CollectedOnce, IterateOne, IteratedAll, SortOne, WriteOne DEF Next

(* Every number has what 0 has and what goes over from each number to the next. *)
LEMMA Induction ==
  ASSUME NEW A, 0 \in A, \A n \in Nat : n \in A => n + 1 \in A
  PROVE  Nat \subseteq A
<1> SUFFICES ASSUME NEW n \in Nat, n \notin A PROVE FALSE
  OBVIOUS
<1> DEFINE Gap == {i \in 0..n : i \notin A}
           Below == {0..i : i \in Gap}
<1>1. Below # {} /\ Below \subseteq FiniteSubsetsOf(Nat)
  <2>1. 0..n \in Below
    OBVIOUS
  <2>2. \A i \in 0..n : IsFiniteSet(0..i) /\ 0..i \subseteq Nat
    BY FS_Interval
  <2> QED BY <2>1, <2>2 DEF FiniteSubsetsOf
<1>2. PICK S \in Below : \A T \in Below : ~ (<<T, S>> \in StrictSubsetOrdering(Nat))
  <2> HIDE DEF Below
  <2> QED BY <1>1, WFMin, FS_StrictSubsetOrderingWellFounded
<1>3. PICK i \in Gap : S = 0..i
  OBVIOUS
<1>4. i # 0 /\ i - 1 \in 0..n /\ i - 1 \notin A
  OBVIOUS
<1>5. 0..(i-1) \in Below
  BY <1>4
<1>6. <<0..(i-1), S>> \in StrictSubsetOrdering(Nat)
  <2>1. 0..(i-1) \subseteq Nat /\ S \subseteq Nat /\ 0..(i-1) \subseteq S /\ i \in S /\ i \notin 0..(i-1)
    BY <1>3
  <2>2. IsFiniteSet(0..(i-1)) /\ IsFiniteSet(S)
    BY <1>3, FS_Interval
  <2> QED BY <2>1, <2>2 DEF StrictSubsetOrdering
<1> QED BY <1>2, <1>5, <1>6

(***************************************************************************)
(* Sequences that are put together from sequences.                         *)
(***************************************************************************)
(* Concatenation, by a name that proofs can leave folded.                  *)
Cat(s, t) == s \o t

(* The concatenations of the first of them.                                *)
Joins(f, ss, S) ==
  /\ f \in [0..Len(ss) -> Seq(S)]
  /\ f[0] = <<>>
  /\ \A i \in 1..Len(ss) : f[i] = Cat(f[i - 1], ss[i])

(* They are there for the first n, for each n. *)
JoinsTo(n, f, ss, S) ==
  /\ f \in [0..n -> Seq(S)]
  /\ f[0] = <<>>
  /\ \A i \in 1..n : f[i] = Cat(f[i - 1], ss[i])

LEMMA JoinsExist ==
  ASSUME NEW S, NEW ss \in Seq(Seq(S))
  PROVE  \E f : Joins(f, ss, S)
<1> DEFINE A == {n \in Nat : n <= Len(ss) => \E f : JoinsTo(n, f, ss, S)}
<1>1. 0 \in A
  <2>1. JoinsTo(0, [i \in 0..0 |-> <<>>], ss, S)
    BY DEF JoinsTo
  <2> QED BY <2>1
<1>2. ASSUME NEW n \in Nat, NEW f, JoinsTo(n, f, ss, S), n + 1 <= Len(ss)
      PROVE  \E g : JoinsTo(n + 1, g, ss, S)
  <2> DEFINE g == [i \in 0..n + 1 |-> IF i = n + 1 THEN Cat(f[n], ss[n + 1]) ELSE f[i]]
  <2>2. f[n] \in Seq(S) /\ ss[n + 1] \in Seq(S)
    BY <1>2 DEF JoinsTo
  <2>3. Cat(f[n], ss[n + 1]) \in Seq(S)
    BY <2>2, ConcatProperties DEF Cat
  <2>4. g \in [0..n + 1 -> Seq(S)]
    BY <1>2, <2>3 DEF JoinsTo
  <2>5. g[n + 1] = Cat(f[n], ss[n + 1]) /\ \A i \in 0..n : g[i] = f[i]
    <3>1. n + 1 \in 0..n + 1
      BY <1>2
    <3>2. \A i \in 0..n : i \in 0..n + 1 /\ i # n + 1
      BY <1>2
    <3> QED BY <3>1, <3>2, Zenon
  <2> HIDE DEF g
  <2>6. ASSUME NEW i \in 1..n + 1 PROVE g[i] = Cat(g[i - 1], ss[i])
    <3>1. i - 1 \in 0..n /\ g[i - 1] = f[i - 1]
      BY <2>5
    <3>2. CASE i = n + 1
      BY <2>5, <3>1, <3>2
    <3>3. CASE i \in 1..n
      <4>1. g[i] = f[i]
        <5>1. i \in 0..n
          BY <1>2, <3>3
        <5> QED BY <2>5, <5>1, Zenon
      <4>2. f[i] = Cat(f[i - 1], ss[i])
        BY <1>2, <3>3 DEF JoinsTo
      <4> QED BY <3>1, <4>1, <4>2
    <3> QED BY <3>2, <3>3
  <2>7. JoinsTo(n + 1, g, ss, S)
    BY <1>2, <2>4, <2>5, <2>6 DEF JoinsTo
  <2> QED BY <2>7
<1>3. Len(ss) \in A
  <2>1. \A n \in Nat : n \in A => n + 1 \in A
    BY <1>2
  <2> HIDE DEF A
  <2> QED BY <1>1, <2>1, Induction
<1>4. PICK f : JoinsTo(Len(ss), f, ss, S)
  BY <1>3
<1> QED BY <1>4 DEF Joins, JoinsTo

LEMMA FlattenJoins ==
  ASSUME NEW S, NEW ss \in Seq(Seq(S)), NEW f, Joins(f, ss, S)
  PROVE  FlattenSeq(ss) = f[Len(ss)]
<1>1. CASE Len(ss) = 0
  <2>1. ss = <<>> /\ f[0] = <<>>
    BY <1>1 DEF Joins
  <2> QED BY <1>1, <2>1 DEF FlattenSeq
<1>2. CASE Len(ss) # 0
  <2>1. PICK n : n = Len(ss) /\ n \in Nat \ {0}
    BY <1>2
  <2>2. /\ \A i \in 1..n : f[i] = Cat(f[i - 1], ss[i]) /\ ss[i] \in Seq(S)
        /\ \A i \in 0..n : f[i] \in Seq(S)
        /\ f[0] = <<>>
    <3>1. \A i \in 1..n : f[i] = Cat(f[i - 1], ss[i])
      BY <2>1 DEF Joins
    <3>2. \A i \in 1..n : ss[i] \in Seq(S)
      BY <2>1
    <3> QED BY <2>1, <3>1, <3>2 DEF Joins
  <2>3. f[1] = ss[1]
    <3>1. f[1] = Cat(<<>>, ss[1]) /\ ss[1] \in Seq(S)
      BY <2>1, <2>2
    <3> QED BY <3>1, ConcatEmptySeq DEF Cat
  <2> DEFINE Eq(g) == g = [i \in 1..n |-> IF i = 1 THEN ss[i] ELSE Cat(g[i - 1], ss[i])]
  <2>4. Eq([i \in 1..n |-> f[i]])
    <3> DEFINE g == [i \in 1..n |-> f[i]]
    <3>1. ASSUME NEW i \in 1..n PROVE f[i] = IF i = 1 THEN ss[i] ELSE Cat(g[i - 1], ss[i])
      <4>1. CASE i = 1
        BY <2>3, <4>1
      <4>2. CASE i # 1
        <5>1. i - 1 \in 1..n
          BY <2>1, <4>2
        <5> QED BY <2>2, <4>2, <5>1
      <4> QED BY <4>1, <4>2
    <3> QED BY <3>1
  <2>5. Eq(CHOOSE g : Eq(g))
    <3> HIDE DEF Eq
    <3> QED BY <2>4
  <2>6. PICK g : Eq(g) /\ FlattenSeq(ss) = g[n]
    BY <2>1, <2>5 DEF FlattenSeq, Cat
  <2>7. /\ g[1] = ss[1]
        /\ \A i \in 2..n : g[i] = Cat(g[i - 1], ss[i])
    <3>1. \A i \in 1..n : g[i] = IF i = 1 THEN ss[i] ELSE Cat(g[i - 1], ss[i])
      BY <2>6
    <3>2. 1 \in 1..n /\ \A i \in 2..n : i \in 1..n /\ i # 1
      BY <2>1
    <3> QED BY <3>1, <3>2
  <2> HIDE DEF Eq
  <2> DEFINE A == {i \in Nat : i + 1 <= n => g[i + 1] = f[i + 1]}
  <2>8. 0 \in A
    BY <2>3, <2>7
  <2>9. ASSUME NEW i \in Nat, i + 2 <= n, g[i + 1] = f[i + 1] PROVE g[i + 2] = f[i + 2]
    <3>1. i + 2 \in 2..n /\ i + 2 \in 1..n /\ i + 2 - 1 = i + 1
      BY <2>1, <2>9
    <3>2. g[i + 2] = Cat(g[i + 1], ss[i + 2])
      BY <2>7, <3>1
    <3>3. f[i + 2] = Cat(f[i + 1], ss[i + 2])
      BY <2>2, <3>1
    <3> QED BY <2>9, <3>2, <3>3
  <2>10. \A i \in Nat : i \in A => i + 1 \in A
    BY <2>1, <2>9
  <2>11. n - 1 \in Nat /\ n - 1 \in A
    <3> HIDE DEF A
    <3>1. n - 1 \in Nat
      BY <2>1
    <3> QED BY <2>8, <2>10, <3>1, Induction
  <2>12. g[n] = f[n]
    BY <2>1, <2>11
  <2> QED BY <2>1, <2>6, <2>12
<1> QED BY <1>1, <1>2

LEMMA FlattenType ==
  ASSUME NEW S, NEW ss \in Seq(Seq(S))
  PROVE  FlattenSeq(ss) \in Seq(S)
<1>1. PICK f : Joins(f, ss, S)
  BY JoinsExist
<1>2. f[Len(ss)] \in Seq(S)
  BY <1>1 DEF Joins
<1> QED BY <1>1, <1>2, FlattenJoins

LEMMA FlattenEmpty == FlattenSeq(<<>>) = <<>>
  BY DEF FlattenSeq

LEMMA FlattenAppend ==
  ASSUME NEW S, NEW ss \in Seq(Seq(S)), NEW s \in Seq(S)
  PROVE  FlattenSeq(Append(ss, s)) = FlattenSeq(ss) \o s
<1> DEFINE n == Len(ss)
           tt == Append(ss, s)
<1>1. PICK f : Joins(f, ss, S)
  BY JoinsExist
<1>2. /\ tt \in Seq(Seq(S)) /\ Len(tt) = n + 1 /\ n \in Nat
      /\ tt[n + 1] = s /\ \A i \in 1..n : tt[i] = ss[i]
  BY AppendProperties
<1> DEFINE g == [i \in 0..n + 1 |-> IF i = n + 1 THEN Cat(f[n], s) ELSE f[i]]
<1>3. f[n] \in Seq(S) /\ Cat(f[n], s) \in Seq(S)
  <2>1. f[n] \in Seq(S)
    <3>1. f \in [0..n -> Seq(S)] /\ n \in 0..n
      BY <1>1 DEF Joins
    <3> QED BY <3>1
  <2> QED BY <2>1, ConcatProperties DEF Cat
<1>4. g \in [0..n + 1 -> Seq(S)] /\ g[n + 1] = Cat(f[n], s) /\ \A i \in 0..n : g[i] = f[i]
  BY <1>1, <1>2, <1>3 DEF Joins
<1> HIDE DEF g, tt
<1>5. ASSUME NEW i \in 1..n + 1 PROVE g[i] = Cat(g[i - 1], tt[i])
  <2>1. i - 1 \in 0..n /\ g[i - 1] = f[i - 1]
    BY <1>2, <1>4
  <2>2. CASE i = n + 1
    BY <1>2, <1>4, <2>1, <2>2
  <2>3. CASE i \in 1..n
    BY <1>1, <1>2, <1>4, <2>1, <2>3 DEF Joins
  <2> QED BY <1>2, <2>2, <2>3
<1>6. Joins(g, tt, S)
  BY <1>1, <1>2, <1>4, <1>5 DEF Joins
<1>7. FlattenSeq(tt) = g[n + 1] /\ FlattenSeq(ss) = f[n]
  BY <1>1, <1>2, <1>6, FlattenJoins
<1> QED BY <1>4, <1>7 DEF tt, Cat


LEMMA CatAssociates ==
  ASSUME NEW S, NEW a \in Seq(S), NEW b \in Seq(S), NEW c \in Seq(S)
  PROVE  Cat(Cat(a, b), c) = Cat(a, Cat(b, c))
  BY ConcatAssociative DEF Cat
(* Concatenation of two such sequences. *)
LEMMA FlattenConcat ==
  ASSUME NEW S, NEW ss \in Seq(Seq(S)), NEW tt \in Seq(Seq(S))
  PROVE  FlattenSeq(ss \o tt) = FlattenSeq(ss) \o FlattenSeq(tt)
<1> DEFINE A == {n \in Nat : \A u \in Seq(Seq(S)) :
                   Len(u) = n => FlattenSeq(ss \o u) = FlattenSeq(ss) \o FlattenSeq(u)}
<1>1. FlattenSeq(ss) \in Seq(S)
  BY FlattenType
<1>2. 0 \in A
  <2> SUFFICES ASSUME NEW u \in Seq(Seq(S)), Len(u) = 0
               PROVE  FlattenSeq(ss \o u) = FlattenSeq(ss) \o FlattenSeq(u)
    OBVIOUS
  <2>1. u = <<>> /\ ss \o <<>> = ss
    BY ConcatEmptySeq, EmptySeq
  <2> QED BY <1>1, <2>1, FlattenEmpty, ConcatEmptySeq
<1>3. ASSUME NEW n \in Nat, n \in A PROVE n + 1 \in A
  <2> SUFFICES ASSUME NEW u \in Seq(Seq(S)), Len(u) = n + 1
               PROVE  FlattenSeq(ss \o u) = FlattenSeq(ss) \o FlattenSeq(u)
    OBVIOUS
  <2>1. PICK v \in Seq(Seq(S)), x \in Seq(S) : u = Append(v, x)
    <3>1. u # <<>>
      OBVIOUS
    <3> QED BY <3>1, SequenceEmptyOrAppend
  <2>2. Len(v) = n
    BY <2>1, AppendProperties
  <2>3. FlattenSeq(ss \o v) = FlattenSeq(ss) \o FlattenSeq(v)
    BY <1>3, <2>2
  <2>4. ss \o v \in Seq(Seq(S)) /\ FlattenSeq(v) \in Seq(S)
    BY ConcatProperties, FlattenType
  <2>5. ss \o u = Append(ss \o v, x)
    <3>1. u = v \o <<x>> /\ <<x>> \in Seq(Seq(S))
      BY <2>1, AppendIsConcat
    <3>2. ss \o (v \o <<x>>) = (ss \o v) \o <<x>>
      <4>1. PICK y : y = <<x>>
        OBVIOUS
      <4>2. y \in Seq(Seq(S))
        BY <3>1, <4>1
      <4>3. ss \o (v \o y) = (ss \o v) \o y
        <5>1. PICK T : T = Seq(S)
          OBVIOUS
        <5>2. ss \in Seq(T) /\ v \in Seq(T) /\ y \in Seq(T)
          BY <2>1, <4>2, <5>1, Zenon
        <5>3. Cat(Cat(ss, v), y) = Cat(ss, Cat(v, y))
          BY <5>2, CatAssociates
        <5> QED BY <5>3, Zenon DEF Cat
      <4> QED BY <4>1, <4>3, Zenon
    <3>3. Append(ss \o v, x) = (ss \o v) \o <<x>>
      BY <2>1, <2>4, AppendIsConcat, Zenon
    <3> QED BY <3>1, <3>2, <3>3, Zenon
  <2>6. FlattenSeq(ss \o u) = FlattenSeq(ss \o v) \o x
    BY <2>4, <2>5, FlattenAppend
  <2>7. FlattenSeq(u) = FlattenSeq(v) \o x
    BY <2>1, FlattenAppend
  <2>8. (FlattenSeq(ss) \o FlattenSeq(v)) \o x = FlattenSeq(ss) \o (FlattenSeq(v) \o x)
    <3>1. Cat(Cat(FlattenSeq(ss), FlattenSeq(v)), x) = Cat(FlattenSeq(ss), Cat(FlattenSeq(v), x))
      BY <1>1, <2>1, <2>4, CatAssociates
    <3> QED BY <3>1 DEF Cat
  <2> QED BY <2>3, <2>6, <2>7, <2>8
<1>4. Len(tt) \in A
  <2> HIDE DEF A
  <2>1. \A n \in Nat : n \in A => n + 1 \in A
    BY <1>3
  <2>2. Len(tt) \in Nat
    OBVIOUS
  <2> QED BY <1>2, <2>1, <2>2, Induction
<1> QED BY <1>4

LEMMA FlattenOne ==
  ASSUME NEW S, NEW s \in Seq(S), NEW ss \in Seq(Seq(S))
  PROVE  /\ FlattenSeq(<<s>>) = s
         /\ FlattenSeq(<<s>> \o ss) = s \o FlattenSeq(ss)
<1>1. <<s>> \in Seq(Seq(S)) /\ <<>> \in Seq(Seq(S)) /\ <<s>> = Append(<<>>, s)
  OBVIOUS
<1>2. FlattenSeq(<<s>>) = s
  <2>1. FlattenSeq(Append(<<>>, s)) = FlattenSeq(<<>>) \o s
    BY <1>1, FlattenAppend
  <2>2. <<>> \o s = s
    BY ConcatEmptySeq
  <2> QED BY <1>1, <2>1, <2>2, FlattenEmpty
<1> QED BY <1>1, <1>2, FlattenConcat


LEMMA SeqOfMore ==
  ASSUME NEW S, NEW T, S \subseteq T, NEW s \in Seq(S)
  PROVE  s \in Seq(T)
<1>1. \A i \in 1..Len(s) : s[i] \in T
  OBVIOUS
<1> QED BY <1>1

LEMMA SingleSeq ==
  ASSUME NEW S, NEW x \in S
  PROVE  <<x>> \in Seq(S) /\ Len(<<x>>) = 1 /\ <<x>>[1] = x
  OBVIOUS

LEMMA SeqElement ==
  ASSUME NEW S, NEW s \in Seq(S)
  PROVE  Len(s) \in Nat /\ \A i \in 1..Len(s) : s[i] \in S
  OBVIOUS

LEMMA SeqSame ==
  ASSUME NEW S, NEW s \in Seq(S), NEW t \in Seq(S), Len(s) = Len(t),
         \A i \in 1..Len(s) : s[i] = t[i]
  PROVE  s = t
  OBVIOUS

(* Where the elements of a concatenation come from. *)
Parts(c, u, x) ==
  /\ Len(c) = Len(u) + Len(x)
  /\ \A j \in 1..Len(u) : c[j] = u[j]
  /\ \A j \in 1..Len(x) : c[Len(u) + j] = x[j]

LEMMA CatParts ==
  ASSUME NEW S, NEW u \in Seq(S), NEW x \in Seq(S)
  PROVE  Cat(u, x) \in Seq(S) /\ Parts(Cat(u, x), u, x)
<1>1. /\ u \o x \in Seq(S) /\ Len(u \o x) = Len(u) + Len(x)
      /\ \A i \in 1..Len(u) + Len(x) : (u \o x)[i] = IF i <= Len(u) THEN u[i] ELSE x[i - Len(u)]
  BY ConcatProperties
<1>2. Len(u) \in Nat /\ Len(x) \in Nat
  OBVIOUS
<1>3. PICK c, k, m : c = u \o x /\ k = Len(u) /\ m = Len(x) /\ k \in Nat /\ m \in Nat
  BY <1>2
<1>4. c \in Seq(S) /\ Len(c) = k + m /\ \A i \in 1..k + m : c[i] = IF i <= k THEN u[i] ELSE x[i - k]
  BY <1>1, <1>3, Zenon
<1>5. \A j \in 1..k : c[j] = u[j]
  BY <1>3, <1>4
<1>6. ASSUME NEW j \in 1..m PROVE c[k + j] = x[j]
  <2>1. PICK p : p = k + j
    OBVIOUS
  <2>2. p \in 1..k + m /\ ~(p <= k) /\ p - k = j
    BY <1>3, <2>1
  <2>3. c[p] = x[p - k]
    BY <1>4, <2>2
  <2> QED BY <2>1, <2>2, <2>3, Zenon
<1> QED BY <1>3, <1>4, <1>5, <1>6, Zenon DEF Cat, Parts

LEMMA TupleSeq ==
  ASSUME NEW S, NEW n \in Nat, NEW f \in [1..n -> S]
  PROVE  f \in Seq(S) /\ Len(f) = n
  OBVIOUS

LEMMA CatTwo == \A x, y : Cat(<<x>>, <<y>>) = <<x, y>>
<1> SUFFICES ASSUME NEW x, NEW y PROVE Cat(<<x>>, <<y>>) = <<x, y>>
  OBVIOUS
<1>1. PICK a, b, S : a = <<x>> /\ b = <<y>> /\ S = {x, y}
  OBVIOUS
<1>2. a \in Seq(S) /\ b \in Seq(S) /\ Len(a) = 1 /\ Len(b) = 1 /\ a[1] = x /\ b[1] = y
  BY <1>1
<1>3. PICK c : c = Cat(a, b) /\ c \in Seq(S) /\ Parts(c, a, b)
  BY <1>2, CatParts
<1>4. Len(c) = 2 /\ c[1] = x /\ c[2] = y
  <2>1. /\ Len(c) = Len(a) + Len(b)
        /\ \A j \in 1..Len(a) : c[j] = a[j]
        /\ \A j \in 1..Len(b) : c[Len(a) + j] = b[j]
    BY <1>3, Zenon DEF Parts
  <2> QED BY <1>2, <2>1
<1>5. c = <<x, y>>
  BY <1>3, <1>4
<1> QED BY <1>1, <1>3, <1>5, Zenon

LEMMA AppendTwo == \A x, y : Append(<<x>>, y) = <<x, y>>
<1> SUFFICES ASSUME NEW x, NEW y PROVE Append(<<x>>, y) = <<x, y>>
  OBVIOUS
<1>1. PICK a, S : a = <<x>> /\ S = {x, y}
  OBVIOUS
<1>2. a \in Seq(S) /\ y \in S
  BY <1>1
<1>3. Append(a, y) = Cat(a, <<y>>)
  BY <1>2, AppendIsConcat DEF Cat
<1> QED BY <1>1, <1>3, CatTwo, Zenon

(* Another last element. *)
WithLast(s, y) == [s EXCEPT ![Len(s)] = y]

LEMMA ReplaceLast ==
  ASSUME NEW S, NEW s \in Seq(S), NEW x \in S, NEW y \in S
  PROVE  /\ Append(s, x) # <<>> /\ Append(s, x)[Len(Append(s, x))] = x
         /\ WithLast(Append(s, x), y) = Append(s, y)
<1>1. PICK n, u, v : n = Len(s) + 1 /\ u = Append(s, x) /\ v = Append(s, y)
  OBVIOUS
<1>2. /\ Len(s) \in Nat /\ n \in Nat /\ u \in Seq(S) /\ v \in Seq(S) /\ Len(u) = n /\ Len(v) = n
      /\ u[n] = x /\ v[n] = y /\ \A i \in 1..Len(s) : u[i] = s[i] /\ v[i] = s[i]
  BY <1>1, AppendProperties
<1>3. u # <<>> /\ DOMAIN u = 1..n /\ DOMAIN v = 1..n
  BY <1>1, <1>2
<1>4. PICK w : w = [u EXCEPT ![n] = y]
  OBVIOUS
<1>5. w = [i \in 1..n |-> IF i = n THEN y ELSE u[i]]
  BY <1>3, <1>4
<1>6. w \in [1..n -> S]
  BY <1>2, <1>3, <1>5
<1>7. w \in Seq(S) /\ Len(w) = n
  BY <1>2, <1>6, TupleSeq
<1>8. \A i \in 1..n : w[i] = v[i]
  BY <1>1, <1>2, <1>5
<1>9. w = v
  BY <1>2, <1>7, <1>8, SeqSame
<1> QED BY <1>1, <1>2, <1>3, <1>4, <1>9, Zenon DEF WithLast

LEMMA HeadCat ==
  ASSUME NEW S, NEW s \in Seq(S), s # <<>>
  PROVE  s = Cat(<<Head(s)>>, Tail(s)) /\ Head(s) \in S /\ Tail(s) \in Seq(S)
<1>1. PICK n, x, u : n = Len(s) /\ x = Head(s) /\ u = Tail(s)
  OBVIOUS
<1>2. n \in Nat /\ n # 0 /\ u \in Seq(S) /\ x \in S /\ Len(u) = n - 1 /\ x = s[1] /\ \A i \in 1..n - 1 : u[i] = s[i + 1]
  BY <1>1, HeadTailProperties
<1>3. \A i \in 1..n : (<<x>> \o u)[i] = s[i]
  BY <1>1, <1>2
<1>4. <<x>> \o u \in Seq(S) /\ Len(<<x>> \o u) = n
  BY <1>2
<1>5. <<x>> \o u = s
  BY <1>1, <1>3, <1>4, SeqSame
<1> QED BY <1>1, <1>2, <1>5, Zenon DEF Cat

(* What holds of the empty sequence, and goes over to the longer ones, holds *)
(* of all.                                                                   *)
LEMMA RightInduction ==
  ASSUME NEW S, NEW A, <<>> \in A, \A s \in Seq(S), x \in S : s \in A => Append(s, x) \in A
  PROVE  Seq(S) \subseteq A
<1> DEFINE B == {n \in Nat : \A s \in Seq(S) : Len(s) = n => s \in A}
<1>1. 0 \in B
  OBVIOUS
<1>2. ASSUME NEW n \in Nat, n \in B PROVE n + 1 \in B
  <2> SUFFICES ASSUME NEW s \in Seq(S), Len(s) = n + 1 PROVE s \in A
    OBVIOUS
  <2>1. s # <<>>
    OBVIOUS
  <2>2. PICK u \in Seq(S), x \in S : s = Append(u, x)
    BY <2>1, SequenceEmptyOrAppend
  <2>3. Len(u) = n
    BY <2>2, AppendProperties
  <2> QED BY <1>2, <2>2, <2>3
<1>3. Nat \subseteq B
  <2>1. \A n \in Nat : n \in B => n + 1 \in B
    BY <1>2
  <2> HIDE DEF B
  <2> QED BY <1>1, <2>1, Induction
<1>4. \A s \in Seq(S) : Len(s) \in B
  BY <1>3
<1> QED BY <1>4

LEMMA LeftInduction ==
  ASSUME NEW S, NEW A, <<>> \in A, \A s \in Seq(S), x \in S : s \in A => Cat(<<x>>, s) \in A
  PROVE  Seq(S) \subseteq A
<1> DEFINE B == {n \in Nat : \A s \in Seq(S) : Len(s) = n => s \in A}
<1>1. 0 \in B
  OBVIOUS
<1>2. ASSUME NEW n \in Nat, n \in B PROVE n + 1 \in B
  <2> SUFFICES ASSUME NEW s \in Seq(S), Len(s) = n + 1 PROVE s \in A
    OBVIOUS
  <2>0. s # <<>>
    OBVIOUS
  <2>1. PICK u, x : u = Tail(s) /\ x = Head(s) /\ u \in Seq(S) /\ x \in S /\ Len(u) = n
    <3>1. Tail(s) \in Seq(S) /\ Head(s) \in S /\ Len(Tail(s)) = n
      BY <2>0, HeadTailProperties
    <3> QED BY <3>1, Zenon
  <2>2. s = Cat(<<x>>, u)
    BY <2>0, <2>1, HeadCat, Zenon
  <2>3. u \in A
    BY <1>2, <2>1
  <2> QED BY <2>1, <2>2, <2>3 DEF Cat
<1>3. Nat \subseteq B
  <2>1. \A n \in Nat : n \in B => n + 1 \in B
    BY <1>2
  <2> HIDE DEF B
  <2> QED BY <1>1, <2>1, Induction
<1>4. \A s \in Seq(S) : Len(s) \in B
  BY <1>3
<1> QED BY <1>4
(* At keeps what stands at the places. *)
LEMMA AtKeeps ==
  ASSUME NEW S, NEW s \in Seq(S), NEW places
  PROVE  /\ At(s, places) \in Seq(S)
         /\ ToSet(At(s, places)) = {s[i] : i \in places \cap DOMAIN s}
<1> DEFINE n == Len(s)
           ss == [i \in DOMAIN s |-> IF i \in places THEN <<s[i]>> ELSE <<>>]
<1>1. n \in Nat /\ DOMAIN s = 1..n /\ \A i \in 1..n : s[i] \in S
  OBVIOUS
<1>2. ss \in Seq(Seq(S)) /\ Len(ss) = n /\ \A i \in 1..n : ss[i] = IF i \in places THEN <<s[i]>> ELSE <<>>
  <2>1. ss \in [1..n -> Seq(S)]
    BY <1>1
  <2> QED BY <1>1, <2>1
<1> HIDE DEF ss, n
<1>3. PICK f : Joins(f, ss, S)
  BY <1>2, JoinsExist
<1> DEFINE A == {i \in Nat : i <= n => ToSet(f[i]) = {s[j] : j \in places \cap 1..i}}
<1>4. 0 \in A
  <2>1. ToSet(f[0]) = {}
    BY <1>3 DEF Joins, ToSet
  <2>2. 1..0 = {}
    OBVIOUS
  <2> QED BY <2>1, <2>2
<1>5. ASSUME NEW i \in Nat, i \in A PROVE i + 1 \in A
  <2> SUFFICES ASSUME i + 1 <= n PROVE ToSet(f[i + 1]) = {s[j] : j \in places \cap 1..i + 1}
    OBVIOUS
  <2>0. ToSet(f[i]) = {s[j] : j \in places \cap 1..i}
    BY <1>1, <1>5
  <2>1. i \in 0..n /\ i + 1 \in 1..n /\ i + 1 - 1 = i
    BY <1>1
  <2>2. f[i] \in Seq(S) /\ f[i + 1] = Cat(f[i], ss[i + 1])
    <3>1. f \in [0..n -> Seq(S)] /\ \A j \in 1..n : f[j] = Cat(f[j - 1], ss[j])
      BY <1>2, <1>3 DEF Joins
    <3>2. f[i + 1] = Cat(f[i + 1 - 1], ss[i + 1])
      BY <2>1, <3>1
    <3> QED BY <2>1, <3>1, <3>2
  <2>3. CASE i + 1 \in places
    <3>1. ss[i + 1] = <<s[i + 1]>> /\ s[i + 1] \in S
      BY <1>1, <1>2, <2>1, <2>3
    <3>2. f[i + 1] = Append(f[i], s[i + 1])
      BY <2>2, <3>1, AppendIsConcat DEF Cat
    <3>3. ToSet(f[i + 1]) = ToSet(f[i]) \cup {s[i + 1]}
      <4>1. PICK t, x : t = f[i] /\ x = s[i + 1] /\ t \in Seq(S) /\ x \in S /\ f[i + 1] = Append(t, x)
        BY <2>2, <3>1, <3>2
      <4>2. DOMAIN t = 1..Len(t) /\ Len(t) \in Nat /\ DOMAIN Append(t, x) = 1..Len(t) + 1
        BY <4>1
      <4>3. Append(t, x)[Len(t) + 1] = x /\ \A j \in 1..Len(t) : Append(t, x)[j] = t[j]
        BY <4>1, AppendProperties
      <4>4. \A j \in 1..Len(t) + 1 : j \in 1..Len(t) \/ j = Len(t) + 1
        BY <4>2
      <4>5. Len(t) + 1 \in 1..Len(t) + 1 /\ \A j \in 1..Len(t) : j \in 1..Len(t) + 1
        BY <4>2
      <4>6. ToSet(Append(t, x)) = ToSet(t) \cup {x}
        BY <4>2, <4>3, <4>4, <4>5 DEF ToSet
      <4> QED BY <4>1, <4>6
    <3>4. places \cap 1..i + 1 = (places \cap 1..i) \cup {i + 1}
      BY <2>3
    <3> QED BY <2>0, <3>3, <3>4
  <2>4. CASE i + 1 \notin places
    <3>1. f[i + 1] = f[i]
      BY <1>2, <2>1, <2>2, <2>4, ConcatEmptySeq DEF Cat
    <3>2. places \cap 1..i + 1 = places \cap 1..i
      BY <2>4
    <3> QED BY <2>0, <3>1, <3>2
  <2> QED BY <2>3, <2>4
<1>6. n \in A
  <2>1. \A i \in Nat : i \in A => i + 1 \in A
    BY <1>5
  <2> HIDE DEF A
  <2> QED BY <1>1, <1>4, <2>1, Induction
<1>7. At(s, places) = FlattenSeq(ss)
  BY DEF At, ss
<1>8. FlattenSeq(ss) = f[n] /\ FlattenSeq(ss) \in Seq(S)
  BY <1>2, <1>3, FlattenJoins, FlattenType
<1> QED BY <1>1, <1>6, <1>7, <1>8

(* The first label of each spelling is kept; if no two differ in case only, *)
(* all labels are.                                                          *)
LEMMA FirstOccurrence ==
  ASSUME NEW s, NEW n \in Nat, NEW i \in 1..n
  PROVE  \E k \in 1..i : s[k] = s[i] /\ \A j \in 1..k - 1 : s[j] # s[i]
<1> SUFFICES ASSUME \A k \in 1..i : s[k] = s[i] => \E j \in 1..k - 1 : s[j] = s[i]
             PROVE  FALSE
  OBVIOUS
<1> DEFINE A == {m \in Nat : \A k \in 1..m : k <= i => s[k] # s[i]}
<1>1. 0 \in A
  OBVIOUS
<1>2. \A m \in Nat : m \in A => m + 1 \in A
  OBVIOUS
<1>3. i \in A
  <2> HIDE DEF A
  <2> QED BY <1>1, <1>2, Induction
<1> QED BY <1>3


(* Of pairs, the first parts stand at the odd places and the second ones at *)
(* the even ones.                                                           *)
LEMMA FlattenPairs ==
  ASSUME NEW S, NEW ss \in Seq(Seq(S)), \A i \in DOMAIN ss : Len(ss[i]) = 2
  PROVE  /\ FlattenSeq(ss) \in Seq(S)
         /\ Len(FlattenSeq(ss)) = 2 * Len(ss)
         /\ \A i \in DOMAIN ss : /\ FlattenSeq(ss)[2 * i - 1] = ss[i][1]
                                 /\ FlattenSeq(ss)[2 * i] = ss[i][2]
<1>1. PICK n : n = Len(ss) /\ n \in Nat /\ DOMAIN ss = 1..n
  OBVIOUS
<1>2. PICK f : Joins(f, ss, S)
  BY JoinsExist
<1>3. /\ \A i \in 0..n : f[i] \in Seq(S)
      /\ f[0] = <<>>
      /\ \A i \in 1..n : f[i] = Cat(f[i - 1], ss[i])
  BY <1>1, <1>2 DEF Joins
<1>4. \A i \in 1..n : ss[i] \in Seq(S) /\ Len(ss[i]) = 2
  <2>1. \A i \in 1..n : ss[i] \in Seq(S)
    BY <1>1
  <2>2. \A i \in 1..n : Len(ss[i]) = 2
    BY <1>1, Zenon
  <2> QED BY <2>1, <2>2
<1> DEFINE Paired(i) == /\ Len(f[i]) = 2 * i
                        /\ \A j \in 1..i : f[i][2 * j - 1] = ss[j][1] /\ f[i][2 * j] = ss[j][2]
           A == {i \in Nat : i <= n => Paired(i)}
<1>5. 0 \in A
  BY <1>3
<1>6. ASSUME NEW i \in Nat, i + 1 <= n, Paired(i) PROVE Paired(i + 1)
  <2>1. PICK u, x : u = f[i] /\ x = ss[i + 1] /\ u \in Seq(S) /\ x \in Seq(S) /\ Len(x) = 2
    BY <1>1, <1>3, <1>4, <1>6
  <2>2. f[i + 1] = Cat(u, x)
    <3>1. i + 1 \in 1..n /\ i + 1 - 1 = i
      BY <1>1, <1>6
    <3>2. f[i + 1] = Cat(f[i + 1 - 1], ss[i + 1])
      BY <1>3, <3>1
    <3> QED BY <2>1, <3>1, <3>2
  <2>3. Len(u) = 2 * i /\ \A j \in 1..i : u[2 * j - 1] = ss[j][1] /\ u[2 * j] = ss[j][2]
    BY <1>6, <2>1
  <2>4. /\ Len(Cat(u, x)) = 2 * i + 2
        /\ \A j \in 1..2 * i : Cat(u, x)[j] = u[j]
        /\ Cat(u, x)[2 * i + 1] = x[1] /\ Cat(u, x)[2 * i + 2] = x[2]
    <3>1. PICK k : k = 2 * i /\ k = Len(u)
      BY <2>3
    <3>2. /\ Len(Cat(u, x)) = k + Len(x)
          /\ \A j \in 1..k : Cat(u, x)[j] = u[j]
          /\ \A j \in 1..Len(x) : Cat(u, x)[k + j] = x[j]
      <4>1. Parts(Cat(u, x), u, x)
        BY <2>1, CatParts
      <4> QED BY <3>1, <4>1, Zenon DEF Parts
    <3>3. /\ Len(Cat(u, x)) = k + 2
          /\ Cat(u, x)[k + 1] = x[1] /\ Cat(u, x)[k + 2] = x[2]
      <4>1. \A j \in 1..2 : Cat(u, x)[k + j] = x[j]
        BY <2>1, <3>2, Zenon
      <4>2. Len(Cat(u, x)) = k + 2
        BY <2>1, <3>2, Zenon
      <4>3. 1 \in 1..2 /\ 2 \in 1..2
        OBVIOUS
      <4> QED BY <4>1, <4>2, <4>3, Zenon
    <3> QED BY <3>1, <3>2, <3>3, Zenon
  <2>5. ASSUME NEW j \in 1..i + 1 PROVE Cat(u, x)[2 * j - 1] = ss[j][1] /\ Cat(u, x)[2 * j] = ss[j][2]
    <3>1. CASE j = i + 1
      <4>1. 2 * j - 1 = 2 * i + 1 /\ 2 * j = 2 * i + 2
        BY <3>1
      <4> QED BY <2>1, <2>4, <3>1, <4>1
    <3>2. CASE j \in 1..i
      <4>1. 2 * j - 1 \in 1..2 * i /\ 2 * j \in 1..2 * i
        BY <3>2
      <4>2. Cat(u, x)[2 * j - 1] = u[2 * j - 1] /\ Cat(u, x)[2 * j] = u[2 * j]
        BY <2>4, <4>1
      <4>3. u[2 * j - 1] = ss[j][1] /\ u[2 * j] = ss[j][2]
        BY <2>3, <3>2
      <4> QED BY <4>2, <4>3, Zenon
    <3> QED BY <3>1, <3>2
  <2>6. 2 * (i + 1) = 2 * i + 2
    OBVIOUS
  <2> QED BY <2>2, <2>4, <2>5, <2>6
<1>7. n \in A
  <2>1. \A i \in Nat : i \in A => i + 1 \in A
    <3> HIDE DEF Paired
    <3> QED BY <1>1, <1>6
  <2> HIDE DEF A
  <2> QED BY <1>1, <1>5, <2>1, Induction
<1>8. FlattenSeq(ss) = f[n]
  BY <1>1, <1>2, FlattenJoins
<1>9. f[n] \in Seq(S) /\ Paired(n)
  BY <1>1, <1>3, <1>7
<1> QED BY <1>1, <1>8, <1>9

(***************************************************************************)
(* The names of an item.                                                   *)
(***************************************************************************)
Labelled == {Trimmed[n] : n \in Names} \ {""}

LEMMA LabelsType ==
  ASSUME NEW g \in Seq(Names)
  PROVE  Labels(g) \in Seq(Labelled)
<1> DEFINE T == {Trimmed[n] : n \in Names}
           trimmed == [i \in DOMAIN g |-> Trimmed[g[i]]]
           places == {i \in DOMAIN g : trimmed[i] # ""}
<1>1. trimmed \in Seq(T) /\ DOMAIN trimmed = DOMAIN g
  <2>1. \A i \in 1..Len(g) : g[i] \in Names
    OBVIOUS
  <2> QED BY <2>1
<1>2. Labels(g) = At(trimmed, places)
  BY DEF Labels
<1> HIDE DEF trimmed, T
<1>3. Labels(g) \in Seq(T) /\ ToSet(Labels(g)) = {trimmed[i] : i \in places \cap DOMAIN trimmed}
  <2>1. /\ At(trimmed, places) \in Seq(T)
        /\ ToSet(At(trimmed, places)) = {trimmed[i] : i \in places \cap DOMAIN trimmed}
    BY <1>1, AtKeeps, Zenon
  <2> QED BY <1>2, <2>1, Zenon
<1>4. ToSet(Labels(g)) \subseteq Labelled
  <2>1. \A i \in DOMAIN trimmed : trimmed[i] \in T
    BY <1>1
  <2> QED BY <1>3, <2>1 DEF Labelled, T
<1>5. PICK s : s = Labels(g) /\ s \in Seq(T) /\ ToSet(s) \subseteq Labelled
  BY <1>3, <1>4
<1>6. DOMAIN s = 1..Len(s) /\ Len(s) \in Nat
  BY <1>5
<1>7. \A i \in 1..Len(s) : s[i] \in Labelled
  BY <1>5, <1>6 DEF ToSet
<1>8. s \in [1..Len(s) -> Labelled]
  BY <1>5, <1>6, <1>7
<1> QED BY <1>5, <1>6, <1>8

PlainNames(g) == \A l, m \in ToSet(Labels(g)) : Folded[l] = Folded[m] => l = m

(* Where no two differ in case only, no name is lost. *)
LEMMA NamesKept ==
  ASSUME NEW g \in Seq(Names), PlainNames(g)
  PROVE  ToSet(Spellings(Labels(g))) = ToSet(Labels(g))
<1>1. PICK s : s = Labels(g) /\ s \in Seq(Labelled)
  BY LabelsType
<1>2. Len(s) \in Nat /\ DOMAIN s = 1..Len(s)
  BY <1>1
<1> DEFINE places == {i \in DOMAIN s : IsFirst(s, i)}
<1>3. ToSet(Spellings(s)) = {s[i] : i \in places \cap DOMAIN s}
  BY <1>1, AtKeeps DEF Spellings
<1>4. ASSUME NEW i \in 1..Len(s) PROVE \E k \in places : s[k] = s[i]
  <2>1. PICK k \in 1..i : s[k] = s[i] /\ \A j \in 1..k - 1 : s[j] # s[i]
    BY <1>2, FirstOccurrence
  <2>2. k \in DOMAIN s
    BY <1>2
  <2>3. ASSUME NEW j \in 1..k - 1 PROVE Folded[s[j]] # Folded[s[k]]
    <3>1. j \in DOMAIN s
      BY <1>2, <2>2
    <3>2. s[j] \in ToSet(s) /\ s[k] \in ToSet(s)
      BY <2>2, <3>1 DEF ToSet
    <3>3. s[j] # s[k]
      BY <2>1
    <3> QED BY <1>1, <3>2, <3>3 DEF PlainNames
  <2> QED BY <2>1, <2>2, <2>3 DEF IsFirst
<1>5. ToSet(s) = {s[i] : i \in 1..Len(s)}
  BY <1>2 DEF ToSet
<1> HIDE DEF places
<1>6. places \subseteq DOMAIN s
  BY DEF places
<1> QED BY <1>1, <1>2, <1>3, <1>4, <1>5, <1>6

LEMMA SortedNames ==
  ASSUME NEW g \in Seq(Names), PlainNames(g)
  PROVE  GroupNames(g) \in Seq(Labelled) /\ ToSet(GroupNames(g)) = ToSet(Labels(g))
<1> DEFINE kept == ToSet(Labels(g))
           places == {i \in DOMAIN SortOrder : SortOrder[i] \in kept}
<1>1. SortOrder \in Seq(Labelled) /\ ToSet(SortOrder) = Labelled
  BY IdentityAssumption DEF Labelled
<1>2. GroupNames(g) = At(SortOrder, places)
  BY NamesKept DEF GroupNames
<1>3. GroupNames(g) \in Seq(Labelled) /\ ToSet(GroupNames(g)) = {SortOrder[i] : i \in places \cap DOMAIN SortOrder}
  BY <1>1, <1>2, AtKeeps
<1>4. kept \subseteq ToSet(SortOrder)
  BY <1>1, LabelsType DEF ToSet
<1> QED BY <1>3, <1>4 DEF ToSet

(* The names are a function of the set of labels, and tell it. *)
LEMMA NamesAlike ==
  ASSUME NEW g \in Seq(Names), NEW h \in Seq(Names), PlainNames(g), PlainNames(h)
  PROVE  GroupNames(g) = GroupNames(h) <=> ToSet(Labels(g)) = ToSet(Labels(h))
<1>1. ToSet(Labels(g)) = ToSet(Labels(h)) => GroupNames(g) = GroupNames(h)
  BY NamesKept DEF GroupNames
<1> QED BY <1>1, SortedNames

(***************************************************************************)
(* The attachments of an item.                                             *)
(***************************************************************************)
File == [id : FileIDs, state : FileStates]

PlainFiles(a) == \A i, j \in DOMAIN a : a[i].id = a[j].id => i = j

Ascends(s) == \A i, j \in DOMAIN s : i < j => Rank[s[i].id] < Rank[s[j].id]

LEMMA FileRank ==
  ASSUME NEW s \in Seq(File)
  PROVE  /\ Len(s) \in Nat /\ DOMAIN s = 1..Len(s)
         /\ \A i \in 1..Len(s) : s[i] \in File /\ s[i].id \in FileIDs /\ s[i].state \in FileStates /\ Rank[s[i].id] \in Nat
<1>1. \A i \in 1..Len(s) : s[i] \in File
  OBVIOUS
<1>2. Rank \in [FileIDs -> Nat]
  BY IdentityAssumption
<1> QED BY <1>1, <1>2 DEF File

LEMMA RisesOn ==
  ASSUME NEW s \in Seq(File), \A i \in 1..Len(s) - 1 : Rank[s[i].id] < Rank[s[i + 1].id]
  PROVE  Ascends(s)
<1>1. PICK n : n = Len(s) /\ n \in Nat /\ DOMAIN s = 1..n
  BY FileRank
<1>2. PICK r : r = [i \in 1..n |-> Rank[s[i].id]]
  OBVIOUS
<1>3. r \in [1..n -> Nat] /\ \A i \in 1..n - 1 : r[i] < r[i + 1]
  BY <1>1, <1>2, FileRank
<1> DEFINE A == {d \in Nat : \A i \in 1..n : i + d + 1 <= n => r[i] < r[i + d + 1]}
<1>4. 0 \in A
  BY <1>1, <1>3
<1>5. ASSUME NEW d \in Nat, d \in A PROVE d + 1 \in A
  <2> SUFFICES ASSUME NEW i \in 1..n, i + (d + 1) + 1 <= n PROVE r[i] < r[i + (d + 1) + 1]
    OBVIOUS
  <2>1. PICK k, l : k = i + d + 1 /\ l = i + (d + 1) + 1
    OBVIOUS
  <2>2. k \in 1..n - 1 /\ l = k + 1 /\ l \in 1..n /\ k \in 1..n
    BY <1>1, <2>1
  <2>3. r[i] < r[k]
    BY <1>1, <1>5, <2>1, <2>2
  <2>4. r[k] < r[l]
    BY <1>3, <2>2
  <2> QED BY <1>3, <2>1, <2>2, <2>3, <2>4
<1>6. Nat \subseteq A
  <2>1. \A d \in Nat : d \in A => d + 1 \in A
    BY <1>5
  <2> HIDE DEF A
  <2> QED BY <1>4, <2>1, Induction
<1>7. ASSUME NEW i \in 1..n, NEW j \in 1..n, i < j PROVE r[i] < r[j]
  <2>1. j - i - 1 \in Nat /\ i + (j - i - 1) + 1 = j
    BY <1>1, <1>7
  <2>2. j - i - 1 \in A
    BY <1>6, <2>1
  <2> QED BY <1>1, <2>1, <2>2
<1> QED BY <1>1, <1>2, <1>7 DEF Ascends

(* The identifiers of a sorted list rise, if they are distinct. *)
LEMMA SortedFiles ==
  ASSUME NEW a \in Seq(File), PlainFiles(a), NEW s \in SortedByID(a)
  PROVE  s \in Seq(File) /\ ToSet(s) = ToSet(a) /\ Ascends(s)
<1>1. PICK n : n = Len(a) /\ n \in Nat /\ DOMAIN a = 1..n /\ \A i \in 1..n : a[i] \in File
  BY FileRank
<1>2. PICK p \in Bijection(DOMAIN a, DOMAIN a) : s = [i \in DOMAIN a |-> a[p[i]]]
  BY DEF SortedByID
<1>3. \A i \in 1..n - 1 : Rank[s[i].id] <= Rank[s[i + 1].id]
  BY <1>1 DEF SortedByID
<1>4. /\ p \in [1..n -> 1..n]
      /\ \A i, j \in 1..n : p[i] = p[j] => i = j
      /\ \A k \in 1..n : \E i \in 1..n : p[i] = k
  BY <1>1, <1>2 DEF Bijection, Injection, Surjection, IsInjective
<1>5. s \in [1..n -> File] /\ \A i \in 1..n : s[i] = a[p[i]]
  BY <1>1, <1>2, <1>4
<1>6. s \in Seq(File) /\ Len(s) = n /\ DOMAIN s = 1..n
  BY <1>1, <1>5
<1>7. ToSet(s) = ToSet(a)
  <2>1. \A i \in 1..n : s[i] \in {a[k] : k \in 1..n}
    BY <1>4, <1>5
  <2>2. \A k \in 1..n : a[k] \in {s[i] : i \in 1..n}
    BY <1>4, <1>5
  <2> QED BY <1>1, <1>6, <2>1, <2>2, Zenon DEF ToSet
<1>8. ASSUME NEW i \in 1..n - 1 PROVE Rank[s[i].id] < Rank[s[i + 1].id]
  <2>1. i \in 1..n /\ i + 1 \in 1..n /\ i # i + 1
    BY <1>1
  <2>2. p[i] # p[i + 1] /\ p[i] \in 1..n /\ p[i + 1] \in 1..n
    BY <1>4, <2>1
  <2>3. a[p[i]].id # a[p[i + 1]].id
    BY <1>1, <2>2 DEF PlainFiles
  <2>4. s[i].id # s[i + 1].id
    BY <1>5, <2>1, <2>3
  <2>5. PICK x, y : x = Rank[s[i].id] /\ y = Rank[s[i + 1].id] /\ x \in Nat /\ y \in Nat
    BY <1>6, <2>1, FileRank
  <2>6. x # y
    BY <1>6, <2>1, <2>4, <2>5, FileRank, IdentityAssumption
  <2> QED BY <1>3, <2>5, <2>6
<1> QED BY <1>6, <1>7, <1>8, RisesOn

(* There is one list in that order of each set. *)
LEMMA PlacesAgree ==
  ASSUME NEW s \in Seq(File), NEW t \in Seq(File), Ascends(s), Ascends(t), ToSet(s) = ToSet(t)
  PROVE  \A i \in 1..Len(s) : i <= Len(t) /\ t[i] = s[i]
<1>1. PICK n, m : n = Len(s) /\ m = Len(t) /\ n \in Nat /\ m \in Nat /\ DOMAIN s = 1..n /\ DOMAIN t = 1..m
  BY FileRank
<1>2. PICK r, q : r = [i \in 1..n |-> Rank[s[i].id]] /\ q = [i \in 1..m |-> Rank[t[i].id]]
  OBVIOUS
<1>3. /\ r \in [1..n -> Nat] /\ q \in [1..m -> Nat]
      /\ \A i, j \in 1..n : i < j => r[i] < r[j]
      /\ \A i, j \in 1..m : i < j => q[i] < q[j]
      /\ \A i \in 1..n, j \in 1..m : s[i] = t[j] => r[i] = q[j]
  BY <1>1, <1>2, FileRank DEF Ascends
<1>4. /\ \A i \in 1..n : \E j \in 1..m : s[i] = t[j]
      /\ \A j \in 1..m : \E i \in 1..n : s[i] = t[j]
  BY <1>1 DEF ToSet
<1> DEFINE A == {k \in Nat : \A i \in 1..k : i <= n => i <= m /\ t[i] = s[i]}
<1>5. 0 \in A
  OBVIOUS
<1>6. ASSUME NEW k \in Nat, k \in A, k + 1 <= n PROVE k + 1 <= m /\ t[k + 1] = s[k + 1]
  <2>1. PICK h : h = k + 1 /\ h \in 1..n
    BY <1>1, <1>6
  <2>2. \A i \in 1..k : i \in 1..n /\ i \in 1..m /\ t[i] = s[i] /\ r[i] = q[i] /\ i < h
    <3>1. \A i \in 1..k : i \in 1..n /\ i <= m /\ t[i] = s[i] /\ i < h
      BY <1>1, <1>6, <2>1
    <3> QED BY <1>1, <1>3, <3>1
  <2>3. PICK j \in 1..m : s[h] = t[j]
    BY <1>4, <2>1
  <2>4. r[h] = q[j]
    BY <1>3, <2>1, <2>3
  <2>5. ~(j <= k)
    <3> SUFFICES ASSUME j <= k PROVE FALSE
      OBVIOUS
    <3>1. j \in 1..k
      BY <1>1
    <3>2. r[j] = q[j] /\ r[j] < r[h]
      BY <1>3, <2>1, <2>2, <3>1
    <3> QED BY <1>3, <2>1, <2>4, <3>2
  <2>6. h \in 1..m /\ h <= j
    BY <1>1, <2>1, <2>5
  <2>7. h = j
    <3> SUFFICES ASSUME h < j PROVE FALSE
      BY <1>1, <2>1, <2>6
    <3>1. PICK i \in 1..n : s[i] = t[h]
      BY <1>4, <2>6
    <3>2. r[i] = q[h] /\ q[h] < q[j]
      BY <1>3, <2>6, <3>1
    <3>3. i < h
      BY <1>1, <1>3, <2>1, <2>4, <2>6, <3>2
    <3>4. i \in 1..k
      BY <1>1, <2>1, <3>3
    <3>5. q[i] = q[h] /\ i \in 1..m
      BY <2>2, <3>2, <3>4
    <3> QED BY <1>3, <2>6, <3>3, <3>5
  <2> QED BY <1>1, <2>1, <2>3, <2>6, <2>7
<1>7. n \in A
  <2>1. \A k \in Nat : k \in A => k + 1 \in A
    <3> SUFFICES ASSUME NEW k \in Nat, k \in A PROVE k + 1 \in A
      OBVIOUS
    <3> SUFFICES ASSUME NEW i \in 1..k + 1, i <= n PROVE i <= m /\ t[i] = s[i]
      OBVIOUS
    <3>1. CASE i = k + 1
      BY <1>6, <3>1
    <3>2. CASE i \in 1..k
      BY <3>2
    <3> QED BY <3>1, <3>2
  <2> HIDE DEF A
  <2> QED BY <1>1, <1>5, <2>1, Induction
<1> QED BY <1>1, <1>7

LEMMA AscendingOnce ==
  ASSUME NEW s \in Seq(File), NEW t \in Seq(File), Ascends(s), Ascends(t), ToSet(s) = ToSet(t)
  PROVE  s = t
<1>1. Len(s) \in Nat /\ Len(t) \in Nat
  BY FileRank
<1>2. \A i \in 1..Len(s) : i <= Len(t) /\ t[i] = s[i]
  BY PlacesAgree
<1>3. \A i \in 1..Len(t) : i <= Len(s)
  BY PlacesAgree
<1>4. Len(s) = Len(t)
  <2>1. Len(s) <= Len(t)
    BY <1>1, <1>2
  <2>2. Len(t) <= Len(s)
    BY <1>1, <1>3
  <2> QED BY <1>1, <2>1, <2>2
<1> QED BY <1>2, <1>4

(***************************************************************************)
(* The digest.                                                             *)
(***************************************************************************)
PairsOf(s) == FlattenSeq([i \in DOMAIN s |-> <<s[i].id, s[i].state>>])

Cell == FileIDs \cup FileStates

LEMMA PairsType ==
  ASSUME NEW s \in Seq(File)
  PROVE  /\ PairsOf(s) \in Seq(Cell) /\ Len(PairsOf(s)) = 2 * Len(s)
         /\ \A i \in 1..Len(s) : PairsOf(s)[2 * i - 1] = s[i].id /\ PairsOf(s)[2 * i] = s[i].state
<1>1. PICK n : n = Len(s) /\ n \in Nat /\ DOMAIN s = 1..n
  BY FileRank
<1>2. PICK ss : ss = [i \in DOMAIN s |-> <<s[i].id, s[i].state>>]
  OBVIOUS
<1>3. \A i \in 1..n : /\ ss[i] = <<s[i].id, s[i].state>>
                      /\ ss[i] \in Seq(Cell) /\ Len(ss[i]) = 2 /\ ss[i][1] = s[i].id /\ ss[i][2] = s[i].state
  BY <1>1, <1>2, FileRank DEF Cell
<1>4. ss \in Seq(Seq(Cell)) /\ Len(ss) = n /\ DOMAIN ss = 1..n
  BY <1>1, <1>2, <1>3
<1>5. /\ FlattenSeq(ss) \in Seq(Cell)
      /\ Len(FlattenSeq(ss)) = 2 * Len(ss)
      /\ \A i \in DOMAIN ss : /\ FlattenSeq(ss)[2 * i - 1] = ss[i][1]
                              /\ FlattenSeq(ss)[2 * i] = ss[i][2]
  BY <1>3, <1>4, FlattenPairs
<1>6. PairsOf(s) = FlattenSeq(ss)
  BY <1>2 DEF PairsOf
<1> QED BY <1>1, <1>3, <1>4, <1>5, <1>6, Zenon

(* The pairs tell the list. *)
LEMMA PairsTell ==
  ASSUME NEW s \in Seq(File), NEW t \in Seq(File), PairsOf(s) = PairsOf(t)
  PROVE  s = t
<1>1. Len(s) \in Nat /\ Len(t) \in Nat /\ Len(s) = Len(t)
  BY PairsType, FileRank
<1>2. ASSUME NEW i \in 1..Len(s) PROVE s[i] = t[i]
  <2>1. PICK q : q = PairsOf(s) /\ q = PairsOf(t)
    OBVIOUS
  <2>4. q[2 * i - 1] = s[i].id /\ q[2 * i] = s[i].state
    BY <2>1, PairsType, Zenon
  <2>5. i \in 1..Len(t)
    BY <1>1
  <2>6. q[2 * i - 1] = t[i].id /\ q[2 * i] = t[i].state
    BY <2>1, <2>5, PairsType, Zenon
  <2>3. s[i].id = t[i].id /\ s[i].state = t[i].state
    BY <2>4, <2>6, Zenon
  <2>2. s[i] \in File /\ t[i] \in File
    BY <1>1, FileRank
  <2> QED BY <2>2, <2>3 DEF File
<1> QED BY <1>1, <1>2

(* The names as they are digested. *)
NamesOf(names) == IF names = <<>> THEN <<"">> ELSE names

Digest(t, names, pairs) == Cat(Cat(<<t>>, NamesOf(names)), pairs)

Sign == Texts \cup Labelled \cup {""} \cup Cell

(* How a digest is laid out: the text, k names, the pairs. *)
Layout(d, t, k, z, p) ==
  /\ k \in Nat /\ k >= 1 /\ z \in Seq(Labelled \cup {""}) /\ Len(z) = k
  /\ Len(d) = k + 1 + Len(p)
  /\ d[1] = t
  /\ \A j \in 1..k : d[1 + j] = z[j]
  /\ \A j \in 1..Len(p) : d[k + 1 + j] = p[j]

LEMMA DigestParts ==
  ASSUME NEW t \in Texts, NEW names \in Seq(Labelled), NEW pairs \in Seq(Cell)
  PROVE  \E k : Layout(Digest(t, names, pairs), t, k, NamesOf(names), pairs)
<1>1. PICK z : z = NamesOf(names)
  OBVIOUS
<1>a. z \in Seq(Labelled \cup {""}) /\ Len(z) \in Nat /\ Len(z) >= 1
  <2>1. CASE names = <<>>
    <3>1. z = <<"">>
      BY <1>1, <2>1 DEF NamesOf
    <3>2. "" \in Labelled \cup {""}
      OBVIOUS
    <3>3. z \in Seq(Labelled \cup {""}) /\ Len(z) = 1
      BY <3>1, <3>2, SingleSeq, Zenon
    <3>4. Len(z) \in Nat /\ Len(z) >= 1
      <4>1. 1 \in Nat /\ 1 >= 1
        OBVIOUS
      <4> QED BY <3>3, <4>1, Zenon
    <3> QED BY <3>3, <3>4, Zenon
  <2>2. CASE names # <<>>
    <3>1. z = names
      BY <1>1, <2>2 DEF NamesOf
    <3>2. names \in Seq(Labelled \cup {""})
      BY SeqOfMore
    <3>3. Len(names) \in Nat /\ Len(names) >= 1
      BY <2>2
    <3> QED BY <3>1, <3>2, <3>3
  <2> QED BY <2>1, <2>2
<1>2. PICK k : k = Len(z) /\ k \in Nat /\ k >= 1
  BY <1>a
<1>3. <<t>> \in Seq(Sign) /\ z \in Seq(Sign) /\ pairs \in Seq(Sign) /\ Len(<<t>>) = 1 /\ <<t>>[1] = t
  <2>1. Labelled \cup {""} \subseteq Sign /\ Cell \subseteq Sign /\ t \in Sign
    BY DEF Sign
  <2>2. z \in Seq(Sign) /\ pairs \in Seq(Sign)
    BY <1>a, <2>1, SeqOfMore
  <2>3. <<t>> \in Seq(Sign) /\ Len(<<t>>) = 1 /\ <<t>>[1] = t
    BY <2>1, SingleSeq, Zenon
  <2> QED BY <2>2, <2>3
<1>4. PICK b : b = Cat(<<t>>, z)
  OBVIOUS
<1>5. b \in Seq(Sign) /\ Parts(b, <<t>>, z) /\ Parts(Cat(b, pairs), b, pairs)
  BY <1>3, <1>4, CatParts
<1>6. Len(b) = 1 + k /\ b[1] = t /\ \A j \in 1..k : b[1 + j] = z[j]
  <2>1. /\ Len(b) = Len(<<t>>) + Len(z)
        /\ \A j \in 1..Len(<<t>>) : b[j] = <<t>>[j]
        /\ \A j \in 1..Len(z) : b[Len(<<t>>) + j] = z[j]
    BY <1>5, Zenon DEF Parts
  <2>2. /\ Len(b) = 1 + k /\ \A j \in 1..1 : b[j] = <<t>>[j]
        /\ \A j \in 1..k : b[1 + j] = z[j]
    BY <1>2, <1>3, <2>1, Zenon
  <2> QED BY <1>3, <2>2
<1>7. PICK d : d = Cat(b, pairs)
  OBVIOUS
<1>8. /\ Len(d) = 1 + k + Len(pairs)
      /\ \A j \in 1..1 + k : d[j] = b[j]
      /\ \A j \in 1..Len(pairs) : d[1 + k + j] = pairs[j]
  <2>1. /\ Len(d) = Len(b) + Len(pairs)
        /\ \A j \in 1..Len(b) : d[j] = b[j]
        /\ \A j \in 1..Len(pairs) : d[Len(b) + j] = pairs[j]
    BY <1>5, <1>7, Zenon DEF Parts
  <2> QED BY <1>6, <2>1, Zenon
<1>9. d[1] = t /\ \A j \in 1..k : d[1 + j] = z[j]
  BY <1>2, <1>6, <1>8
<1>10. 1 + k = k + 1
  BY <1>2
<1>11. d = Digest(t, names, pairs)
  BY <1>1, <1>4, <1>7 DEF Digest
<1>12. Layout(d, t, k, z, pairs)
  <2>1. Len(d) = k + 1 + Len(pairs) /\ \A j \in 1..Len(pairs) : d[k + 1 + j] = pairs[j]
    BY <1>8, <1>10, Zenon
  <2> QED BY <1>a, <1>2, <1>9, <2>1, Zenon DEF Layout
<1> QED BY <1>1, <1>11, <1>12, Zenon

LEMMA FirstPair ==
  ASSUME NEW s \in Seq(File), Len(PairsOf(s)) >= 1
  PROVE  PairsOf(s)[1] \in FileIDs
<1>1. Len(s) \in Nat /\ Len(PairsOf(s)) = 2 * Len(s)
  BY PairsType, FileRank
<1>2. 1 \in 1..Len(s) /\ 2 * 1 - 1 = 1
  BY <1>1
<1>3. PairsOf(s)[2 * 1 - 1] = s[1].id
  BY <1>2, PairsType
<1> QED BY <1>2, <1>3, FileRank

(* The digest tells its parts. *)
LEMMA DigestTells ==
  ASSUME NEW t \in Texts, NEW names \in Seq(Labelled), NEW s \in Seq(File),
         NEW u \in Texts, NEW others \in Seq(Labelled), NEW r \in Seq(File),
         Digest(t, names, PairsOf(s)) = Digest(u, others, PairsOf(r))
  PROVE  t = u /\ names = others /\ s = r
<1>1. PICK p, q : p = PairsOf(s) /\ q = PairsOf(r) /\ p \in Seq(Cell) /\ q \in Seq(Cell)
  BY PairsType
<1>2. PICK d : d = Digest(t, names, p) /\ d = Digest(u, others, q)
  BY <1>1
<1>3. PICK x, y : x = NamesOf(names) /\ y = NamesOf(others)
  OBVIOUS
<1>a. PICK k : Layout(d, t, k, x, p)
  BY <1>1, <1>2, <1>3, DigestParts, Zenon
<1>b. PICK l : Layout(d, u, l, y, q)
  BY <1>1, <1>2, <1>3, DigestParts, Zenon
<1>4. /\ k \in Nat /\ k >= 1 /\ x \in Seq(Labelled \cup {""}) /\ Len(x) = k
      /\ Len(d) = k + 1 + Len(p) /\ d[1] = t
      /\ \A j \in 1..k : d[1 + j] = x[j]
      /\ \A j \in 1..Len(p) : d[k + 1 + j] = p[j]
  BY <1>a, Zenon DEF Layout
<1>5. /\ l \in Nat /\ l >= 1 /\ y \in Seq(Labelled \cup {""}) /\ Len(y) = l
      /\ Len(d) = l + 1 + Len(q) /\ d[1] = u
      /\ \A j \in 1..l : d[1 + j] = y[j]
      /\ \A j \in 1..Len(q) : d[l + 1 + j] = q[j]
  BY <1>b, Zenon DEF Layout
<1>6. FileIDs \cap (Labelled \cup {""}) = {}
  BY IdentityAssumption DEF Labelled
<1>7. PICK m, n : /\ m = Len(p) /\ n = Len(q) /\ m \in Nat /\ n \in Nat
                  /\ (m >= 1 => p[1] \in FileIDs) /\ (n >= 1 => q[1] \in FileIDs)
  <2>1. Len(p) \in Nat /\ Len(q) \in Nat
    BY <1>1
  <2>2. Len(p) >= 1 => p[1] \in FileIDs
    BY <1>1, FirstPair
  <2>3. Len(q) >= 1 => q[1] \in FileIDs
    BY <1>1, FirstPair
  <2> QED BY <2>1, <2>2, <2>3
<1>8. \A j \in 1..k : x[j] \in Labelled \cup {""}
  BY <1>4, SeqElement, Zenon
<1>9. \A j \in 1..l : y[j] \in Labelled \cup {""}
  BY <1>5, SeqElement, Zenon
<1>10. k + 1 + m = l + 1 + n
  BY <1>4, <1>5, <1>7
<1>n. k \in Nat /\ l \in Nat /\ m \in Nat /\ n \in Nat /\ k + 1 + m = l + 1 + n
  BY <1>4, <1>5, <1>7, <1>10, Zenon
<1>11. ~(k < l)
  <2> SUFFICES ASSUME k < l PROVE FALSE
    OBVIOUS
  <2>1. k + 1 \in 1..l /\ m >= 1 /\ 1 \in 1..m /\ 1 + (k + 1) = k + 1 + 1
    BY <1>n
  <2>2. d[1 + (k + 1)] = y[k + 1] /\ y[k + 1] \in Labelled \cup {""}
    BY <1>5, <1>9, <2>1
  <2>3. d[k + 1 + 1] = p[1] /\ p[1] \in FileIDs
    BY <1>4, <1>7, <2>1
  <2> QED BY <1>6, <2>1, <2>2, <2>3
<1>12. ~(l < k)
  <2> SUFFICES ASSUME l < k PROVE FALSE
    OBVIOUS
  <2>1. l + 1 \in 1..k /\ n >= 1 /\ 1 \in 1..n /\ 1 + (l + 1) = l + 1 + 1
    BY <1>n
  <2>2. d[1 + (l + 1)] = x[l + 1] /\ x[l + 1] \in Labelled \cup {""}
    BY <1>4, <1>8, <2>1
  <2>3. d[l + 1 + 1] = q[1] /\ q[1] \in FileIDs
    BY <1>5, <1>7, <2>1
  <2> QED BY <1>6, <2>1, <2>2, <2>3
<1>13. k = l /\ m = n
  BY <1>n, <1>11, <1>12
<1>14. x = y
  <2>1. Len(x) = Len(y) /\ \A j \in 1..Len(x) : x[j] = y[j]
    BY <1>4, <1>5, <1>13, Zenon
  <2> QED BY <1>4, <1>5, <2>1, SeqSame, Zenon
<1>15. p = q
  <2>1. Len(p) = Len(q) /\ \A j \in 1..Len(p) : p[j] = q[j]
    BY <1>4, <1>5, <1>7, <1>13, Zenon
  <2> QED BY <1>1, <2>1, SeqSame, Zenon
<1>16. names = others
  <2>1. \A v \in Seq(Labelled) : v # <<>> => v # <<"">>
    <3>2. 1 \in 1..1
      OBVIOUS
    <3> SUFFICES ASSUME NEW v \in Seq(Labelled), v = <<"">> PROVE FALSE
      OBVIOUS
    <3>1. Len(v) = 1 /\ v[1] = ""
      BY SingleSeq, Zenon
    <3>3. v[1] \in Labelled
      BY <3>1, <3>2, SeqElement, Zenon
    <3> QED BY <3>1, <3>3 DEF Labelled
  <2> QED BY <1>3, <1>14, <2>1 DEF NamesOf
<1>17. s = r
  BY <1>1, <1>15, PairsTell
<1> QED BY <1>4, <1>5, <1>16, <1>17

(***************************************************************************)
(* The mail and the items it is about.                                     *)
(***************************************************************************)
Answers(t, g, a) == {Digest(t, GroupNames(g), PairsOf(s)) : s \in SortedByID(a)}

SaysOf(t, g, a) == [text |-> t, groups |-> ToSet(Labels(g)), files |-> ToSet(a)]

PlainOf(g, a) == PlainNames(g) /\ PlainFiles(a)

(* Digests of two plain items agree if and only if they say the same. *)
LEMMA AnswersTell ==
  ASSUME NEW t \in Texts, NEW g \in Seq(Names), NEW a \in Seq(File), PlainOf(g, a), NEW r \in Answers(t, g, a),
         NEW u \in Texts, NEW h \in Seq(Names), NEW b \in Seq(File), PlainOf(h, b), NEW q \in Answers(u, h, b)
  PROVE  r = q <=> SaysOf(t, g, a) = SaysOf(u, h, b)
<1>1. PICK s \in SortedByID(a) : r = Digest(t, GroupNames(g), PairsOf(s))
  BY DEF Answers
<1>2. PICK w \in SortedByID(b) : q = Digest(u, GroupNames(h), PairsOf(w))
  BY DEF Answers
<1>3. PlainNames(g) /\ PlainNames(h) /\ PlainFiles(a) /\ PlainFiles(b)
  BY DEF PlainOf
<1>4. s \in Seq(File) /\ ToSet(s) = ToSet(a) /\ Ascends(s)
  BY <1>3, SortedFiles
<1>5. w \in Seq(File) /\ ToSet(w) = ToSet(b) /\ Ascends(w)
  BY <1>3, SortedFiles
<1>6. GroupNames(g) \in Seq(Labelled) /\ GroupNames(h) \in Seq(Labelled)
  BY <1>3, SortedNames
<1>7. GroupNames(g) = GroupNames(h) <=> ToSet(Labels(g)) = ToSet(Labels(h))
  BY <1>3, NamesAlike
<1>8. s = w <=> ToSet(a) = ToSet(b)
  BY <1>4, <1>5, AscendingOnce
<1>9. r = q <=> t = u /\ GroupNames(g) = GroupNames(h) /\ s = w
  BY <1>1, <1>2, <1>4, <1>5, <1>6, DigestTells
<1>10. SaysOf(t, g, a) = SaysOf(u, h, b)
         <=> t = u /\ ToSet(Labels(g)) = ToSet(Labels(h)) /\ ToSet(a) = ToSet(b)
  BY DEF SaysOf
<1> QED BY <1>7, <1>8, <1>9, <1>10

(* The mail was built from some item, and says what that one said. *)
IdentityInv ==
  /\ text \in Texts /\ groups \in Seq(Names) /\ attachments \in Seq(File)
  /\ marker # NotSent =>
       \E t \in Texts, g \in Seq(Names), a \in Seq(File) :
         /\ mailed = [says |-> SaysOf(t, g, a), plain |-> PlainOf(g, a)]
         /\ marker \in Answers(t, g, a)

LEMMA RevisionsAre ==
  /\ Revisions = Answers(text, groups, attachments)
  /\ Meaning = SaysOf(text, groups, attachments)
  /\ Unambiguous <=> PlainOf(groups, attachments)
<1>1. Revisions = Answers(text, groups, attachments)
  BY Zenon DEF Revisions, Answers, Digest, NamesOf, PairsOf, Cat
<1>2. Meaning = SaysOf(text, groups, attachments)
  BY DEF Meaning, SaysOf
<1>3. Unambiguous <=> PlainOf(groups, attachments)
  BY DEF Unambiguous, PlainOf, PlainNames, PlainFiles
<1> QED BY <1>1, <1>2, <1>3

LEMMA IdentityFound == IdentityInv => FoundAgain
<1> SUFFICES ASSUME IdentityInv, marker # NotSent, mailed.plain, Unambiguous, NEW r \in Revisions
             PROVE  r = marker <=> Meaning = mailed.says
  BY DEF FoundAgain
<1>1. PICK t \in Texts, g \in Seq(Names), a \in Seq(File) :
        /\ mailed = [says |-> SaysOf(t, g, a), plain |-> PlainOf(g, a)]
        /\ marker \in Answers(t, g, a)
  BY DEF IdentityInv
<1>2. PlainOf(g, a) /\ mailed.says = SaysOf(t, g, a)
  BY <1>1
<1>3. r \in Answers(text, groups, attachments) /\ PlainOf(groups, attachments)
  BY RevisionsAre
<1>4. text \in Texts /\ groups \in Seq(Names) /\ attachments \in Seq(File)
  BY DEF IdentityInv
<1>5. r = marker <=> SaysOf(text, groups, attachments) = SaysOf(t, g, a)
  BY <1>1, <1>2, <1>3, <1>4, AnswersTell
<1> QED BY <1>2, <1>5, RevisionsAre

LEMMA IdentityStart == IdentityInit => IdentityInv
<1> SUFFICES ASSUME IdentityInit PROVE IdentityInv
  OBVIOUS
<1>1. text \in Texts
  <2>1. 1 \in Texts
    BY IdentityAssumption
  <2> QED BY <2>1 DEF IdentityInit
<1>2. groups \in Seq(Names) /\ attachments \in Seq(File)
  BY DEF IdentityInit
<1>3. marker = NotSent
  BY DEF IdentityInit
<1> QED BY <1>1, <1>2, <1>3 DEF IdentityInv

LEMMA EditedType ==
  ASSUME NEW S, NEW s \in Seq(S)
  PROVE  /\ \A x \in S : Append(s, x) \in Seq(S)
         /\ s # <<>> => Front(s) \in Seq(S)
         /\ \A i \in 1..Len(s) - 1 : Swapped(s, i) \in Seq(S)
<1>1. \A x \in S : Append(s, x) \in Seq(S)
  BY AppendProperties
<1>2. ASSUME s # <<>> PROVE Front(s) \in Seq(S)
  BY <1>2 DEF Front
<1>3. ASSUME NEW i \in 1..Len(s) - 1 PROVE Swapped(s, i) \in Seq(S)
  BY DEF Swapped
<1> QED BY <1>1, <1>2, <1>3

LEMMA IdentityStep == IdentityInv /\ [IdentityNext]_identityVars => IdentityInv'
<1> SUFFICES ASSUME IdentityInv, [IdentityNext]_identityVars PROVE IdentityInv'
  OBVIOUS
<1>1. CASE Relist
  <2>1. groups' \in Seq(Names) /\ attachments' \in Seq(File)
    <3>1. groups \in Seq(Names) /\ attachments \in Seq(File)
      BY DEF IdentityInv
    <3>2. CASE \E i \in 1..Len(groups) - 1 : groups' = Swapped(groups, i) /\ UNCHANGED attachments
      BY <3>1, <3>2, EditedType
    <3>3. CASE \E i \in 1..Len(attachments) - 1 : attachments' = Swapped(attachments, i) /\ UNCHANGED groups
      BY <3>1, <3>3, EditedType
    <3> QED BY <1>1, <3>2, <3>3 DEF Relist
  <2> QED BY <1>1, <2>1 DEF Relist, IdentityInv
<1>2. CASE EditGroups
  <2>1. groups' \in Seq(Names)
    <3>1. groups \in Seq(Names)
      BY DEF IdentityInv
    <3> QED BY <1>2, <3>1, EditedType DEF EditGroups
  <2> QED BY <1>2, <2>1 DEF EditGroups, IdentityInv
<1>3. CASE EditFiles
  <2>1. attachments' \in Seq(File)
    <3>1. attachments \in Seq(File)
      BY DEF IdentityInv
    <3>2. \A id \in FileIDs, state \in FileStates : [id |-> id, state |-> state] \in File
      BY DEF File
    <3>3. CASE \E id \in FileIDs, state \in FileStates : attachments' = Append(attachments, [id |-> id, state |-> state])
      BY <3>1, <3>2, <3>3, EditedType
    <3>4. CASE attachments # <<>> /\ attachments' = Front(attachments)
      BY <3>1, <3>4, EditedType
    <3> QED BY <1>3, <3>3, <3>4 DEF EditFiles
  <2> QED BY <1>3, <2>1 DEF EditFiles, IdentityInv
<1>4. CASE EditText
  BY <1>4 DEF EditText, IdentityInv
<1>5. CASE Deliver
  <2>1. /\ marker' \in Answers(text, groups, attachments)
        /\ mailed' = [says |-> SaysOf(text, groups, attachments), plain |-> PlainOf(groups, attachments)]
        /\ UNCHANGED <<text, groups, attachments>>
    <3>1. /\ marker' \in Revisions
          /\ mailed' = [says |-> Meaning, plain |-> Unambiguous]
          /\ UNCHANGED <<text, groups, attachments>>
      BY <1>5 DEF Deliver, detail
    <3>2. [says |-> Meaning, plain |-> Unambiguous]
            = [says |-> SaysOf(text, groups, attachments), plain |-> PlainOf(groups, attachments)]
      BY Zenon DEF Meaning, SaysOf, Unambiguous, PlainOf, PlainNames, PlainFiles
    <3> QED BY <3>1, <3>2, RevisionsAre, Zenon
  <2> QED BY <2>1 DEF IdentityInv
<1>6. CASE UNCHANGED identityVars
  BY <1>6 DEF identityVars, detail, IdentityInv
<1> QED BY <1>1, <1>2, <1>3, <1>4, <1>5, <1>6 DEF IdentityNext

(***************************************************************************)
(* Replacing each character by some.                                       *)
(***************************************************************************)
(* A function, by a name that proofs can leave folded. *)
Maps(h, S, T) == h \in [S -> T]

Mapped(h, s) == [i \in DOMAIN s |-> h[s[i]]]

Through(h, s) == FlattenSeq(Mapped(h, s))

LEMMA MappedIs ==
  ASSUME NEW S, NEW T, NEW h, Maps(h, S, T)
  PROVE  /\ Mapped(h, <<>>) = <<>>
         /\ \A s \in Seq(S) : Mapped(h, s) \in Seq(T) /\ Len(Mapped(h, s)) = Len(s)
         /\ \A x \in S : Mapped(h, <<x>>) = <<h[x]>>
<1>1. Mapped(h, <<>>) = <<>>
  BY DEF Mapped, Maps
<1>2. ASSUME NEW s \in Seq(S)
      PROVE  /\ Mapped(h, s) \in Seq(T) /\ Len(Mapped(h, s)) = Len(s)
             /\ \A i \in 1..Len(s) : Mapped(h, s)[i] = h[s[i]]
  BY DEF Mapped, Maps
<1>3. ASSUME NEW x \in S PROVE Mapped(h, <<x>>) = <<h[x]>>
  BY DEF Mapped, Maps
<1> QED BY <1>1, <1>2, <1>3

LEMMA MappedElement ==
  ASSUME NEW S, NEW T, NEW h, Maps(h, S, T), NEW s \in Seq(S)
  PROVE  /\ Mapped(h, s) \in Seq(T) /\ Len(Mapped(h, s)) = Len(s)
         /\ \A i \in 1..Len(s) : Mapped(h, s)[i] = h[s[i]]
  BY DEF Mapped, Maps

LEMMA MappedCat ==
  ASSUME NEW S, NEW T, NEW h, Maps(h, S, T), NEW s \in Seq(S), NEW t \in Seq(S)
  PROVE  Mapped(h, Cat(s, t)) = Cat(Mapped(h, s), Mapped(h, t))
<1>1. PICK u, v, w, z : u = Cat(s, t) /\ v = Mapped(h, s) /\ w = Mapped(h, t) /\ z = Cat(v, w)
  OBVIOUS
<1>2. u \in Seq(S) /\ v \in Seq(T) /\ w \in Seq(T) /\ z \in Seq(T) /\ Parts(u, s, t) /\ Parts(z, v, w)
  BY MappedElement, <1>1, CatParts
<1>3. PICK k, m : k = Len(s) /\ m = Len(t) /\ k \in Nat /\ m \in Nat
  <2>1. Len(s) \in Nat /\ Len(t) \in Nat
    OBVIOUS
  <2> QED BY <2>1, Zenon
<1>4. /\ Len(v) = k /\ \A i \in 1..k : v[i] = h[s[i]]
      /\ Len(w) = m /\ \A i \in 1..m : w[i] = h[t[i]]
  BY MappedElement, <1>1, <1>3
<1>5. Len(u) = k + m /\ (\A i \in 1..k : u[i] = s[i]) /\ \A i \in 1..m : u[k + i] = t[i]
  BY <1>2, <1>3, Zenon DEF Parts
<1>6. Len(z) = k + m /\ (\A i \in 1..k : z[i] = v[i]) /\ \A i \in 1..m : z[k + i] = w[i]
  BY <1>2, <1>4, Zenon DEF Parts
<1>7. Mapped(h, u) \in Seq(T) /\ Len(Mapped(h, u)) = k + m /\ \A i \in 1..k + m : Mapped(h, u)[i] = h[u[i]]
  <2>1. /\ Mapped(h, u) \in Seq(T) /\ Len(Mapped(h, u)) = Len(u)
        /\ \A i \in 1..Len(u) : Mapped(h, u)[i] = h[u[i]]
    BY <1>2, MappedElement
  <2> QED BY <1>5, <2>1, Zenon
<1>8. ASSUME NEW i \in 1..k + m PROVE Mapped(h, u)[i] = z[i]
  <2>1. CASE i \in 1..k
    <3>1. u[i] = s[i] /\ z[i] = v[i] /\ v[i] = h[s[i]] /\ Mapped(h, u)[i] = h[u[i]]
      BY <1>4, <1>5, <1>6, <1>7, <2>1
    <3> QED BY <3>1, Zenon
  <2>2. CASE ~(i \in 1..k)
    <3>1. PICK j \in 1..m : i = k + j
      <4>1. i - k \in 1..m /\ i = k + (i - k)
        BY <1>3, <2>2
      <4> QED BY <4>1
    <3>2. u[k + j] = t[j] /\ z[k + j] = w[j] /\ w[j] = h[t[j]]
      BY <1>4, <1>5, <1>6
    <3>3. Mapped(h, u)[i] = h[u[i]]
      BY <1>7
    <3> QED BY <3>1, <3>2, <3>3, Zenon
  <2> QED BY <2>1, <2>2
<1> HIDE DEF Cat
<1>9. Mapped(h, u) = z
  BY <1>2, <1>6, <1>7, <1>8, SeqSame
<1> QED BY <1>1, <1>9, Zenon

LEMMA ThroughIs ==
  ASSUME NEW S, NEW T, NEW h, Maps(h, S, Seq(T))
  PROVE  /\ Through(h, <<>>) = <<>>
         /\ \A s \in Seq(S) : Through(h, s) \in Seq(T)
         /\ \A x \in S : Through(h, <<x>>) = h[x]
<1>1. Through(h, <<>>) = <<>>
  BY MappedIs, FlattenEmpty DEF Through
<1>2. ASSUME NEW s \in Seq(S) PROVE Through(h, s) \in Seq(T)
  BY MappedIs, FlattenType DEF Through
<1>3. ASSUME NEW x \in S PROVE Through(h, <<x>>) = h[x]
  <2>1. Mapped(h, <<x>>) = <<h[x]>> /\ h[x] \in Seq(T)
    <3>1. Mapped(h, <<x>>) = <<h[x]>>
      BY MappedIs
    <3>2. h[x] \in Seq(T)
      BY DEF Maps
    <3> QED BY <3>1, <3>2
  <2>2. FlattenSeq(<<h[x]>>) = h[x]
    <3>1. <<>> \in Seq(Seq(T))
      OBVIOUS
    <3> QED BY <2>1, <3>1, FlattenOne
  <2> QED BY <2>1, <2>2 DEF Through
<1> QED BY <1>1, <1>2, <1>3

LEMMA ThroughCat ==
  ASSUME NEW S, NEW T, NEW h, Maps(h, S, Seq(T)), NEW s \in Seq(S), NEW t \in Seq(S)
  PROVE  Through(h, Cat(s, t)) = Cat(Through(h, s), Through(h, t))
<1>1. PICK u, v : u = Mapped(h, s) /\ v = Mapped(h, t) /\ u \in Seq(Seq(T)) /\ v \in Seq(Seq(T))
  BY MappedIs
<1>2. Mapped(h, Cat(s, t)) = Cat(u, v)
  BY <1>1, MappedCat
<1>3. FlattenSeq(u \o v) = FlattenSeq(u) \o FlattenSeq(v)
  BY <1>1, FlattenConcat
<1> QED BY <1>1, <1>2, <1>3 DEF Through, Cat

LEMMA ThroughCons ==
  ASSUME NEW S, NEW T, NEW h, Maps(h, S, Seq(T)), NEW x \in S, NEW s \in Seq(S)
  PROVE  Through(h, Cat(<<x>>, s)) = Cat(h[x], Through(h, s))
<1>1. PICK o : o = <<x>>
  OBVIOUS
<1>2. o \in Seq(S)
  BY <1>1
<1>3. Through(h, Cat(o, s)) = Cat(Through(h, o), Through(h, s))
  BY <1>2, ThroughCat
<1>4. Through(h, <<x>>) = h[x]
  BY ThroughIs
<1> QED BY <1>1, <1>3, <1>4, Zenon

(* Two replacements are one. *)
LEMMA ThroughBoth ==
  ASSUME NEW S, NEW T, NEW U, NEW h, Maps(h, S, Seq(T)), NEW g, Maps(g, T, Seq(U))
  PROVE  \A s \in Seq(S) : Through(g, Through(h, s)) = Through([x \in S |-> Through(g, h[x])], s)
<1>1. PICK b : b = [x \in S |-> Through(g, h[x])]
  OBVIOUS
<1>2. Maps(b, S, Seq(U)) /\ \A x \in S : b[x] = Through(g, h[x]) /\ h[x] \in Seq(T)
  <2>1. \A x \in S : h[x] \in Seq(T)
    BY DEF Maps
  <2> QED BY <1>1, <2>1, ThroughIs DEF Maps
<1> DEFINE A == {s \in Seq(S) : Through(g, Through(h, s)) = Through(b, s)}
<1>3. <<>> \in A
  <2>1. Through(h, <<>>) = <<>> /\ Through(g, <<>>) = <<>> /\ Through(b, <<>>) = <<>>
    BY <1>2, ThroughIs
  <2> QED BY <2>1
<1>4. ASSUME NEW s \in Seq(S), NEW x \in S, s \in A PROVE Cat(<<x>>, s) \in A
  <2>1. <<x>> \in Seq(S) /\ Cat(<<x>>, s) \in Seq(S)
    BY CatParts, SingleSeq
  <2>2. Through(h, Cat(<<x>>, s)) = Cat(h[x], Through(h, s))
    BY ThroughCons
  <2>3. h[x] \in Seq(T) /\ Through(h, s) \in Seq(T)
    BY <1>2, ThroughIs
  <2>4. Through(g, Cat(h[x], Through(h, s))) = Cat(Through(g, h[x]), Through(g, Through(h, s)))
    BY <2>3, ThroughCat
  <2>5. Through(b, Cat(<<x>>, s)) = Cat(b[x], Through(b, s))
    BY <1>2, ThroughCons
  <2> QED BY <1>2, <1>4, <2>1, <2>2, <2>4, <2>5
<1>5. Seq(S) \subseteq A
  <2> HIDE DEF A
  <2> QED BY <1>3, <1>4, LeftInduction
<1> QED BY <1>1, <1>5

LEMMA ThroughTwo ==
  ASSUME NEW S, NEW T, NEW h, Maps(h, S, Seq(T)), NEW x \in S, NEW y \in S
  PROVE  Through(h, <<x, y>>) = Cat(h[x], h[y])
<1>1. PICK o : o = <<y>>
  OBVIOUS
<1>2. o \in Seq(S) /\ Through(h, o) = h[y]
  BY <1>1, ThroughIs
<1>3. Through(h, Cat(<<x>>, o)) = Cat(h[x], Through(h, o))
  BY <1>2, ThroughCons
<1>4. Cat(<<x>>, o) = <<x, y>>
  BY <1>1, CatTwo, Zenon
<1> QED BY <1>2, <1>3, <1>4, Zenon

Agrees(g, h, e, S) == \A x \in S : Through(g, h[x]) = e[x]

LEMMA ThroughAs ==
  ASSUME NEW S, NEW T, NEW U, NEW h, Maps(h, S, Seq(T)), NEW g, Maps(g, T, Seq(U)),
         NEW e, Maps(e, S, Seq(U)), Agrees(g, h, e, S)
  PROVE  \A s \in Seq(S) : Through(g, Through(h, s)) = Through(e, s)
<1>1. [x \in S |-> Through(g, h[x])] = e
  BY DEF Maps, Agrees
<1> QED BY <1>1, ThroughBoth

(***************************************************************************)
(* The text of an event.                                                   *)
(***************************************************************************)
Becomes(c, by) == [x \in Char |-> IF x = c THEN by ELSE <<x>>]

LEMMA BecomesMaps ==
  ASSUME NEW c, NEW by \in Seq(Char)
  PROVE  Maps(Becomes(c, by), Char, Seq(Char))
  BY DEF Becomes, Maps

LEMMA SubstituteIs ==
  ASSUME NEW c, NEW by \in Seq(Char), NEW s \in Seq(Char)
  PROVE  Substitute(s, c, by) = Through(Becomes(c, by), s) /\ Substitute(s, c, by) \in Seq(Char)
<1>1. \A i \in DOMAIN s : s[i] \in Char
  OBVIOUS
<1>2. [i \in DOMAIN s |-> IF s[i] = c THEN by ELSE <<s[i]>>] = Mapped(Becomes(c, by), s)
  BY <1>1 DEF Mapped, Becomes
<1>3. Through(Becomes(c, by), s) \in Seq(Char)
  BY BecomesMaps, ThroughIs
<1> QED BY <1>2, <1>3 DEF Substitute, Through

(* What each character becomes, replacement by replacement. *)
Pair(x) == <<"\\", x>>

Doubled == Becomes("\\", Pair("\\"))
NewLined == Becomes("CR", <<"LF">>)
Semis == Becomes(";", Pair(";"))
Commas == Becomes(",", Pair(","))
LineEnds == Becomes("LF", Pair("n"))

Escaped1 == [x \in Char |-> IF x = "\\" THEN Pair(x) ELSE IF x = "CR" THEN <<"LF">> ELSE <<x>>]
Escaped2 == [x \in Char |-> IF x \in {"\\", ";"} THEN Pair(x) ELSE IF x = "CR" THEN <<"LF">> ELSE <<x>>]
Escaped3 == [x \in Char |-> IF x \in {"\\", ";", ","} THEN Pair(x) ELSE IF x = "CR" THEN <<"LF">> ELSE <<x>>]
Escaped4 == [x \in Char |-> IF x \in {"\\", ";", ","} THEN Pair(x) ELSE IF x \in {"CR", "LF"} THEN Pair("n") ELSE <<x>>]
Escaped == [x \in Char |-> IF x \in {"\\", ";", ","} THEN Pair(x) ELSE IF x = "LF" THEN Pair("n") ELSE <<x>>]

LEMMA PairType ==
  /\ \A x \in Char : Pair(x) \in Seq(Char) /\ <<x>> \in Seq(Char)
  /\ "\\" \in Char /\ ";" \in Char /\ "," \in Char /\ "CR" \in Char /\ "LF" \in Char /\ "n" \in Char
<1>1. "\\" \in Char /\ ";" \in Char /\ "," \in Char /\ "CR" \in Char /\ "LF" \in Char /\ "n" \in Char
  BY TextAssumption
<1>2. \A x \in Char : Pair(x) \in Seq(Char) /\ <<x>> \in Seq(Char)
  <2>1. \A x, y \in Char : <<y, x>> \in Seq(Char) /\ <<x>> \in Seq(Char)
    OBVIOUS
  <2> QED BY <1>1, <2>1, Zenon DEF Pair
<1> QED BY <1>1, <1>2

LEMMA EscapesMap ==
  /\ Maps(Doubled, Char, Seq(Char)) /\ Maps(NewLined, Char, Seq(Char)) /\ Maps(Semis, Char, Seq(Char))
  /\ Maps(Commas, Char, Seq(Char)) /\ Maps(LineEnds, Char, Seq(Char))
  /\ Maps(Escaped1, Char, Seq(Char)) /\ Maps(Escaped2, Char, Seq(Char)) /\ Maps(Escaped3, Char, Seq(Char))
  /\ Maps(Escaped4, Char, Seq(Char)) /\ Maps(Escaped, Char, Seq(Char))
<1>1. /\ Maps(Doubled, Char, Seq(Char)) /\ Maps(NewLined, Char, Seq(Char)) /\ Maps(Semis, Char, Seq(Char))
      /\ Maps(Commas, Char, Seq(Char)) /\ Maps(LineEnds, Char, Seq(Char))
  BY PairType, BecomesMaps DEF Doubled, NewLined, Semis, Commas, LineEnds
<1>2. /\ Maps(Escaped1, Char, Seq(Char)) /\ Maps(Escaped2, Char, Seq(Char)) /\ Maps(Escaped3, Char, Seq(Char))
      /\ Maps(Escaped4, Char, Seq(Char)) /\ Maps(Escaped, Char, Seq(Char))
  BY PairType DEF Maps, Escaped1, Escaped2, Escaped3, Escaped4, Escaped
<1> QED BY <1>1, <1>2

LEMMA ThroughEscaped ==
  /\ Through(Doubled, <<>>) = <<>> /\ Through(Escaped, <<>>) = <<>>
  /\ \A s \in Seq(Char) : Through(Doubled, s) \in Seq(Char) /\ Through(Escaped, s) \in Seq(Char)
  /\ \A x \in Char : /\ Through(Doubled, <<x>>) = Doubled[x] /\ Doubled[x] \in Seq(Char)
                     /\ Through(Escaped, <<x>>) = Escaped[x] /\ Escaped[x] \in Seq(Char)
<1>1. Maps(Doubled, Char, Seq(Char)) /\ Maps(Escaped, Char, Seq(Char))
  BY EscapesMap, Zenon
<1>2. /\ Through(Doubled, <<>>) = <<>>
      /\ \A s \in Seq(Char) : Through(Doubled, s) \in Seq(Char)
      /\ \A x \in Char : Through(Doubled, <<x>>) = Doubled[x]
  BY <1>1, ThroughIs, Zenon
<1>3. /\ Through(Escaped, <<>>) = <<>>
      /\ \A s \in Seq(Char) : Through(Escaped, s) \in Seq(Char)
      /\ \A x \in Char : Through(Escaped, <<x>>) = Escaped[x]
  BY <1>1, ThroughIs, Zenon
<1>4. \A x \in Char : Doubled[x] \in Seq(Char) /\ Escaped[x] \in Seq(Char)
  BY <1>1 DEF Maps
<1> QED BY <1>2, <1>3, <1>4, Zenon

LEMMA BecomesOne ==
  ASSUME NEW c, NEW by \in Seq(Char), NEW x \in Char
  PROVE  Through(Becomes(c, by), <<x>>) = IF x = c THEN by ELSE <<x>>
<1>1. Through(Becomes(c, by), <<x>>) = Becomes(c, by)[x]
  BY BecomesMaps, ThroughIs
<1> QED BY <1>1 DEF Becomes

LEMMA BecomesPair ==
  ASSUME NEW c, c # "\\", NEW by \in Seq(Char), NEW x \in Char, x # c
  PROVE  Through(Becomes(c, by), Pair(x)) = Pair(x)
<1>1. Through(Becomes(c, by), <<"\\", x>>) = Cat(Becomes(c, by)["\\"], Becomes(c, by)[x])
  <2>1. "\\" \in Char /\ Maps(Becomes(c, by), Char, Seq(Char))
    BY PairType, BecomesMaps
  <2> QED BY <2>1, ThroughTwo
<1>2. Becomes(c, by)["\\"] = <<"\\">> /\ Becomes(c, by)[x] = <<x>>
  BY PairType DEF Becomes
<1>3. Cat(<<"\\">>, <<x>>) = <<"\\", x>>
  BY CatTwo, Zenon
<1> QED BY <1>1, <1>2, <1>3, Zenon DEF Pair

(* What a replacement makes of a character, and of one that is escaped. *)
Does(g, c, by) ==
  \A x \in Char :
    IF x = c THEN Through(g, <<x>>) = by ELSE Through(g, Pair(x)) = Pair(x) /\ Through(g, <<x>>) = <<x>>

LEMMA BecomesDoes ==
  ASSUME NEW c, c # "\\", NEW by \in Seq(Char)
  PROVE  Does(Becomes(c, by), c, by)
<1>1. \A x \in Char : Through(Becomes(c, by), <<x>>) = IF x = c THEN by ELSE <<x>>
  BY BecomesOne
<1>2. \A x \in Char : x # c => Through(Becomes(c, by), Pair(x)) = Pair(x)
  BY BecomesPair
<1> QED BY <1>1, <1>2, Zenon DEF Does

LEMMA ReplacementsDo ==
  /\ Does(NewLined, "CR", <<"LF">>) /\ Does(Semis, ";", Pair(";"))
  /\ Does(Commas, ",", Pair(",")) /\ Does(LineEnds, "LF", Pair("n"))
<1>1. /\ <<"LF">> \in Seq(Char) /\ Pair(";") \in Seq(Char) /\ Pair(",") \in Seq(Char) /\ Pair("n") \in Seq(Char)
  BY PairType, Zenon
<1>2. "CR" # "\\" /\ ";" # "\\" /\ "," # "\\" /\ "LF" # "\\"
  OBVIOUS
<1>3. Does(NewLined, "CR", <<"LF">>)
  BY <1>1, <1>2, BecomesDoes, Zenon DEF NewLined
<1>4. Does(Semis, ";", Pair(";"))
  BY <1>1, <1>2, BecomesDoes, Zenon DEF Semis
<1>5. Does(Commas, ",", Pair(","))
  BY <1>1, <1>2, BecomesDoes, Zenon DEF Commas
<1>6. Does(LineEnds, "LF", Pair("n"))
  BY <1>1, <1>2, BecomesDoes, Zenon DEF LineEnds
<1> QED BY <1>3, <1>4, <1>5, <1>6

(* The replacements of escapeText after the first, taken together. *)
LEMMA ReplacedIs ==
  ASSUME NEW s \in Seq(Char)
  PROVE  /\ Through(NewLined, Through(Doubled, s)) = Through(Escaped1, s)
         /\ Through(Semis, Through(Escaped1, s)) = Through(Escaped2, s)
         /\ Through(Commas, Through(Escaped2, s)) = Through(Escaped3, s)
         /\ Through(LineEnds, Through(Escaped3, s)) = Through(Escaped4, s)
         /\ Through(Escaped, Through(NewLined, s)) = Through(Escaped4, s)
<1>1. Through(NewLined, Through(Doubled, s)) = Through(Escaped1, s)
  <2>1. ASSUME NEW x \in Char PROVE Through(NewLined, Doubled[x]) = Escaped1[x]
    <3>1. CASE x = "\\"
      <4>1. Doubled[x] = Pair(x) /\ Escaped1[x] = Pair(x)
        BY <3>1 DEF Doubled, Escaped1, Becomes
      <4>2. Through(NewLined, Pair(x)) = Pair(x)
        BY <3>1, ReplacementsDo, PairType DEF Does
      <4> QED BY <4>1, <4>2, Zenon
    <3>2. CASE x = "CR"
      <4>1. Doubled[x] = <<x>> /\ Escaped1[x] = <<"LF">>
        BY <3>2 DEF Doubled, Escaped1, Becomes
      <4>2. Through(NewLined, <<x>>) = <<"LF">>
        BY <3>2, ReplacementsDo, PairType DEF Does
      <4> QED BY <4>1, <4>2, Zenon
    <3>3. CASE x \notin {"\\", "CR"}
      <4>1. Doubled[x] = <<x>> /\ Escaped1[x] = <<x>>
        BY <3>3 DEF Doubled, Escaped1, Becomes
      <4>2. Through(NewLined, <<x>>) = <<x>>
        BY <3>3, ReplacementsDo, PairType DEF Does
      <4> QED BY <4>1, <4>2, Zenon
    <3> QED BY <3>1, <3>2, <3>3
  <2>2. Agrees(NewLined, Doubled, Escaped1, Char)
    BY <2>1, Zenon DEF Agrees
  <2> QED BY <2>2, EscapesMap, ThroughAs
<1>2. Through(Semis, Through(Escaped1, s)) = Through(Escaped2, s)
  <2>1. ASSUME NEW x \in Char PROVE Through(Semis, Escaped1[x]) = Escaped2[x]
    <3>1. CASE x = "\\"
      <4>1. Escaped1[x] = Pair(x) /\ Escaped2[x] = Pair(x)
        BY <3>1 DEF Escaped1, Escaped2
      <4>2. Through(Semis, Pair(x)) = Pair(x)
        BY <3>1, ReplacementsDo, PairType DEF Does
      <4> QED BY <4>1, <4>2, Zenon
    <3>2. CASE x = "CR"
      <4>1. Escaped1[x] = <<"LF">> /\ Escaped2[x] = <<"LF">>
        BY <3>2 DEF Escaped1, Escaped2
      <4>2. Through(Semis, <<"LF">>) = <<"LF">>
        BY <3>2, ReplacementsDo, PairType DEF Does
      <4> QED BY <4>1, <4>2, Zenon
    <3>3. CASE x = ";"
      <4>1. Escaped1[x] = <<x>> /\ Escaped2[x] = Pair(x)
        BY <3>3 DEF Escaped1, Escaped2
      <4>2. Through(Semis, <<x>>) = Pair(x)
        BY <3>3, ReplacementsDo, PairType DEF Does
      <4> QED BY <4>1, <4>2, Zenon
    <3>4. CASE x \notin {"\\", "CR", ";"}
      <4>1. Escaped1[x] = <<x>> /\ Escaped2[x] = <<x>>
        BY <3>4 DEF Escaped1, Escaped2
      <4>2. Through(Semis, <<x>>) = <<x>>
        BY <3>4, ReplacementsDo, PairType DEF Does
      <4> QED BY <4>1, <4>2, Zenon
    <3> QED BY <3>1, <3>2, <3>3, <3>4
  <2>2. Agrees(Semis, Escaped1, Escaped2, Char)
    BY <2>1, Zenon DEF Agrees
  <2> QED BY <2>2, EscapesMap, ThroughAs
<1>3. Through(Commas, Through(Escaped2, s)) = Through(Escaped3, s)
  <2>1. ASSUME NEW x \in Char PROVE Through(Commas, Escaped2[x]) = Escaped3[x]
    <3>1. CASE x \in {"\\", ";"}
      <4>1. Escaped2[x] = Pair(x) /\ Escaped3[x] = Pair(x)
        BY <3>1 DEF Escaped2, Escaped3
      <4>2. Through(Commas, Pair(x)) = Pair(x)
        BY <3>1, ReplacementsDo, PairType DEF Does
      <4> QED BY <4>1, <4>2, Zenon
    <3>2. CASE x = "CR"
      <4>1. Escaped2[x] = <<"LF">> /\ Escaped3[x] = <<"LF">>
        BY <3>2 DEF Escaped2, Escaped3
      <4>2. Through(Commas, <<"LF">>) = <<"LF">>
        BY <3>2, ReplacementsDo, PairType DEF Does
      <4> QED BY <4>1, <4>2, Zenon
    <3>3. CASE x = ","
      <4>1. Escaped2[x] = <<x>> /\ Escaped3[x] = Pair(x)
        BY <3>3 DEF Escaped2, Escaped3
      <4>2. Through(Commas, <<x>>) = Pair(x)
        BY <3>3, ReplacementsDo, PairType DEF Does
      <4> QED BY <4>1, <4>2, Zenon
    <3>4. CASE x \notin {"\\", "CR", ";", ","}
      <4>1. Escaped2[x] = <<x>> /\ Escaped3[x] = <<x>>
        BY <3>4 DEF Escaped2, Escaped3
      <4>2. Through(Commas, <<x>>) = <<x>>
        BY <3>4, ReplacementsDo, PairType DEF Does
      <4> QED BY <4>1, <4>2, Zenon
    <3> QED BY <3>1, <3>2, <3>3, <3>4
  <2>2. Agrees(Commas, Escaped2, Escaped3, Char)
    BY <2>1, Zenon DEF Agrees
  <2> QED BY <2>2, EscapesMap, ThroughAs
<1>4. Through(LineEnds, Through(Escaped3, s)) = Through(Escaped4, s)
  <2>1. ASSUME NEW x \in Char PROVE Through(LineEnds, Escaped3[x]) = Escaped4[x]
    <3>1. CASE x \in {"\\", ";", ","}
      <4>1. Escaped3[x] = Pair(x) /\ Escaped4[x] = Pair(x)
        BY <3>1 DEF Escaped3, Escaped4
      <4>2. Through(LineEnds, Pair(x)) = Pair(x)
        BY <3>1, ReplacementsDo, PairType DEF Does
      <4> QED BY <4>1, <4>2, Zenon
    <3>2. CASE x = "CR"
      <4>1. Escaped3[x] = <<"LF">> /\ Escaped4[x] = Pair("n")
        BY <3>2 DEF Escaped3, Escaped4
      <4>2. Through(LineEnds, <<"LF">>) = Pair("n")
        BY <3>2, ReplacementsDo, PairType DEF Does
      <4> QED BY <4>1, <4>2, Zenon
    <3>3. CASE x = "LF"
      <4>1. Escaped3[x] = <<x>> /\ Escaped4[x] = Pair("n")
        BY <3>3 DEF Escaped3, Escaped4
      <4>2. Through(LineEnds, <<x>>) = Pair("n")
        BY <3>3, ReplacementsDo, PairType DEF Does
      <4> QED BY <4>1, <4>2, Zenon
    <3>4. CASE x \notin {"\\", "CR", ";", ",", "LF"}
      <4>1. Escaped3[x] = <<x>> /\ Escaped4[x] = <<x>>
        BY <3>4 DEF Escaped3, Escaped4
      <4>2. Through(LineEnds, <<x>>) = <<x>>
        BY <3>4, ReplacementsDo, PairType DEF Does
      <4> QED BY <4>1, <4>2, Zenon
    <3> QED BY <3>1, <3>2, <3>3, <3>4
  <2>2. Agrees(LineEnds, Escaped3, Escaped4, Char)
    BY <2>1, Zenon DEF Agrees
  <2> QED BY <2>2, EscapesMap, ThroughAs
<1>5. Through(Escaped, Through(NewLined, s)) = Through(Escaped4, s)
  <2>0. \A x \in Char : Through(Escaped, <<x>>) = Escaped[x]
    BY ThroughEscaped, Zenon
  <2>1. ASSUME NEW x \in Char PROVE Through(Escaped, NewLined[x]) = Escaped4[x]
    <3>1. CASE x = "CR"
      <4>1. NewLined[x] = <<"LF">> /\ Escaped["LF"] = Pair("n") /\ Escaped4[x] = Pair("n")
        BY <3>1, PairType DEF NewLined, Becomes, Escaped, Escaped4
      <4>2. Through(Escaped, <<"LF">>) = Escaped["LF"]
        BY <2>0, PairType, Zenon
      <4> QED BY <4>1, <4>2, Zenon
    <3>2. CASE x # "CR"
      <4>1. NewLined[x] = <<x>> /\ Escaped[x] = Escaped4[x]
        BY <3>2 DEF NewLined, Becomes, Escaped, Escaped4
      <4> QED BY <2>0, <4>1, Zenon
    <3> QED BY <3>1, <3>2
  <2>2. Agrees(Escaped, NewLined, Escaped4, Char)
    BY <2>1, Zenon DEF Agrees
  <2> QED BY <2>2, EscapesMap, ThroughAs
<1> QED BY <1>1, <1>2, <1>3, <1>4, <1>5

(***************************************************************************)
(* Line ends of two characters.                                            *)
(***************************************************************************)
Lead(x, s) == IF x = "CR" /\ s # <<>> /\ s[1] = "LF" THEN <<>> ELSE <<x>>

Pieces(s) == [i \in DOMAIN s |-> IF s[i] = "CR" /\ i < Len(s) /\ s[i + 1] = "LF" THEN <<>> ELSE <<s[i]>>]

LEMMA PiecesType ==
  ASSUME NEW s \in Seq(Char)
  PROVE  Pieces(s) \in Seq(Seq(Char)) /\ Len(Pieces(s)) = Len(s) /\ JoinLineEnds(s) = FlattenSeq(Pieces(s))
<1>1. Len(s) \in Nat /\ DOMAIN s = 1..Len(s) /\ \A i \in 1..Len(s) : s[i] \in Char
  OBVIOUS
<1>2. \A i \in 1..Len(s) : <<s[i]>> \in Seq(Char)
  BY <1>1, SingleSeq
<1>3. <<>> \in Seq(Char)
  OBVIOUS
<1>4. Pieces(s) \in [1..Len(s) -> Seq(Char)]
  BY <1>1, <1>2, <1>3 DEF Pieces
<1>5. Pieces(s) \in Seq(Seq(Char)) /\ Len(Pieces(s)) = Len(s)
  BY <1>1, <1>4
<1> QED BY <1>5, Zenon DEF JoinLineEnds, Pieces

LEMMA JoinCons ==
  ASSUME NEW x \in Char, NEW s \in Seq(Char)
  PROVE  JoinLineEnds(Cat(<<x>>, s)) = Cat(Lead(x, s), JoinLineEnds(s))
<1>1. PICK o, u : o = <<x>> /\ u = Cat(o, s)
  OBVIOUS
<1>2. o \in Seq(Char) /\ Len(o) = 1 /\ o[1] = x
  BY <1>1
<1>3. u \in Seq(Char) /\ Parts(u, o, s)
  BY <1>1, <1>2, CatParts
<1>4. PICK n : n = Len(s) /\ n \in Nat /\ DOMAIN s = 1..n
  OBVIOUS
<1>5. Len(u) = n + 1 /\ DOMAIN u = 1..n + 1 /\ u[1] = x /\ \A i \in 1..n : u[1 + i] = s[i]
  <2>1. /\ Len(u) = Len(o) + Len(s)
        /\ \A j \in 1..Len(o) : u[j] = o[j]
        /\ \A j \in 1..Len(s) : u[Len(o) + j] = s[j]
    BY <1>3, Zenon DEF Parts
  <2> QED BY <1>2, <1>3, <1>4, <2>1
<1>6. PICK p, l, q : p = Pieces(s) /\ l = <<Lead(x, s)>> /\ q = Cat(l, p)
  OBVIOUS
<1>7. Lead(x, s) \in Seq(Char)
  BY DEF Lead
<1>8. p \in Seq(Seq(Char)) /\ Len(p) = n /\ l \in Seq(Seq(Char)) /\ Len(l) = 1 /\ l[1] = Lead(x, s)
  BY <1>4, <1>6, <1>7, PiecesType
<1>9. q \in Seq(Seq(Char)) /\ Parts(q, l, p)
  BY <1>6, <1>8, CatParts
<1>10. Len(q) = n + 1 /\ q[1] = Lead(x, s) /\ \A i \in 1..n : q[1 + i] = p[i]
  <2>1. /\ Len(q) = Len(l) + Len(p)
        /\ \A j \in 1..Len(l) : q[j] = l[j]
        /\ \A j \in 1..Len(p) : q[Len(l) + j] = p[j]
    BY <1>9, Zenon DEF Parts
  <2> QED BY <1>4, <1>8, <2>1
<1>11. ASSUME NEW i \in 1..n + 1 PROVE Pieces(u)[i] = q[i]
  <2>1. Pieces(u)[i] = IF u[i] = "CR" /\ i < n + 1 /\ u[i + 1] = "LF" THEN <<>> ELSE <<u[i]>>
    BY <1>5 DEF Pieces
  <2>2. CASE i = 1
    <3>1. s # <<>> <=> 1 < n + 1
      BY <1>4
    <3>2. 1 < n + 1 => u[1 + 1] = s[1]
      BY <1>4, <1>5
    <3>3. Pieces(u)[1] = IF u[1] = "CR" /\ 1 < n + 1 /\ u[1 + 1] = "LF" THEN <<>> ELSE <<u[1]>>
      BY <2>1, <2>2
    <3> QED BY <1>5, <1>10, <2>2, <3>1, <3>2, <3>3, Zenon DEF Lead
  <2>3. CASE i # 1
    <3>1. PICK j \in 1..n : i = 1 + j
      <4>1. i - 1 \in 1..n /\ i = 1 + (i - 1)
        BY <1>4, <2>3
      <4> QED BY <4>1
    <3>2. q[i] = p[j] /\ u[i] = s[j]
      BY <1>5, <1>10, <3>1
    <3>3. p[j] = IF s[j] = "CR" /\ j < n /\ s[j + 1] = "LF" THEN <<>> ELSE <<s[j]>>
      BY <1>4, <1>6 DEF Pieces
    <3>4. i < n + 1 <=> j < n
      BY <1>4, <3>1
    <3>5. j < n => u[i + 1] = s[j + 1]
      <4> SUFFICES ASSUME j < n PROVE u[i + 1] = s[j + 1]
        OBVIOUS
      <4>1. j + 1 \in 1..n /\ 1 + (j + 1) = i + 1
        BY <1>4, <3>1
      <4> QED BY <1>5, <4>1
    <3> QED BY <2>1, <3>2, <3>3, <3>4, <3>5, Zenon
  <2> QED BY <2>2, <2>3
<1>12. Pieces(u) = q
  <2>1. Pieces(u) \in Seq(Seq(Char)) /\ Len(Pieces(u)) = n + 1
    BY <1>3, <1>5, PiecesType
  <2> QED BY <1>9, <1>10, <1>11, <2>1, SeqSame
<1>13. FlattenSeq(q) = Lead(x, s) \o FlattenSeq(p)
  BY <1>6, <1>7, <1>8, FlattenOne DEF Cat
<1>14. JoinLineEnds(u) = FlattenSeq(q) /\ JoinLineEnds(s) = FlattenSeq(p)
  BY <1>3, <1>6, <1>12, PiecesType
<1> QED BY <1>1, <1>13, <1>14, Zenon DEF Cat

LEMMA JoinType ==
  ASSUME NEW s \in Seq(Char)
  PROVE  JoinLineEnds(s) \in Seq(Char)
  BY PiecesType, FlattenType

LEMMA CatFirst ==
  ASSUME NEW S, NEW x \in S, NEW s \in Seq(S)
  PROVE  Cat(<<x>>, s) \in Seq(S) /\ Cat(<<x>>, s) # <<>> /\ Cat(<<x>>, s)[1] = x
<1>1. PICK o, u : o = <<x>> /\ u = Cat(o, s)
  OBVIOUS
<1>2. o \in Seq(S) /\ Len(o) = 1 /\ o[1] = x
  BY <1>1
<1>3. u \in Seq(S) /\ Parts(u, o, s)
  BY <1>1, <1>2, CatParts
<1>4. Len(s) \in Nat /\ Len(u) = Len(o) + Len(s) /\ \A j \in 1..Len(o) : u[j] = o[j]
  <2>1. Len(s) \in Nat
    OBVIOUS
  <2> QED BY <1>3, <2>1, Zenon DEF Parts
<1>5. Len(u) # 0 /\ u[1] = x
  BY <1>2, <1>4
<1>6. u # <<>>
  BY <1>5
<1> QED BY <1>1, <1>3, <1>5, <1>6, Zenon

(* Doubling the backslashes leaves the line ends as they are. *)
JoinsDoubled(s) ==
  /\ JoinLineEnds(Through(Doubled, s)) = Through(Doubled, JoinLineEnds(s))
  /\ Through(Doubled, s) = <<>> <=> s = <<>>
  /\ s # <<>> => Through(Doubled, s)[1] = s[1]

LEMMA JoinDoubled == \A s \in Seq(Char) : JoinsDoubled(s)
<1> DEFINE A == {s \in Seq(Char) : JoinsDoubled(s)}
<1>1. <<>> \in A
  <2>1. Through(Doubled, <<>>) = <<>>
    BY ThroughEscaped, Zenon
  <2>2. JoinLineEnds(<<>>) = <<>>
    BY FlattenEmpty DEF JoinLineEnds
  <2>3. <<>> \in Seq(Char)
    OBVIOUS
  <2> QED BY <2>1, <2>2, <2>3, Zenon DEF JoinsDoubled
<1>2. ASSUME NEW s \in Seq(Char), NEW x \in Char, s \in A PROVE Cat(<<x>>, s) \in A
  <2>1. PICK d, j, u : d = Through(Doubled, s) /\ j = JoinLineEnds(s) /\ u = Cat(<<x>>, s)
    OBVIOUS
  <2>2. d \in Seq(Char) /\ j \in Seq(Char) /\ u \in Seq(Char) /\ u # <<>> /\ u[1] = x
    <3>1. d \in Seq(Char)
      BY <2>1, ThroughEscaped, Zenon
    <3>2. j \in Seq(Char)
      BY <2>1, JoinType, Zenon
    <3>3. u \in Seq(Char) /\ u # <<>> /\ u[1] = x
      BY <2>1, CatFirst
    <3> QED BY <3>1, <3>2, <3>3
  <2>3. JoinLineEnds(d) = Through(Doubled, j) /\ (d = <<>> <=> s = <<>>) /\ (s # <<>> => d[1] = s[1])
    BY <1>2, <2>1, Zenon DEF JoinsDoubled
  <2>4. PICK e : e = Through(Doubled, j) /\ e \in Seq(Char)
    BY <2>2, ThroughEscaped, Zenon
  <2>5. Through(Doubled, u) = Cat(Doubled[x], d)
    BY <2>1, EscapesMap, ThroughCons
  <2>6. JoinLineEnds(u) = Cat(Lead(x, s), j)
    BY <2>1, JoinCons
  <2>7. Lead(x, d) = Lead(x, s) /\ Lead(x, s) \in Seq(Char)
    BY <2>3 DEF Lead
  <2>8. Through(Doubled, Cat(Lead(x, s), j)) = Cat(Through(Doubled, Lead(x, s)), e)
    BY <2>2, <2>4, <2>7, EscapesMap, ThroughCat
  <2>9. Through(Doubled, <<>>) = <<>> /\ Through(Doubled, <<x>>) = Doubled[x]
    BY ThroughEscaped, Zenon
  <2>10. CASE x # "\\"
    <3>1. Doubled[x] = <<x>>
      BY <2>10 DEF Doubled, Becomes
    <3>2. Through(Doubled, u) = Cat(<<x>>, d)
      BY <2>5, <3>1, Zenon
    <3>3. JoinLineEnds(Cat(<<x>>, d)) = Cat(Lead(x, d), JoinLineEnds(d))
      BY <2>2, JoinCons
    <3>4. Through(Doubled, Lead(x, s)) = Lead(x, s)
      BY <2>9, <3>1, Zenon DEF Lead
    <3>5. JoinLineEnds(Through(Doubled, u)) = Through(Doubled, JoinLineEnds(u))
      BY <2>3, <2>4, <2>6, <2>7, <2>8, <3>2, <3>3, <3>4, Zenon
    <3>6. Cat(<<x>>, d) # <<>> /\ Cat(<<x>>, d)[1] = x
      BY <2>2, CatFirst
    <3>7. JoinsDoubled(u)
      BY <2>2, <3>2, <3>5, <3>6, Zenon DEF JoinsDoubled
    <3> QED BY <2>1, <2>2, <3>7
  <2>11. CASE x = "\\"
    <3>1. Doubled[x] = Pair(x)
      BY <2>11 DEF Doubled, Becomes
    <3>2. \A v \in Seq(Char) : Cat(Pair(x), v) = Cat(<<x>>, Cat(<<x>>, v))
      <4> SUFFICES ASSUME NEW v \in Seq(Char) PROVE Cat(Pair(x), v) = Cat(<<x>>, Cat(<<x>>, v))
        OBVIOUS
      <4>1. PICK o : o = <<x>>
        OBVIOUS
      <4>2. o \in Seq(Char)
        BY <4>1
      <4>3. Cat(Cat(o, o), v) = Cat(o, Cat(o, v))
        BY <4>2, CatAssociates
      <4>4. Cat(o, o) = Pair(x)
        BY <2>11, <4>1, CatTwo, Zenon DEF Pair
      <4> QED BY <4>1, <4>3, <4>4, Zenon
    <3>3. PICK w : w = Cat(<<x>>, d)
      OBVIOUS
    <3>4. w \in Seq(Char)
      BY <2>2, <3>3, CatFirst
    <3>5. Through(Doubled, u) = Cat(<<x>>, w)
      BY <2>2, <2>5, <3>1, <3>2, <3>3, Zenon
    <3>6. \A v : Lead(x, v) = <<x>>
      BY <2>11 DEF Lead
    <3>7. JoinLineEnds(Cat(<<x>>, w)) = Cat(<<x>>, JoinLineEnds(w))
      BY <3>4, <3>6, JoinCons
    <3>8. JoinLineEnds(w) = Cat(<<x>>, JoinLineEnds(d))
      BY <2>2, <3>3, <3>6, JoinCons
    <3>9. JoinLineEnds(Through(Doubled, u)) = Cat(Pair(x), e)
      BY <2>3, <2>4, <3>2, <3>5, <3>7, <3>8, Zenon
    <3>10. Through(Doubled, JoinLineEnds(u)) = Cat(Pair(x), e)
      BY <2>6, <2>8, <2>9, <3>1, <3>6, Zenon
    <3>11. Cat(<<x>>, w) # <<>> /\ Cat(<<x>>, w)[1] = x
      BY <3>4, CatFirst
    <3>12. JoinsDoubled(u)
      BY <2>2, <3>5, <3>9, <3>10, <3>11, Zenon DEF JoinsDoubled
    <3> QED BY <2>1, <2>2, <3>12
  <2> QED BY <2>10, <2>11
<1>3. Seq(Char) \subseteq A
  <2> HIDE DEF A
  <2> QED BY <1>1, <1>2, LeftInduction
<1> QED BY <1>3

(* escapeText: the line ends are made newlines, and then each character is *)
(* escaped for itself.                                                     *)
LEMMA NewlinesAre ==
  ASSUME NEW s \in Seq(Char)
  PROVE  Newlines(s) = Through(NewLined, JoinLineEnds(s)) /\ Newlines(s) \in Seq(Char)
<1>1. JoinLineEnds(s) \in Seq(Char)
  BY JoinType
<1>2. <<"LF">> \in Seq(Char)
  BY PairType, Zenon
<1> QED BY <1>1, <1>2, SubstituteIs DEF Newlines, NewLined

LEMMA EscapeTextIs ==
  ASSUME NEW s \in Seq(Char)
  PROVE  EscapeText(s) = Through(Escaped, Newlines(s))
<1>0. /\ Pair("\\") \in Seq(Char) /\ Pair(";") \in Seq(Char) /\ Pair(",") \in Seq(Char) /\ Pair("n") \in Seq(Char)
  BY PairType, Zenon
<1>1. PICK a, j, b, c, d, e :
        /\ a = Substitute(s, "\\", Pair("\\")) /\ j = JoinLineEnds(s) /\ b = Newlines(a)
        /\ c = Substitute(b, ";", Pair(";")) /\ d = Substitute(c, ",", Pair(","))
        /\ e = Substitute(d, "LF", Pair("n"))
  OBVIOUS
<1>2. EscapeText(s) = e
  BY <1>1, Zenon DEF EscapeText, Punctuated, Pair
<1>3. a = Through(Doubled, s) /\ a \in Seq(Char)
  <2>1. Substitute(s, "\\", Pair("\\")) = Through(Doubled, s) /\ Substitute(s, "\\", Pair("\\")) \in Seq(Char)
    BY <1>0, SubstituteIs, Zenon DEF Doubled
  <2> QED BY <1>1, <2>1, Zenon
<1>4. b = Through(NewLined, JoinLineEnds(a)) /\ b \in Seq(Char)
  BY <1>1, <1>3, NewlinesAre
<1>5. j \in Seq(Char) /\ JoinLineEnds(a) = Through(Doubled, j)
  BY <1>1, <1>3, JoinType, JoinDoubled, Zenon DEF JoinsDoubled
<1>6. b = Through(Escaped1, j)
  BY <1>4, <1>5, ReplacedIs
<1>7. c = Through(Semis, b) /\ c \in Seq(Char)
  <2>1. Substitute(b, ";", Pair(";")) = Through(Semis, b) /\ Substitute(b, ";", Pair(";")) \in Seq(Char)
    BY <1>0, <1>4, SubstituteIs, Zenon DEF Semis
  <2> QED BY <1>1, <2>1, Zenon
<1>8. d = Through(Commas, c) /\ d \in Seq(Char)
  <2>1. Substitute(c, ",", Pair(",")) = Through(Commas, c) /\ Substitute(c, ",", Pair(",")) \in Seq(Char)
    BY <1>0, <1>7, SubstituteIs, Zenon DEF Commas
  <2> QED BY <1>1, <2>1, Zenon
<1>9. e = Through(LineEnds, d)
  <2>1. Substitute(d, "LF", Pair("n")) = Through(LineEnds, d)
    BY <1>0, <1>8, SubstituteIs, Zenon DEF LineEnds
  <2> QED BY <1>1, <2>1, Zenon
<1>10. e = Through(Escaped4, j)
  <2>1. /\ Through(Semis, Through(Escaped1, j)) = Through(Escaped2, j)
        /\ Through(Commas, Through(Escaped2, j)) = Through(Escaped3, j)
        /\ Through(LineEnds, Through(Escaped3, j)) = Through(Escaped4, j)
    BY <1>5, ReplacedIs
  <2>2. c = Through(Escaped2, j)
    BY <1>6, <1>7, <2>1, Zenon
  <2>3. d = Through(Escaped3, j)
    BY <1>8, <2>1, <2>2, Zenon
  <2> QED BY <1>9, <2>1, <2>3, Zenon
<1>11. Newlines(s) = Through(NewLined, j)
  BY <1>1, NewlinesAre
<1> QED BY <1>2, <1>5, <1>10, <1>11, ReplacedIs, Zenon

(***************************************************************************)
(* Reading, character after character.                                     *)
(***************************************************************************)
Read(b, s) == FoldLeft(ReadChar, b, s)

(* The equation of the fold over the places up to n. *)
FoldsTo(g, b, s, n) ==
  g = [t \in SUBSET (1..n) |-> IF t = {} THEN b ELSE ReadChar(g[t \ {Max(t)}], s[Max(t)])]

LEMMA MaxIs ==
  ASSUME NEW n \in Nat, NEW t, t \subseteq 1..n, n \in t
  PROVE  Max(t) = n
<1>1. \A x \in t : x \in Nat /\ x <= n
  OBVIOUS
<1>2. n \in t /\ \A y \in t : n >= y
  BY <1>1
<1>3. \A x \in t : (\A y \in t : x >= y) => x = n
  BY <1>1
<1> QED BY <1>2, <1>3 DEF Max

LEMMA FoldExists ==
  ASSUME NEW b, NEW s
  PROVE  \A n \in Nat : \E g : FoldsTo(g, b, s, n)
<1> DEFINE A == {n \in Nat : \E g : FoldsTo(g, b, s, n)}
<1>1. 0 \in A
  <2>1. \A t \in SUBSET (1..0) : t = {}
    OBVIOUS
  <2>2. FoldsTo([t \in SUBSET (1..0) |-> b], b, s, 0)
    BY <2>1 DEF FoldsTo
  <2> QED BY <2>2
<1>2. ASSUME NEW n \in Nat, n \in A PROVE n + 1 \in A
  <2>1. PICK g : FoldsTo(g, b, s, n)
    BY <1>2
  <2>2. \A t \in SUBSET (1..n) : g[t] = IF t = {} THEN b ELSE ReadChar(g[t \ {Max(t)}], s[Max(t)])
    BY <2>1, Zenon DEF FoldsTo
  <2>3. PICK h : h = [t \in SUBSET (1..n + 1) |-> IF n + 1 \in t THEN ReadChar(g[t \ {n + 1}], s[n + 1]) ELSE g[t]]
    OBVIOUS
  <2>4. ASSUME NEW t \in SUBSET (1..n + 1)
        PROVE  h[t] = IF t = {} THEN b ELSE ReadChar(h[t \ {Max(t)}], s[Max(t)])
    <3>1. CASE n + 1 \in t
      <4>1. Max(t) = n + 1
        <5>1. PICK m : m = n + 1 /\ m \in Nat
          OBVIOUS
        <5>2. t \subseteq 1..m /\ m \in t
          BY <3>1, <5>1
        <5> QED BY <5>1, <5>2, MaxIs
      <4>2. t \ {n + 1} \in SUBSET (1..n + 1) /\ n + 1 \notin t \ {n + 1}
        OBVIOUS
      <4>3. h[t] = ReadChar(g[t \ {n + 1}], s[n + 1])
        BY <2>3, <3>1, Zenon
      <4>4. h[t \ {n + 1}] = g[t \ {n + 1}]
        BY <2>3, <4>2, Zenon
      <4>5. t # {}
        BY <3>1
      <4> QED BY <4>1, <4>3, <4>4, <4>5, Zenon
    <3>2. CASE n + 1 \notin t
      <4>1. t \in SUBSET (1..n)
        BY <3>2
      <4>2. h[t] = g[t]
        BY <2>3, <3>2, Zenon
      <4>3. t \ {Max(t)} \in SUBSET (1..n + 1) /\ n + 1 \notin t \ {Max(t)}
        BY <3>2
      <4>4. h[t \ {Max(t)}] = g[t \ {Max(t)}]
        BY <2>3, <4>3, Zenon
      <4> QED BY <2>2, <4>1, <4>2, <4>4, Zenon
    <3> QED BY <3>1, <3>2
  <2>5. FoldsTo(h, b, s, n + 1)
    BY <2>3, <2>4, Zenon DEF FoldsTo
  <2> QED BY <2>5
<1>3. Nat \subseteq A
  <2>1. \A n \in Nat : n \in A => n + 1 \in A
    BY <1>2
  <2> HIDE DEF A
  <2> QED BY <1>1, <2>1, Induction
<1> QED BY <1>3

(* What has been read after each of the first n characters. *)
Reads(f, b, s, n) == f[0] = b /\ \A i \in 1..n : f[i] = ReadChar(f[i - 1], s[i])

LEMMA ReadsAgree ==
  ASSUME NEW b, NEW s, NEW n \in Nat, NEW f, NEW g, Reads(f, b, s, n), Reads(g, b, s, n)
  PROVE  f[n] = g[n]
<1>1. f[0] = b /\ g[0] = b /\ \A i \in 1..n : f[i] = ReadChar(f[i - 1], s[i]) /\ g[i] = ReadChar(g[i - 1], s[i])
  BY Zenon DEF Reads
<1> DEFINE A == {i \in Nat : i <= n => f[i] = g[i]}
<1>2. 0 \in A
  BY <1>1
<1>3. ASSUME NEW i \in Nat, i \in A PROVE i + 1 \in A
  <2> SUFFICES ASSUME i + 1 <= n PROVE f[i + 1] = g[i + 1]
    OBVIOUS
  <2>1. f[i] = g[i] /\ i + 1 \in 1..n /\ i + 1 - 1 = i
    BY <1>3
  <2>2. f[i + 1] = ReadChar(f[i + 1 - 1], s[i + 1]) /\ g[i + 1] = ReadChar(g[i + 1 - 1], s[i + 1])
    BY <1>1, <2>1
  <2> QED BY <2>1, <2>2, Zenon
<1>4. n \in A
  <2>1. \A i \in Nat : i \in A => i + 1 \in A
    BY <1>3
  <2> HIDE DEF A
  <2> QED BY <1>2, <2>1, Induction
<1> QED BY <1>4

LEMMA ReadIs ==
  ASSUME NEW b, NEW S, NEW s \in Seq(S)
  PROVE  \E f : Reads(f, b, s, Len(s)) /\ Read(b, s) = f[Len(s)]
<1>1. PICK n : n = Len(s) /\ n \in Nat /\ DOMAIN s = 1..n
  OBVIOUS
<1>2. FoldsTo(CHOOSE g : FoldsTo(g, b, s, n), b, s, n)
  BY <1>1, FoldExists
<1>3. PICK g : FoldsTo(g, b, s, n) /\ Read(b, s) = g[1..n]
  <2>1. Read(b, s) = (CHOOSE g : FoldsTo(g, b, s, n))[1..n]
    BY <1>1 DEF Read, FoldLeft, MapThenFoldSet, FoldsTo
  <2> QED BY <1>2, <2>1, Zenon
<1>4. \A t \in SUBSET (1..n) : g[t] = IF t = {} THEN b ELSE ReadChar(g[t \ {Max(t)}], s[Max(t)])
  BY <1>3, Zenon DEF FoldsTo
<1>5. PICK f : f = [i \in 0..n |-> g[1..i]]
  OBVIOUS
<1>6. f[0] = b
  <2>1. 1..0 = {} /\ {} \in SUBSET (1..n) /\ 0 \in 0..n
    BY <1>1
  <2> QED BY <1>4, <1>5, <2>1, Zenon
<1>7. ASSUME NEW i \in 1..n PROVE f[i] = ReadChar(f[i - 1], s[i])
  <2>1. i \in Nat /\ 1..i \in SUBSET (1..n) /\ i \in 1..i /\ (1..i) \ {i} = 1..(i - 1) /\ i \in 0..n /\ i - 1 \in 0..n
    BY <1>1
  <2>2. Max(1..i) = i
    BY <2>1, MaxIs
  <2>3. g[1..i] = ReadChar(g[1..(i - 1)], s[i])
    BY <1>4, <2>1, <2>2, Zenon
  <2> QED BY <1>5, <2>1, <2>3, Zenon
<1>8. Reads(f, b, s, n)
  BY <1>6, <1>7, Zenon DEF Reads
<1>9. f[n] = g[1..n]
  BY <1>1, <1>5
<1> QED BY <1>1, <1>3, <1>8, <1>9, Zenon

LEMMA ReadEmpty == \A b : Read(b, <<>>) = b
<1> SUFFICES ASSUME NEW b PROVE Read(b, <<>>) = b
  OBVIOUS
<1>1. <<>> \in Seq({}) /\ Len(<<>>) = 0
  OBVIOUS
<1>2. PICK f : Reads(f, b, <<>>, 0) /\ Read(b, <<>>) = f[0]
  BY <1>1, ReadIs, Zenon
<1> QED BY <1>2 DEF Reads

LEMMA ReadAppend ==
  ASSUME NEW b, NEW S, NEW s \in Seq(S), NEW c \in S
  PROVE  Read(b, Append(s, c)) = ReadChar(Read(b, s), c)
<1>0. Len(s) \in Nat /\ Len(s) + 1 \in Nat
  OBVIOUS
<1>1. PICK n, m, u : n = Len(s) /\ m = Len(s) + 1 /\ u = Append(s, c) /\ n \in Nat /\ m \in Nat
  BY <1>0, Zenon
<1>2. u \in Seq(S) /\ Len(u) = m /\ u[m] = c /\ \A i \in 1..n : u[i] = s[i]
  BY <1>1, AppendProperties
<1>3. PICK f : Reads(f, b, u, m) /\ Read(b, u) = f[m]
  BY <1>2, ReadIs, Zenon
<1>4. PICK g : Reads(g, b, s, n) /\ Read(b, s) = g[n]
  BY <1>1, ReadIs, Zenon
<1>5. f[0] = b /\ \A i \in 1..m : f[i] = ReadChar(f[i - 1], u[i])
  BY <1>3, Zenon DEF Reads
<1>6. m \in 1..m /\ m - 1 = n /\ \A i \in 1..n : i \in 1..m
  BY <1>1
<1>7. Reads(f, b, s, n)
  BY <1>2, <1>5, <1>6, Zenon DEF Reads
<1>8. f[n] = g[n]
  BY <1>1, <1>4, <1>7, ReadsAgree
<1>9. f[m] = ReadChar(f[n], c)
  BY <1>2, <1>5, <1>6, Zenon
<1> QED BY <1>1, <1>3, <1>4, <1>8, <1>9, Zenon

(* One part is read after the other. *)
LEMMA ReadCat ==
  ASSUME NEW b, NEW S, NEW s \in Seq(S)
  PROVE  \A t \in Seq(S) : Read(b, Cat(s, t)) = Read(Read(b, s), t)
<1> DEFINE A == {t \in Seq(S) : Read(b, Cat(s, t)) = Read(Read(b, s), t)}
<1>1. <<>> \in A
  <2>1. Cat(s, <<>>) = s
    BY ConcatEmptySeq DEF Cat
  <2> QED BY <2>1, ReadEmpty
<1>2. ASSUME NEW t \in Seq(S), NEW c \in S, t \in A PROVE Append(t, c) \in A
  <2>1. Read(b, Cat(s, t)) = Read(Read(b, s), t)
    BY <1>2
  <2>2. Cat(s, t) \in Seq(S)
    BY CatParts
  <2>3. Cat(s, Append(t, c)) = Append(Cat(s, t), c)
    <3>1. PICK o : o = <<c>>
      OBVIOUS
    <3>2. o \in Seq(S)
      BY <3>1
    <3>3. Cat(Cat(s, t), o) = Cat(s, Cat(t, o))
      BY <3>2, CatAssociates
    <3>4. Cat(t, o) = Append(t, c) /\ Cat(Cat(s, t), o) = Append(Cat(s, t), c)
      BY <2>2, <3>1, AppendIsConcat DEF Cat
    <3> QED BY <3>3, <3>4, Zenon
  <2>4. Read(b, Append(Cat(s, t), c)) = ReadChar(Read(b, Cat(s, t)), c)
    BY <2>2, ReadAppend
  <2>5. Read(Read(b, s), Append(t, c)) = ReadChar(Read(Read(b, s), t), c)
    BY ReadAppend
  <2>6. Append(t, c) \in Seq(S)
    BY AppendProperties
  <2> QED BY <2>1, <2>3, <2>4, <2>5, <2>6, Zenon
<1>3. Seq(S) \subseteq A
  <2> HIDE DEF A
  <2> QED BY <1>1, <1>2, RightInduction
<1> QED BY <1>3

(* The reader between two characters, and the list with s added to the last *)
(* of its texts.                                                            *)
Reader(list) == [list |-> list, escaped |-> FALSE]

Extended(list, s) == [list EXCEPT ![Len(list)] = Cat(@, s)]

LEMMA ExtendedIs ==
  ASSUME NEW S, NEW list \in Seq(Seq(S)), list # <<>>, NEW s \in Seq(S), NEW c \in S
  PROVE  /\ Extended(list, s) \in Seq(Seq(S)) /\ Extended(list, s) # <<>>
         /\ Extended(list, <<>>) = list
         /\ AddTo(Extended(list, s), c) = Extended(list, Append(s, c))
<1>1. PICK n : n = Len(list) /\ n \in Nat /\ n # 0 /\ DOMAIN list = 1..n
  OBVIOUS
<1>2. PICK x : x = list[n] /\ x \in Seq(S)
  BY <1>1
<1>3. Cat(x, s) \in Seq(S) /\ Cat(x, <<>>) = x /\ Cat(x, Append(s, c)) = Append(Cat(x, s), c)
  <2>1. Cat(x, s) \in Seq(S)
    BY <1>2, CatParts
  <2>2. Cat(x, <<>>) = x
    BY <1>2, ConcatEmptySeq DEF Cat
  <2>3. PICK o : o = <<c>>
    OBVIOUS
  <2>4. o \in Seq(S)
    BY <2>3
  <2>5. Cat(Cat(x, s), o) = Cat(x, Cat(s, o))
    BY <1>2, <2>4, CatAssociates
  <2>6. Cat(s, o) = Append(s, c) /\ Cat(Cat(x, s), o) = Append(Cat(x, s), c)
    BY <2>1, <2>3, AppendIsConcat DEF Cat
  <2> QED BY <2>1, <2>2, <2>5, <2>6, Zenon
<1>4. \A y : [list EXCEPT ![n] = y] = [i \in 1..n |-> IF i = n THEN y ELSE list[i]]
  BY <1>1
<1>5. PICK l : l = Extended(list, s)
  OBVIOUS
<1>6. l = [i \in 1..n |-> IF i = n THEN Cat(x, s) ELSE list[i]]
  BY <1>1, <1>2, <1>5 DEF Extended
<1>7. l \in Seq(Seq(S)) /\ Len(l) = n /\ l # <<>> /\ DOMAIN l = 1..n /\ l[n] = Cat(x, s)
  <2>1. l \in [1..n -> Seq(S)]
    BY <1>1, <1>3, <1>6
  <2> QED BY <1>1, <1>6, <2>1
<1>8. Extended(list, <<>>) = list
  BY <1>1, <1>2, <1>3 DEF Extended
<1>9. AddTo(l, c) = [i \in 1..n |-> IF i = n THEN Append(Cat(x, s), c) ELSE l[i]]
  BY <1>7 DEF AddTo
<1>10. Extended(list, Append(s, c)) = [i \in 1..n |-> IF i = n THEN Cat(x, Append(s, c)) ELSE list[i]]
  BY <1>1, <1>2 DEF Extended
<1>11. AddTo(l, c) = Extended(list, Append(s, c))
  BY <1>3, <1>6, <1>9, <1>10
<1> QED BY <1>5, <1>7, <1>8, <1>11, Zenon

(* What the reader does with a character. *)
LEMMA ReadOne ==
  ASSUME NEW list, NEW c
  PROVE  /\ c \notin {"\\", ","} => ReadChar(Reader(list), c) = Reader(AddTo(list, c))
         /\ ReadChar(Reader(list), ",") = Reader(Append(list, <<>>))
         /\ ReadChar(ReadChar(Reader(list), "\\"), c) = Reader(AddTo(list, IF c = "n" THEN "LF" ELSE c))
<1>1. c \notin {"\\", ","} => ReadChar(Reader(list), c) = Reader(AddTo(list, c))
  BY DEF ReadChar, Reader
<1>2. ReadChar(Reader(list), ",") = Reader(Append(list, <<>>))
  BY DEF ReadChar, Reader
<1>3. ReadChar(Reader(list), "\\") = [list |-> list, escaped |-> TRUE]
  BY DEF ReadChar, Reader
<1>4. ReadChar([list |-> list, escaped |-> TRUE], c) = Reader(AddTo(list, IF c = "n" THEN "LF" ELSE c))
  BY DEF ReadChar, Reader
<1> QED BY <1>1, <1>2, <1>3, <1>4, Zenon

(* What was escaped is read as it was. *)
LEMMA ReadEscaped ==
  ASSUME NEW list \in Seq(Seq(Char)), list # <<>>, NEW c \in Char
  PROVE  Read(Reader(list), Escaped[c]) = Reader(AddTo(list, c))
<1>0. "\\" \in Char /\ "n" \in Char
  BY PairType
<1>1. \A x \in Char : Read(Reader(list), <<x>>) = ReadChar(Reader(list), x)
  <2> SUFFICES ASSUME NEW x \in Char PROVE Read(Reader(list), <<x>>) = ReadChar(Reader(list), x)
    OBVIOUS
  <2>1. PICK e : e = <<>>
    OBVIOUS
  <2>2. e \in Seq(Char) /\ Append(e, x) = <<x>>
    BY <2>1
  <2>3. Read(Reader(list), Append(e, x)) = ReadChar(Read(Reader(list), e), x)
    BY <2>2, ReadAppend
  <2> QED BY <2>1, <2>2, <2>3, ReadEmpty, Zenon
<1>2. ASSUME NEW x \in Char
      PROVE  Read(Reader(list), Pair(x)) = Reader(AddTo(list, IF x = "n" THEN "LF" ELSE x))
  <2>1. PICK e : e = <<"\\">>
    OBVIOUS
  <2>2. e \in Seq(Char) /\ Append(e, x) = Pair(x)
    <3>1. e \in Seq(Char) /\ Append(e, x) = <<"\\", x>>
      <4>1. \A y : Append(<<y>>, x) = <<y, x>>
        BY AppendTwo
      <4>2. \A y \in Char : <<y>> \in Seq(Char)
        OBVIOUS
      <4> QED BY <1>0, <2>1, <4>1, <4>2, Zenon
    <3> QED BY <3>1, Zenon DEF Pair
  <2>3. Read(Reader(list), Append(e, x)) = ReadChar(Read(Reader(list), e), x)
    BY <2>2, ReadAppend, Zenon
  <2>4. Read(Reader(list), e) = ReadChar(Reader(list), "\\")
    BY <1>0, <1>1, <2>1, Zenon
  <2> QED BY <2>2, <2>3, <2>4, ReadOne, Zenon
<1>3. CASE c \in {"\\", ";", ","}
  <2>1. Escaped[c] = Pair(c) /\ c # "n"
    BY <1>3 DEF Escaped
  <2> QED BY <1>2, <2>1
<1>4. CASE c = "LF"
  <2>1. Escaped[c] = Pair("n")
    BY <1>4 DEF Escaped
  <2>2. Read(Reader(list), Pair("n")) = Reader(AddTo(list, "LF"))
    BY <1>0, <1>2
  <2> QED BY <1>4, <2>1, <2>2, Zenon
<1>5. CASE c \notin {"\\", ";", ",", "LF"}
  <2>1. Escaped[c] = <<c>>
    BY <1>5 DEF Escaped
  <2>2. ReadChar(Reader(list), c) = Reader(AddTo(list, c))
    BY <1>5, ReadOne
  <2> QED BY <1>1, <2>1, <2>2, Zenon
<1> QED BY <1>3, <1>4, <1>5

LEMMA ReadText ==
  ASSUME NEW list \in Seq(Seq(Char)), list # <<>>
  PROVE  \A s \in Seq(Char) : Read(Reader(list), Through(Escaped, s)) = Reader(Extended(list, s))
<1> DEFINE A == {s \in Seq(Char) : Read(Reader(list), Through(Escaped, s)) = Reader(Extended(list, s))}
<1>0. "n" \in Char
  BY PairType
<1>1. <<>> \in A
  <2>1. Through(Escaped, <<>>) = <<>>
    BY ThroughEscaped, Zenon
  <2>2. <<>> \in Seq(Char)
    OBVIOUS
  <2>3. Extended(list, <<>>) = list
    BY <1>0, <2>2, ExtendedIs, Zenon
  <2> QED BY <2>1, <2>2, <2>3, ReadEmpty, Zenon
<1>2. ASSUME NEW s \in Seq(Char), NEW c \in Char, s \in A PROVE Append(s, c) \in A
  <2>1. Read(Reader(list), Through(Escaped, s)) = Reader(Extended(list, s))
    BY <1>2
  <2>2. PICK l : l = Extended(list, s)
    OBVIOUS
  <2>3. l \in Seq(Seq(Char)) /\ l # <<>> /\ AddTo(l, c) = Extended(list, Append(s, c))
    BY <2>2, ExtendedIs
  <2>4. PICK o, e : o = <<c>> /\ e = Escaped[c]
    OBVIOUS
  <2>5. o \in Seq(Char) /\ Append(s, c) = Cat(s, o) /\ Append(s, c) \in Seq(Char)
    BY <2>4, AppendIsConcat, AppendProperties DEF Cat
  <2>6. Through(Escaped, Cat(s, o)) = Cat(Through(Escaped, s), Through(Escaped, o))
    BY <2>5, EscapesMap, ThroughCat
  <2>7. Through(Escaped, o) = e
    BY <2>4, ThroughEscaped, Zenon
  <2>8. Through(Escaped, s) \in Seq(Char) /\ e \in Seq(Char)
    BY <1>2, <2>4, ThroughEscaped, Zenon
  <2>9. Read(Reader(list), Cat(Through(Escaped, s), e)) = Read(Reader(l), e)
    <3>1. Read(Reader(list), Cat(Through(Escaped, s), e)) = Read(Read(Reader(list), Through(Escaped, s)), e)
      BY <2>8, ReadCat
    <3> QED BY <2>1, <2>2, <3>1, Zenon
  <2>10. Read(Reader(l), e) = Reader(AddTo(l, c))
    BY <2>3, <2>4, ReadEscaped, Zenon
  <2> QED BY <2>3, <2>5, <2>6, <2>7, <2>9, <2>10, Zenon
<1>3. Seq(Char) \subseteq A
  <2> HIDE DEF A
  <2> QED BY <1>1, <1>2, RightInduction
<1> QED BY <1>3

(***************************************************************************)
(* A list of texts.                                                        *)
(***************************************************************************)
Element(i, v) == Cat(IF i = 1 THEN <<>> ELSE <<",">>, EscapeText(v))

Elements(vs) == [i \in DOMAIN vs |-> Element(i, vs[i])]

NewlinesOf(vs) == [i \in DOMAIN vs |-> Newlines(vs[i])]

LEMMA ElementType ==
  ASSUME NEW i, NEW v \in Seq(Char)
  PROVE  EscapeText(v) \in Seq(Char) /\ Newlines(v) \in Seq(Char) /\ Element(i, v) \in Seq(Char)
<1>1. Newlines(v) \in Seq(Char)
  BY NewlinesAre
<1>2. EscapeText(v) \in Seq(Char)
  <2>1. EscapeText(v) = Through(Escaped, Newlines(v))
    BY EscapeTextIs, Zenon
  <2> QED BY <1>1, <2>1, ThroughEscaped, Zenon
<1>3. <<>> \in Seq(Char) /\ <<",">> \in Seq(Char)
  <2>1. <<>> \in Seq(Char)
    OBVIOUS
  <2>2. <<",">> \in Seq(Char)
    BY PairType, Zenon
  <2> QED BY <2>1, <2>2
<1>4. PICK x : x = (IF i = 1 THEN <<>> ELSE <<",">>)
  OBVIOUS
<1>5. x \in Seq(Char)
  BY <1>3, <1>4
<1>6. Cat(x, EscapeText(v)) \in Seq(Char)
  BY <1>2, <1>5, CatParts
<1> QED BY <1>1, <1>2, <1>4, <1>6, Zenon DEF Element

LEMMA ListAppend ==
  ASSUME NEW vs \in Seq(Seq(Char)), NEW v \in Seq(Char)
  PROVE  /\ EscapeTextList(vs) \in Seq(Char)
         /\ EscapeTextList(Append(vs, v)) = Cat(EscapeTextList(vs), Element(Len(vs) + 1, v))
         /\ NewlinesOf(vs) \in Seq(Seq(Char)) /\ Len(NewlinesOf(vs)) = Len(vs)
         /\ NewlinesOf(Append(vs, v)) = Append(NewlinesOf(vs), Newlines(v))
<1>0. Len(vs) \in Nat /\ DOMAIN vs = 1..Len(vs)
  OBVIOUS
<1>1. PICK n, u : n = Len(vs) /\ n \in Nat /\ DOMAIN vs = 1..n /\ u = Append(vs, v)
  BY <1>0, Zenon
<1>2. /\ u \in Seq(Seq(Char)) /\ Len(u) = n + 1 /\ DOMAIN u = 1..n + 1
      /\ u[n + 1] = v /\ \A i \in 1..n : u[i] = vs[i] /\ vs[i] \in Seq(Char)
  BY <1>1, AppendProperties
<1>3. \A ws \in Seq(Seq(Char)) :
        /\ Elements(ws) \in Seq(Seq(Char)) /\ Len(Elements(ws)) = Len(ws)
        /\ NewlinesOf(ws) \in Seq(Seq(Char)) /\ Len(NewlinesOf(ws)) = Len(ws)
        /\ EscapeTextList(ws) = FlattenSeq(Elements(ws))
  <2> SUFFICES ASSUME NEW ws \in Seq(Seq(Char))
               PROVE  /\ Elements(ws) \in Seq(Seq(Char)) /\ Len(Elements(ws)) = Len(ws)
                      /\ NewlinesOf(ws) \in Seq(Seq(Char)) /\ Len(NewlinesOf(ws)) = Len(ws)
                      /\ EscapeTextList(ws) = FlattenSeq(Elements(ws))
    OBVIOUS
  <2>0. Len(ws) \in Nat /\ DOMAIN ws = 1..Len(ws)
    OBVIOUS
  <2>1. PICK k : k = Len(ws) /\ k \in Nat /\ DOMAIN ws = 1..k
    BY <2>0, Zenon
  <2>2. \A i \in 1..k : Element(i, ws[i]) \in Seq(Char) /\ Newlines(ws[i]) \in Seq(Char)
    <3> SUFFICES ASSUME NEW i \in 1..k PROVE Element(i, ws[i]) \in Seq(Char) /\ Newlines(ws[i]) \in Seq(Char)
      OBVIOUS
    <3>1. PICK w : w = ws[i]
      OBVIOUS
    <3>2. w \in Seq(Char)
      BY <2>1, <3>1
    <3>3. Element(i, w) \in Seq(Char) /\ Newlines(w) \in Seq(Char)
      BY <3>2, ElementType
    <3> QED BY <3>1, <3>3, Zenon
  <2>3. Elements(ws) \in [1..k -> Seq(Char)] /\ NewlinesOf(ws) \in [1..k -> Seq(Char)]
    BY <2>1, <2>2 DEF Elements, NewlinesOf
  <2>4. EscapeTextList(ws) = FlattenSeq(Elements(ws))
    BY Zenon DEF EscapeTextList, Elements, Element, Cat
  <2>5. /\ Elements(ws) \in Seq(Seq(Char)) /\ Len(Elements(ws)) = k
        /\ NewlinesOf(ws) \in Seq(Seq(Char)) /\ Len(NewlinesOf(ws)) = k
    BY <2>1, <2>3, TupleSeq
  <2> QED BY <2>1, <2>4, <2>5, Zenon
<1>4. PICK p, q : p = Elements(vs) /\ q = Elements(u)
  OBVIOUS
<1>5. p \in Seq(Seq(Char)) /\ q \in Seq(Seq(Char)) /\ Len(p) = n /\ Len(q) = n + 1
  BY <1>1, <1>2, <1>3, <1>4
<1>6. PICK e : e = Element(n + 1, v) /\ e \in Seq(Char)
  BY ElementType
<1>7. (\A i \in 1..n : q[i] = p[i]) /\ q[n + 1] = e
  <2>1. \A i \in 1..n : q[i] = Element(i, u[i]) /\ p[i] = Element(i, vs[i])
    BY <1>1, <1>2, <1>4 DEF Elements
  <2>2. q[n + 1] = Element(n + 1, u[n + 1])
    BY <1>1, <1>2, <1>4 DEF Elements
  <2> QED BY <1>2, <1>6, <2>1, <2>2
<1>8. q = Append(p, e)
  BY <1>1, <1>5, <1>6, <1>7, AppendProperties
<1>9. EscapeTextList(u) = FlattenSeq(p) \o e /\ EscapeTextList(vs) = FlattenSeq(p)
  <2>1. EscapeTextList(u) = FlattenSeq(q) /\ EscapeTextList(vs) = FlattenSeq(p)
    BY <1>2, <1>3, <1>4
  <2>2. FlattenSeq(Append(p, e)) = FlattenSeq(p) \o e
    BY <1>5, <1>6, FlattenAppend
  <2> QED BY <1>8, <2>1, <2>2, Zenon
<1>10. EscapeTextList(vs) \in Seq(Char)
  BY <1>5, <1>9, FlattenType
<1>11. NewlinesOf(u) = Append(NewlinesOf(vs), Newlines(v))
  <2>1. PICK k, l : k = NewlinesOf(vs) /\ l = NewlinesOf(u)
    OBVIOUS
  <2>2. k \in Seq(Seq(Char)) /\ l \in Seq(Seq(Char)) /\ Len(k) = n /\ Len(l) = n + 1
    BY <1>1, <1>2, <1>3, <2>1
  <2>3. (\A i \in 1..n : l[i] = k[i]) /\ l[n + 1] = Newlines(v)
    <3>1. \A i \in 1..n : l[i] = Newlines(u[i]) /\ k[i] = Newlines(vs[i])
      BY <1>1, <1>2, <2>1 DEF NewlinesOf
    <3>2. l[n + 1] = Newlines(u[n + 1])
      BY <1>1, <1>2, <2>1 DEF NewlinesOf
    <3> QED BY <1>2, <3>1, <3>2
  <2>4. PICK w : w = Newlines(v) /\ w \in Seq(Char)
    BY ElementType
  <2>5. l = Append(k, w)
    BY <1>1, <2>2, <2>3, <2>4, AppendProperties
  <2> QED BY <2>1, <2>4, <2>5
<1> QED BY <1>1, <1>3, <1>6, <1>9, <1>10, <1>11 DEF Cat

(* Reading what escapeTextList wrote. *)
LEMMA ReadList ==
  \A vs \in Seq(Seq(Char)) : vs # <<>> => Read(Reader(<< <<>> >>), EscapeTextList(vs)) = Reader(NewlinesOf(vs))
<1> DEFINE Good(vs) == Read(Reader(<< <<>> >>), EscapeTextList(vs)) = Reader(NewlinesOf(vs))
           A == {vs \in Seq(Seq(Char)) : vs # <<>> => Good(vs)}
<1>1. <<>> \in A
  OBVIOUS
<1>2. ASSUME NEW vs \in Seq(Seq(Char)), NEW v \in Seq(Char), vs \in A PROVE Append(vs, v) \in A
  <2>1. PICK t, n, e, l, w :
          t = EscapeText(v) /\ n = Newlines(v) /\ e = EscapeTextList(vs) /\ l = NewlinesOf(vs) /\ w = Append(vs, v)
    OBVIOUS
  <2>2. t \in Seq(Char) /\ n \in Seq(Char) /\ t = Through(Escaped, n)
    BY <2>1, ElementType, EscapeTextIs
  <2>3. /\ e \in Seq(Char) /\ l \in Seq(Seq(Char)) /\ Len(l) = Len(vs)
        /\ EscapeTextList(w) = Cat(e, Element(Len(vs) + 1, v))
        /\ NewlinesOf(w) = Append(l, n)
    BY <2>1, ListAppend
  <2>4. w \in Seq(Seq(Char)) /\ Len(vs) \in Nat
    BY <2>1, AppendProperties
  <2>5. PICK first : first = << <<>> >>
    OBVIOUS
  <2>6. ASSUME NEW k \in Seq(Seq(Char))
        PROVE  Read(Reader(Append(k, <<>>)), t) = Reader(Append(k, n))
    <3>1. PICK x, z : z = <<>> /\ x = Append(k, z)
      OBVIOUS
    <3>2. z \in Seq(Char)
      BY <3>1
    <3>3. Cat(z, n) = n
      BY <2>2, <3>1, ConcatEmptySeq DEF Cat
    <3>4. /\ x # <<>> /\ x[Len(x)] = z
          /\ WithLast(x, n) = Append(k, n)
      <4>1. /\ Append(k, z) # <<>> /\ Append(k, z)[Len(Append(k, z))] = z
            /\ WithLast(Append(k, z), n) = Append(k, n)
        BY <2>2, <3>2, ReplaceLast
      <4> QED BY <3>1, <4>1, Zenon
    <3>5. Extended(x, n) = Append(k, n)
      BY <3>3, <3>4, Zenon DEF Extended, WithLast
    <3>6. x \in Seq(Seq(Char))
      BY <3>1, <3>2, AppendProperties
    <3>7. Read(Reader(x), Through(Escaped, n)) = Reader(Extended(x, n))
      BY <2>2, <3>4, <3>6, ReadText
    <3> QED BY <2>2, <3>1, <3>5, <3>7, Zenon
  <2>7. CASE vs = <<>>
    <3>1. e = <<>> /\ l = <<>> /\ Len(vs) + 1 = 1
      <4>1. EscapeTextList(<<>>) = <<>>
        BY FlattenEmpty DEF EscapeTextList
      <4>2. NewlinesOf(<<>>) = <<>> /\ Len(<<>>) + 1 = 1
        BY DEF NewlinesOf
      <4> QED BY <2>1, <2>7, <4>1, <4>2, Zenon
    <3>2. Cat(<<>>, t) = t
      BY <2>2, ConcatEmptySeq DEF Cat
    <3>3. Element(Len(vs) + 1, v) = t
      BY <2>1, <3>1, <3>2, Zenon DEF Element
    <3>4. EscapeTextList(w) = t
      BY <2>3, <3>1, <3>2, <3>3, Zenon
    <3>5. PICK k : k = <<>>
      OBVIOUS
    <3>6. k \in Seq(Seq(Char)) /\ Append(k, <<>>) = << <<>> >>
      BY <3>5
    <3>7. Read(Reader(<< <<>> >>), t) = Reader(Append(k, n))
      BY <2>6, <3>6, Zenon
    <3>8. Good(w)
      BY <2>3, <3>1, <3>4, <3>5, <3>7, Zenon
    <3> HIDE DEF Good
    <3> QED BY <2>1, <2>4, <3>8, Zenon
  <2>8. CASE vs # <<>>
    <3>1. Read(Reader(first), e) = Reader(l)
      BY <1>2, <2>1, <2>5, <2>8
    <3>2. Len(vs) + 1 # 1
      BY <2>4, <2>8, EmptySeq
    <3>3. PICK c : c = <<",">>
      OBVIOUS
    <3>4. c \in Seq(Char) /\ Element(Len(vs) + 1, v) = Cat(c, t)
      <4>1. c \in Seq(Char)
        BY <3>3, PairType, Zenon
      <4> QED BY <2>1, <3>2, <3>3, <4>1, Zenon DEF Element
    <3>5. Cat(c, t) \in Seq(Char) /\ Cat(e, Cat(c, t)) \in Seq(Char)
      BY <2>2, <2>3, <3>4, CatParts
    <3>6. Read(Reader(first), Cat(e, Cat(c, t))) = Read(Reader(l), Cat(c, t))
      <4>1. Read(Reader(first), Cat(e, Cat(c, t))) = Read(Read(Reader(first), e), Cat(c, t))
        BY <2>3, <3>5, ReadCat
      <4> QED BY <3>1, <4>1, Zenon
    <3>7. Read(Reader(l), Cat(c, t)) = Read(Read(Reader(l), c), t)
      BY <2>2, <3>4, ReadCat
    <3>8. Read(Reader(l), c) = Reader(Append(l, <<>>))
      <4>1. PICK z : z = <<>>
        OBVIOUS
      <4>2. z \in Seq(Char) /\ "," \in Char /\ Append(z, ",") = c
        <5>1. z \in Seq(Char)
          BY <4>1
        <5>2. \A x : Append(<<>>, x) = <<x>>
          OBVIOUS
        <5> QED BY <3>3, <4>1, <5>1, <5>2, PairType, Zenon
      <4>3. Read(Reader(l), Append(z, ",")) = ReadChar(Read(Reader(l), z), ",")
        BY <4>2, ReadAppend
      <4> QED BY <4>1, <4>2, <4>3, ReadEmpty, ReadOne, Zenon
    <3>9. Read(Reader(Append(l, <<>>)), t) = Reader(Append(l, n))
      BY <2>3, <2>6, Zenon
    <3>10. Good(w)
      BY <2>3, <2>5, <3>4, <3>6, <3>7, <3>8, <3>9, Zenon
    <3> HIDE DEF Good
    <3> QED BY <2>1, <2>4, <3>10, Zenon
  <2> QED BY <2>7, <2>8
<1>3. Seq(Seq(Char)) \subseteq A
  <2> HIDE DEF A
  <2> QED BY <1>1, <1>2, RightInduction
<1> QED BY <1>3

(***************************************************************************)
(* The text in the file.                                                   *)
(***************************************************************************)
Clean == Char \ {"CR", "LF"}

LEMMA ListClean ==
  ASSUME NEW vs \in Seq(Seq(Char))
  PROVE  EscapeTextList(vs) \in Seq(Clean)
<1>1. "\\" \in Clean /\ ";" \in Clean /\ "," \in Clean /\ "n" \in Clean
  BY PairType DEF Clean
<1>2. \A x \in Clean : <<x>> \in Seq(Clean) /\ Pair(x) \in Seq(Clean)
  <2>1. \A x, y \in Clean : <<y, x>> \in Seq(Clean) /\ <<x>> \in Seq(Clean)
    OBVIOUS
  <2> QED BY <1>1, <2>1, Zenon DEF Pair
<1>3. ASSUME NEW x \in Char PROVE Escaped4[x] \in Seq(Clean)
  <2>1. CASE x \in {"\\", ";", ","}
    <3>1. Escaped4[x] = Pair(x) /\ x \in Clean
      BY <1>1, <2>1 DEF Escaped4
    <3> QED BY <1>2, <3>1
  <2>2. CASE x \in {"CR", "LF"}
    <3>1. Escaped4[x] = Pair("n")
      BY <2>2 DEF Escaped4
    <3> QED BY <1>1, <1>2, <3>1, Zenon
  <2>3. CASE x \notin {"\\", ";", ",", "CR", "LF"}
    <3>1. Escaped4[x] = <<x>> /\ x \in Clean
      BY <2>3 DEF Escaped4, Clean
    <3> QED BY <1>2, <3>1
  <2> QED BY <2>1, <2>2, <2>3
<1>4. Maps(Escaped4, Char, Seq(Clean))
  BY <1>3 DEF Maps, Escaped4
<1>5. ASSUME NEW v \in Seq(Char) PROVE EscapeText(v) \in Seq(Clean)
  <2>1. PICK j : j = JoinLineEnds(v) /\ j \in Seq(Char)
    BY JoinType
  <2>2. Through(Escaped, Through(NewLined, j)) = Through(Escaped4, j)
    BY <2>1, ReplacedIs
  <2>3. EscapeText(v) = Through(Escaped4, j)
    BY <2>1, <2>2, EscapeTextIs, NewlinesAre
  <2> QED BY <1>4, <2>1, <2>3, ThroughIs
<1>6. PICK n : n = Len(vs) /\ n \in Nat /\ DOMAIN vs = 1..n /\ \A i \in 1..n : vs[i] \in Seq(Char)
  <2>1. Len(vs) \in Nat /\ DOMAIN vs = 1..Len(vs) /\ \A i \in 1..Len(vs) : vs[i] \in Seq(Char)
    OBVIOUS
  <2> QED BY <2>1, Zenon
<1>7. ASSUME NEW i \in 1..n PROVE Element(i, vs[i]) \in Seq(Clean)
  <2>1. PICK x, t : x = (IF i = 1 THEN <<>> ELSE <<",">>) /\ t = EscapeText(vs[i])
    OBVIOUS
  <2>2. <<>> \in Seq(Clean) /\ <<",">> \in Seq(Clean)
    <3>1. <<>> \in Seq(Clean)
      OBVIOUS
    <3>2. <<",">> \in Seq(Clean)
      BY <1>1, <1>2, Zenon
    <3> QED BY <3>1, <3>2
  <2>3. x \in Seq(Clean) /\ t \in Seq(Clean)
    <3>1. x \in Seq(Clean)
      BY <2>1, <2>2
    <3>2. t \in Seq(Clean)
      BY <1>5, <1>6, <2>1
    <3> QED BY <3>1, <3>2
  <2>4. Cat(x, t) \in Seq(Clean)
    BY <2>3, CatParts
  <2> QED BY <2>1, <2>4, Zenon DEF Element
<1>8. Elements(vs) \in [1..n -> Seq(Clean)]
  BY <1>6, <1>7 DEF Elements
<1>9. Elements(vs) \in Seq(Seq(Clean))
  BY <1>6, <1>8, TupleSeq
<1>10. EscapeTextList(vs) = FlattenSeq(Elements(vs))
  BY Zenon DEF EscapeTextList, Elements, Element, Cat
<1> QED BY <1>9, <1>10, FlattenType

(* The lines of the file without the folding. *)
Stripped(w) == [i \in DOMAIN w |-> IF i = 1 THEN w[i] ELSE Tail(w[i])]

Folds(w, C) == w \in Seq(Seq(C)) /\ \A i \in 2..Len(w) : w[i] # <<>>

LEMMA StrippedIs ==
  ASSUME NEW C, NEW w, Folds(w, C)
  PROVE  /\ Stripped(w) \in Seq(Seq(C)) /\ Len(Stripped(w)) = Len(w)
         /\ \A i \in 1..Len(w) : Stripped(w)[i] = IF i = 1 THEN w[i] ELSE Tail(w[i])
<1>1. w \in Seq(Seq(C)) /\ \A i \in 2..Len(w) : w[i] # <<>>
  BY DEF Folds
<1>2. PICK n : n = Len(w) /\ n \in Nat /\ DOMAIN w = 1..n /\ \A i \in 1..n : w[i] \in Seq(C)
  <2>1. Len(w) \in Nat /\ DOMAIN w = 1..Len(w) /\ \A i \in 1..Len(w) : w[i] \in Seq(C)
    BY <1>1
  <2> QED BY <2>1, Zenon
<1>3. \A i \in 1..n : Stripped(w)[i] = IF i = 1 THEN w[i] ELSE Tail(w[i])
  BY <1>2, Zenon DEF Stripped
<1>4. ASSUME NEW i \in 1..n PROVE Stripped(w)[i] \in Seq(C)
  <2>1. CASE i = 1
    BY <1>2, <1>3, <2>1
  <2>2. CASE i # 1
    <3>1. i \in 2..n
      BY <1>2, <2>2
    <3>2. w[i] \in Seq(C) /\ w[i] # <<>>
      BY <1>1, <1>2, <3>1
    <3>3. Tail(w[i]) \in Seq(C)
      BY <3>2, HeadTailProperties
    <3> QED BY <1>3, <2>2, <3>3
  <2> QED BY <2>1, <2>2
<1>5. Stripped(w) \in [1..n -> Seq(C)]
  BY <1>2, <1>4 DEF Stripped
<1> QED BY <1>2, <1>3, <1>5, TupleSeq, Zenon

LEMMA StrippedAppend ==
  ASSUME NEW C, NEW w, Folds(w, C), NEW x \in Seq(C), Len(w) # 0 => x # <<>>
  PROVE  /\ Folds(Append(w, x), C)
         /\ Stripped(Append(w, x)) = Append(Stripped(w), IF Len(w) = 0 THEN x ELSE Tail(x))
<1>1. w \in Seq(Seq(C)) /\ \A i \in 2..Len(w) : w[i] # <<>>
  BY DEF Folds
<1>2. PICK n, u : n = Len(w) /\ n \in Nat /\ u = Append(w, x)
  BY <1>1, SeqElement, Zenon
<1>3. u \in Seq(Seq(C)) /\ Len(u) = n + 1 /\ u[n + 1] = x /\ \A i \in 1..n : u[i] = w[i]
  BY <1>1, <1>2, AppendProperties
<1>4. ASSUME NEW i \in 2..n + 1 PROVE u[i] # <<>>
  <2>1. CASE i = n + 1
    BY <1>2, <1>3, <2>1
  <2>2. CASE i \in 2..n
    BY <1>1, <1>2, <1>3, <2>2
  <2> QED BY <1>2, <2>1, <2>2
<1>5. Folds(u, C)
  BY <1>3, <1>4 DEF Folds
<1>6. PICK p, q, y : p = Stripped(w) /\ q = Stripped(u) /\ y = (IF Len(w) = 0 THEN x ELSE Tail(x))
  OBVIOUS
<1>7. /\ p \in Seq(Seq(C)) /\ Len(p) = n /\ \A i \in 1..n : p[i] = IF i = 1 THEN w[i] ELSE Tail(w[i])
  BY <1>2, <1>6, StrippedIs, Zenon
<1>8. /\ q \in Seq(Seq(C)) /\ Len(q) = n + 1 /\ \A i \in 1..n + 1 : q[i] = IF i = 1 THEN u[i] ELSE Tail(u[i])
  BY <1>3, <1>5, <1>6, StrippedIs, Zenon
<1>9. n + 1 \in 1..n + 1 /\ (n + 1 = 1 <=> n = 0) /\ \A i \in 1..n : i \in 1..n + 1
  BY <1>2
<1>10. q[n + 1] = y
  <2>1. q[n + 1] = IF n + 1 = 1 THEN u[n + 1] ELSE Tail(u[n + 1])
    BY <1>8, <1>9
  <2> QED BY <1>2, <1>3, <1>6, <1>9, <2>1, Zenon
<1>11. ASSUME NEW i \in 1..n PROVE q[i] = p[i]
  <2>1. q[i] = (IF i = 1 THEN u[i] ELSE Tail(u[i])) /\ i \in 1..n + 1
    BY <1>8, <1>9, Zenon
  <2>2. p[i] = (IF i = 1 THEN w[i] ELSE Tail(w[i])) /\ u[i] = w[i]
    BY <1>3, <1>7, Zenon
  <2> QED BY <2>1, <2>2, Zenon
<1>12. y \in Seq(C)
  <2>1. q[n + 1] \in Seq(C)
    BY <1>8, <1>9, SeqElement
  <2> QED BY <1>10, <2>1
<1>13. q = Append(p, y)
  BY <1>2, <1>7, <1>8, <1>10, <1>11, <1>12, AppendProperties
<1> QED BY <1>2, <1>5, <1>6, <1>13, Zenon

(* The same of the last line, when a character is added to it.             *)
LEMMA StrippedLast ==
  ASSUME NEW C, NEW w, Folds(w, C), w # <<>>, NEW c \in C
  PROVE  LET x == WithLast(w, Append(w[Len(w)], c)) IN
           Folds(x, C) /\ FlattenSeq(Stripped(x)) = Cat(FlattenSeq(Stripped(w)), <<c>>)
<1>1. w \in Seq(Seq(C)) /\ \A i \in 2..Len(w) : w[i] # <<>>
  BY DEF Folds
<1>2. PICK v \in Seq(Seq(C)), y \in Seq(C) : w = Append(v, y)
  BY <1>1, SequenceEmptyOrAppend
<1>3. PICK z, x : z = Append(y, c) /\ x = WithLast(w, Append(w[Len(w)], c))
  OBVIOUS
<1>4. z \in Seq(C) /\ z # <<>> /\ Tail(z) = (IF y = <<>> THEN <<>> ELSE Append(Tail(y), c))
  <2>1. z \in Seq(C) /\ z # <<>> /\ Len(z) = Len(y) + 1
    BY <1>3, AppendProperties
  <2>2. CASE y = <<>>
    BY <1>3, <2>1, <2>2
  <2>3. CASE y # <<>>
    BY <1>3, <2>1, <2>3
  <2> QED BY <2>1, <2>2, <2>3
<1>5. x = Append(v, z)
  <2>1. w[Len(w)] = y
    BY <1>2, ReplaceLast
  <2>2. WithLast(Append(v, y), z) = Append(v, z)
    BY <1>4, ReplaceLast
  <2> QED BY <1>2, <1>3, <2>1, <2>2, Zenon
<1>6. PICK n : n = Len(v) /\ n \in Nat
  BY SeqElement
<1>7. Len(w) = n + 1 /\ w[n + 1] = y /\ \A i \in 1..n : w[i] = v[i]
  BY <1>2, <1>6, AppendProperties
<1>8. Folds(v, C)
  <2>1. \A i \in 2..n : v[i] # <<>>
    BY <1>1, <1>6, <1>7
  <2> QED BY <1>6, <2>1 DEF Folds
<1>9. n # 0 => y # <<>>
  BY <1>1, <1>6, <1>7
<1>10. PICK s, p, q : s = Stripped(v) /\ p = (IF n = 0 THEN y ELSE Tail(y)) /\ q = (IF n = 0 THEN z ELSE Tail(z))
  OBVIOUS
<1>11. Stripped(w) = Append(s, p)
  <2>1. Stripped(Append(v, y)) = Append(Stripped(v), IF Len(v) = 0 THEN y ELSE Tail(y))
    BY <1>6, <1>8, <1>9, StrippedAppend
  <2> QED BY <1>2, <1>6, <1>10, <2>1, Zenon
<1>12. Folds(x, C) /\ Stripped(x) = Append(s, q)
  <2>1. /\ Folds(Append(v, z), C)
        /\ Stripped(Append(v, z)) = Append(Stripped(v), IF Len(v) = 0 THEN z ELSE Tail(z))
    BY <1>4, <1>8, StrippedAppend
  <2> QED BY <1>5, <1>6, <1>10, <2>1, Zenon
<1>13. s \in Seq(Seq(C))
  BY <1>8, <1>10, StrippedIs
<1>14. p \in Seq(C) /\ q = Append(p, c)
  <2>1. CASE n = 0
    BY <1>3, <1>10, <2>1
  <2>2. CASE n # 0
    <3>1. Tail(y) \in Seq(C)
      BY <1>9, <2>2, HeadTailProperties
    <3> QED BY <1>4, <1>9, <1>10, <2>2, <3>1
  <2> QED BY <2>1, <2>2
<1>15. PICK o, f : o = <<c>> /\ f = FlattenSeq(s)
  OBVIOUS
<1>16. o \in Seq(C) /\ f \in Seq(C)
  <2>1. o \in Seq(C)
    BY <1>15
  <2> QED BY <1>13, <1>15, <2>1, FlattenType
<1>17. q \in Seq(C) /\ q = Cat(p, o)
  <2>1. q \in Seq(C)
    BY <1>14, AppendProperties
  <2>2. Append(p, c) = Cat(p, o)
    BY <1>14, <1>15, AppendIsConcat DEF Cat
  <2> QED BY <1>14, <2>1, <2>2, Zenon
<1>18. FlattenSeq(Append(s, p)) = Cat(f, p) /\ FlattenSeq(Append(s, q)) = Cat(f, q)
  <2>1. FlattenSeq(Append(s, p)) = FlattenSeq(s) \o p
    BY <1>13, <1>14, FlattenAppend
  <2>2. FlattenSeq(Append(s, q)) = FlattenSeq(s) \o q
    BY <1>13, <1>17, FlattenAppend
  <2> QED BY <1>15, <2>1, <2>2, Zenon DEF Cat
<1>19. Cat(f, Cat(p, o)) = Cat(Cat(f, p), o)
  BY <1>14, <1>16, CatAssociates
<1>20. FlattenSeq(Stripped(x)) = Cat(FlattenSeq(Stripped(w)), <<c>>)
  BY <1>11, <1>12, <1>15, <1>17, <1>18, <1>19, Zenon
<1> QED BY <1>3, <1>12, <1>20, Zenon

(* The same of a new line.                                                 *)
LEMMA StrippedNew ==
  ASSUME NEW C, NEW w, Folds(w, C), w # <<>>, NEW b \in C, NEW c \in C
  PROVE  LET x == Append(w, <<b, c>>) IN
           Folds(x, C) /\ FlattenSeq(Stripped(x)) = Cat(FlattenSeq(Stripped(w)), <<c>>)
<1>1. PICK o, p, x : o = <<c>> /\ p = <<b, c>> /\ x = Append(w, <<b, c>>)
  OBVIOUS
<1>2. o \in Seq(C) /\ p \in Seq(C) /\ p # <<>> /\ Tail(p) = o
  BY <1>1
<1>3. w \in Seq(Seq(C)) /\ Len(w) # 0
  <2>1. w \in Seq(Seq(C))
    BY DEF Folds
  <2> QED BY <2>1, EmptySeq
<1>4. Folds(Append(w, p), C) /\ Stripped(Append(w, p)) = Append(Stripped(w), o)
  <2>1. /\ Folds(Append(w, p), C)
        /\ Stripped(Append(w, p)) = Append(Stripped(w), IF Len(w) = 0 THEN p ELSE Tail(p))
    BY <1>2, StrippedAppend
  <2> QED BY <1>2, <1>3, <2>1, Zenon
<1>5. Stripped(w) \in Seq(Seq(C))
  BY StrippedIs
<1>6. FlattenSeq(Append(Stripped(w), o)) = FlattenSeq(Stripped(w)) \o o
  BY <1>2, <1>5, FlattenAppend
<1> QED BY <1>1, <1>4, <1>6, Zenon DEF Cat

(***************************************************************************)
(* What has been written and what is left make the content line.           *)
(***************************************************************************)
TextIs(vs, l, w) ==
  /\ vs \in Seq(Seq(Char)) /\ l \in Seq(Clean)
  /\ Folds(w, Clean) /\ w # <<>>
  /\ Cat(FlattenSeq(Stripped(w)), l) = EscapeTextList(vs)

TextInv == TextIs(values, line, written)

LEMMA TextStart == TextInit => TextInv
<1> SUFFICES ASSUME TextInit PROVE TextInv
  OBVIOUS
<1>1. values \in Seq(Seq(Char)) /\ line = EscapeTextList(values) /\ written = << <<>> >>
  BY TextAssumption DEF TextInit, FoldInit
<1>2. line \in Seq(Clean)
  BY <1>1, ListClean
<1>3. PICK z : z = <<>>
  OBVIOUS
<1>4. z \in Seq(Clean) /\ <<z>> \in Seq(Seq(Clean)) /\ <<z>> # <<>> /\ Len(<<z>>) = 1
  <2>1. z \in Seq(Clean)
    BY <1>3
  <2> QED BY <2>1
<1>5. Folds(<<z>>, Clean)
  BY <1>4 DEF Folds
<1>6. Stripped(<<z>>) = <<z>>
  BY DEF Stripped
<1>7. FlattenSeq(<<z>>) = z
  <2>1. <<>> \in Seq(Seq(Clean))
    OBVIOUS
  <2> QED BY <1>4, <2>1, FlattenOne
<1>8. Cat(z, line) = line
  BY <1>2, <1>3, ConcatEmptySeq DEF Cat
<1> QED BY <1>1, <1>2, <1>3, <1>4, <1>5, <1>6, <1>7, <1>8, Zenon DEF TextInv, TextIs

(* A character goes from the rest of the line to the end of the text.      *)
LEMMA TextMoves ==
  ASSUME NEW vs, NEW l, NEW w, TextIs(vs, l, w), l # <<>>, NEW x,
         Folds(x, Clean), FlattenSeq(Stripped(x)) = Cat(FlattenSeq(Stripped(w)), <<Head(l)>>), x # <<>>
  PROVE  TextIs(vs, Tail(l), x)
<1>1. /\ vs \in Seq(Seq(Char)) /\ l \in Seq(Clean) /\ Folds(w, Clean)
      /\ Cat(FlattenSeq(Stripped(w)), l) = EscapeTextList(vs)
  BY Zenon DEF TextIs
<1>2. l = Cat(<<Head(l)>>, Tail(l)) /\ Head(l) \in Clean /\ Tail(l) \in Seq(Clean)
  BY <1>1, HeadCat
<1>3. PICK o, t, f : o = <<Head(l)>> /\ t = Tail(l) /\ f = FlattenSeq(Stripped(w))
  OBVIOUS
<1>4. o \in Seq(Clean)
  BY <1>2, <1>3
<1>5. f \in Seq(Clean)
  BY <1>1, <1>3, StrippedIs, FlattenType
<1>6. Cat(Cat(f, o), t) = Cat(f, Cat(o, t))
  <2>1. t \in Seq(Clean)
    BY <1>2, <1>3
  <2> QED BY <1>4, <1>5, <2>1, CatAssociates
<1>7. Cat(FlattenSeq(Stripped(x)), t) = EscapeTextList(vs)
  BY <1>1, <1>2, <1>3, <1>6, Zenon
<1> QED BY <1>1, <1>2, <1>3, <1>7, Zenon DEF TextIs

LEMMA TextStep == TextInv /\ [WriteRune]_foldVars /\ UNCHANGED values => TextInv'
<1> SUFFICES ASSUME TextInv, [WriteRune]_foldVars, UNCHANGED values PROVE TextInv'
  OBVIOUS
<1>1. CASE WriteRune
  <2>1. /\ line # <<>> /\ line' = Tail(line)
        /\ \/ written' = Append(written, <<Space, Head(line)>>)
           \/ written' = [written EXCEPT ![Len(written)] = Append(@, Head(line))]
    BY <1>1, Zenon DEF WriteRune
  <2>2. line \in Seq(Clean) /\ Folds(written, Clean) /\ written # <<>> /\ TextIs(values, line, written)
    BY Zenon DEF TextInv, TextIs
  <2>3. Head(line) \in Clean /\ Space \in Clean
    <3>1. Head(line) \in Clean
      BY <2>1, <2>2, HeadCat
    <3> QED BY <3>1, FoldAssumption, TextAssumption DEF Clean
  <2>4. PICK c, x : c = Head(line) /\ x = written'
    OBVIOUS
  <2>5. /\ Folds(x, Clean)
        /\ FlattenSeq(Stripped(x)) = Cat(FlattenSeq(Stripped(written)), <<c>>)
    <3>1. CASE x = Append(written, <<Space, c>>)
      <4>1. /\ Folds(Append(written, <<Space, c>>), Clean)
            /\ FlattenSeq(Stripped(Append(written, <<Space, c>>))) = Cat(FlattenSeq(Stripped(written)), <<c>>)
        BY <2>2, <2>3, <2>4, StrippedNew
      <4> QED BY <3>1, <4>1, Zenon
    <3>2. CASE x = WithLast(written, Append(written[Len(written)], c))
      <4> DEFINE u == WithLast(written, Append(written[Len(written)], c))
      <4>1. Folds(u, Clean) /\ FlattenSeq(Stripped(u)) = Cat(FlattenSeq(Stripped(written)), <<c>>)
        BY <2>2, <2>3, <2>4, StrippedLast
      <4> HIDE DEF u
      <4>2. x = u
        BY <3>2 DEF u
      <4> QED BY <4>1, <4>2, Zenon
    <3>3. [written EXCEPT ![Len(written)] = Append(@, Head(line))] = WithLast(written, Append(written[Len(written)], Head(line)))
      BY Zenon DEF WithLast
    <3> QED BY <2>1, <2>4, <3>1, <3>2, <3>3, Zenon
  <2>6. x # <<>>
    <3>1. CASE x = Append(written, <<Space, c>>)
      <4>1. PICK p, C : p = <<Space, c>> /\ C = Seq(Clean)
        OBVIOUS
      <4>2. p \in C /\ written \in Seq(C)
        <5>1. p \in Seq(Clean)
          BY <2>3, <2>4, <4>1
        <5> QED BY <2>2, <4>1, <5>1 DEF Folds
      <4> QED BY <3>1, <4>1, <4>2, AppendProperties
    <3>2. CASE x = [written EXCEPT ![Len(written)] = Append(@, Head(line))]
      <4>1. written \in Seq(Seq(Clean))
        BY <2>2 DEF Folds
      <4>2. DOMAIN x = DOMAIN written /\ DOMAIN written # {}
        BY <2>2, <3>2, <4>1
      <4> QED BY <4>2
    <3> QED BY <2>1, <2>4, <3>1, <3>2
  <2>7. TextIs(values, Tail(line), x)
    BY <2>1, <2>2, <2>4, <2>5, <2>6, TextMoves
  <2> QED BY <2>1, <2>4, <2>7, Zenon DEF TextInv
<1>2. CASE UNCHANGED foldVars
  <2>1. line' = line /\ written' = written /\ values' = values
    BY <1>2 DEF foldVars
  <2> QED BY <2>1, Zenon DEF TextInv
<1> QED BY <1>1, <1>2

LEMMA TextRead == TextInv => TextSurvives
<1> SUFFICES ASSUME TextInv, line = <<>>, values # <<>>
             PROVE  /\ \A i \in DOMAIN written : \A j \in DOMAIN written[i] : written[i][j] \notin {"CR", "LF"}
                    /\ ReadBack = NewlinesOf(values)
  BY Zenon DEF TextSurvives, NewlinesOf
<1>1. /\ values \in Seq(Seq(Char)) /\ Folds(written, Clean)
      /\ Cat(FlattenSeq(Stripped(written)), line) = EscapeTextList(values)
  BY Zenon DEF TextInv, TextIs
<1>2. \A i \in DOMAIN written : \A j \in DOMAIN written[i] : written[i][j] \notin {"CR", "LF"}
  <2>1. written \in Seq(Seq(Clean))
    BY <1>1 DEF Folds
  <2>2. ASSUME NEW i \in DOMAIN written, NEW j \in DOMAIN written[i] PROVE written[i][j] \notin {"CR", "LF"}
    <3>1. written[i] \in Seq(Clean)
      BY <2>1
    <3>2. written[i][j] \in Clean
      BY <3>1
    <3> QED BY <3>2 DEF Clean
  <2> QED BY <2>2
<1>3. Unfolded = FlattenSeq(Stripped(written))
  BY Zenon DEF Unfolded, Stripped
<1>4. Unfolded = EscapeTextList(values)
  <2>1. FlattenSeq(Stripped(written)) \in Seq(Clean)
    BY <1>1, StrippedIs, FlattenType
  <2>2. Cat(FlattenSeq(Stripped(written)), <<>>) = FlattenSeq(Stripped(written))
    BY <2>1, ConcatEmptySeq DEF Cat
  <2> QED BY <1>1, <1>3, <2>2, Zenon
<1>5. Read(Reader(<< <<>> >>), EscapeTextList(values)) = Reader(NewlinesOf(values))
  BY <1>1, ReadList
<1>6. ReadBack = Read(Reader(<< <<>> >>), Unfolded).list
  BY Zenon DEF ReadBack, Read, Reader
<1>7. Reader(NewlinesOf(values)).list = NewlinesOf(values)
  BY DEF Reader
<1> QED BY <1>2, <1>4, <1>5, <1>6, <1>7, Zenon


(***************************************************************************)
(* Folding keeps to the limit, for every content line and every limit that *)
(* has room for a space and a character.                                   *)
(***************************************************************************)
(* The counter counts: it is right because the first character never folds *)
(* and a continued line starts with its space counted.                     *)
IInv ==
  /\ line \in Seq(Char)
  /\ octets \in Nat /\ lineBytes = octets
  /\ closed \in Seq(Nat)
  /\ FitsLimit

LEMMA InitIInv == FoldInit => IInv
  BY FoldAssumption DEF FoldInit, IInv, FitsLimit

LEMMA StepIInv == IInv /\ [FoldNext]_foldVars => IInv'
<1> SUFFICES ASSUME IInv, [FoldNext]_foldVars PROVE IInv'
  OBVIOUS
<1> USE FoldAssumption DEF IInv, FitsLimit
<1>1. CASE WriteRune
  <2> DEFINE size == Octets[Head(line)]
  <2>1. Head(line) \in Char /\ line' \in Seq(Char)
    BY <1>1 DEF WriteRune
  <2>2. size \in 1..4
    BY <2>1
  <2>3. CASE Overflows(size)
    <3>1. lineBytes' = 1 + size /\ octets' = 1 + size /\ closed' = Append(closed, octets)
      BY <1>1, <2>3 DEF WriteRune, AfterFold
    <3>2. closed' \in Seq(Nat) /\ \A i \in DOMAIN closed' : closed'[i] <= Limit
      BY <3>1
    <3> QED BY <2>1, <2>2, <3>1, <3>2
  <2>4. CASE ~Overflows(size)
    <3>1. lineBytes' = lineBytes + size /\ octets' = octets + size /\ closed' = closed
      BY <1>1, <2>4 DEF WriteRune
    <3>2. lineBytes = 0 \/ lineBytes + size <= Limit
      BY <2>2, <2>4 DEF Overflows
    <3> QED BY <2>1, <2>2, <3>1, <3>2
  <2> QED BY <2>3, <2>4
<1>2. CASE UNCHANGED foldVars
  BY <1>2 DEF foldVars
<1> QED BY <1>1, <1>2 DEF FoldNext

(***************************************************************************)
(* The theorems.  The three parts share no variable: each has its own      *)
(* invariant, and a step of one leaves those of the others alone.          *)
(***************************************************************************)
RenderingInv == CalendarInv /\ TextInv /\ IInv /\ IdentityInv

LEMMA RenderingStart == RenderingInit => RenderingInv
<1> SUFFICES ASSUME RenderingInit PROVE RenderingInv
  OBVIOUS
<1>1. FileInit /\ IdentityInit
  BY Zenon DEF RenderingInit
<1>2. Init /\ TextInit
  BY <1>1, Zenon DEF FileInit
<1>3. FoldInit
  BY <1>2, Zenon DEF TextInit
<1> QED BY <1>1, <1>2, <1>3, CalendarInit, TextStart, InitIInv, IdentityStart, Zenon DEF RenderingInv

LEMMA RenderingStep ==
  RenderingInv /\ [RenderingNext]_<<vars, foldVars, values, identityVars>> => RenderingInv'
<1> SUFFICES ASSUME RenderingInv, [RenderingNext]_<<vars, foldVars, values, identityVars>> PROVE RenderingInv'
  OBVIOUS
<1>1. CalendarInv /\ TextInv /\ IInv /\ IdentityInv
  BY Zenon DEF RenderingInv
<1>2. [Next]_vars /\ [FoldNext]_foldVars /\ UNCHANGED values /\ [IdentityNext]_identityVars
  BY Zenon DEF RenderingNext, FileNext
<1>3. CalendarInv'
  BY <1>1, <1>2, CalendarStep
<1>4. TextInv'
  BY <1>1, <1>2, TextStep DEF FoldNext
<1>5. IInv'
  BY <1>1, <1>2, StepIInv
<1>6. IdentityInv'
  BY <1>1, <1>2, IdentityStep
<1> QED BY <1>3, <1>4, <1>5, <1>6, Zenon DEF RenderingInv

THEOREM RenderingHolds == RenderingSpec => []RenderingInv
  BY RenderingStart, RenderingStep, PTL DEF RenderingSpec

(* The calendar is a function of the list of events, whatever order the    *)
(* map has, and it fails if and only if a kept event is bad: dropping the  *)
(* older versions and the stable sort leave one possible file, which is    *)
(* what the ETag of webcal relies on (ical.go:55-61, 74-78, 148-166).      *)
THEOREM RenderedAlike == RenderingSpec => []RenderedOnce
<1>1. RenderingInv => RenderedOnce
  BY Zenon DEF RenderingInv, CalendarInv
<1> QED BY <1>1, RenderingHolds, PTL

(* No line of the calendar file is longer than the limit, for every text   *)
(* and every limit that has room for a space and a character               *)
(* (ical.go:222-228).                                                      *)
THEOREM LinesFit == RenderingSpec => []FitsLimit
<1>1. RenderingInv => FitsLimit
  BY Zenon DEF RenderingInv, IInv
<1> QED BY <1>1, RenderingHolds, PTL

(* A reader of the file gets the texts of the list back, for every list of *)
(* texts of any length: unfolding undoes folding wherever it falls, and    *)
(* reading undoes the escapes and the commas between the texts             *)
(* (ical.go:201-232).                                                      *)
THEOREM TextIsRead == RenderingSpec => []TextSurvives
<1>1. RenderingInv => TextSurvives
  BY TextRead DEF RenderingInv
<1> QED BY <1>1, RenderingHolds, PTL

(* An item is known again by the revision in its mail exactly while it     *)
(* says what it said, for any number of groups and attachments in any      *)
(* order (message.go:58-73, models.go:155-172).                   *)
THEOREM MailIsFound == RenderingSpec => []FoundAgain
<1>1. RenderingInv => FoundAgain
  BY IdentityFound DEF RenderingInv
<1> QED BY <1>1, RenderingHolds, PTL
=============================================================================
