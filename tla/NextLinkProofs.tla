---------------------------- MODULE NextLinkProofs ----------------------------
(***************************************************************************)
(* The search for the next active link, for any schedule: the distance to  *)
(* a timeslot, the invariants of the loop over the links, and what the     *)
(* loop returns once it has seen them all.                                 *)
(***************************************************************************)
EXTENDS TschScheduleProofs

(* The next occurrence of a timeslot is never in the slot itself, at most  *)
(* a slotframe away, and in that timeslot: whole slotframes after ASN 0.   *)
THEOREM TimeToNextOccurrence ==
  ASSUME NEW asn \in Nat, NEW length \in Nat \ {0},
         NEW timeslot \in 0 .. length - 1
  PROVE  /\ TimeTo(asn, timeslot, length) \in 1 .. length
         /\ \E k \in Nat :
              asn + TimeTo(asn, timeslot, length) = length * k + timeslot
<1> DEFINE now == asn % length
           k == asn \div length
<1>1. now \in 0 .. length - 1 /\ k \in Nat /\ asn = length * k + now
  OBVIOUS
<1>2. length * (k + 1) = length * k + length  BY <1>1
<1>3. length * k \in Nat  BY <1>1
<1> DEFINE p == length * k
<1>4. p \in Nat /\ asn = p + now /\ length * (k + 1) = p + length
  BY <1>1, <1>2, <1>3
<1>5. TimeTo(asn, timeslot, length)
        = IF timeslot > now THEN timeslot - now ELSE length + timeslot - now
  BY DEF TimeTo
<1> HIDE DEF now, k, p
<1>6. TimeTo(asn, timeslot, length) \in 1 .. length  BY <1>1, <1>5
<1>7. CASE timeslot > now
  <2>1. asn + TimeTo(asn, timeslot, length) = p + timeslot
    BY <1>1, <1>4, <1>5, <1>7
  <2> QED  BY <1>1, <1>6, <2>1 DEF p
<1>8. CASE ~(timeslot > now)
  <2>1. asn + TimeTo(asn, timeslot, length) = length * (k + 1) + timeslot
    BY <1>1, <1>4, <1>5, <1>8
  <2>2. k + 1 \in Nat  BY <1>1
  <2> QED  BY <1>6, <2>1, <2>2
<1> QED  BY <1>7, <1>8

-----------------------------------------------------------------------------
(* A schedule whose links are inside their slotframes. *)
WellFormed ==
  /\ link \in [Block -> LinkRecord \cup {Free}]
  /\ size \in [Handle -> Nat]
  /\ \A b \in Installed : link[b].timeslot < size[link[b].slotframe_handle]

(* What a link and its distance are made of. *)
LEMMA LinkFields ==
  ASSUME WellFormed, NEW b \in Installed, NEW asn \in Nat
  PROVE  /\ b \in Block /\ b # NoLink
         /\ link[b] \in LinkRecord
         /\ link[b].slotframe_handle \in Nat
         /\ link[b].tx \in BOOLEAN /\ link[b].rx \in BOOLEAN
         /\ link[b].addr \in Address
         /\ TimeToLink(asn, b) \in Nat
<1>1. b \in Block /\ link[b] \in LinkRecord
  BY DEF WellFormed, Installed
<1>2. /\ b # NoLink
      /\ link[b].slotframe_handle \in Handle /\ link[b].timeslot \in Nat
      /\ link[b].tx \in BOOLEAN /\ link[b].rx \in BOOLEAN
      /\ link[b].addr \in Address
  BY <1>1, ScheduleAssumption DEF LinkRecord
<1> DEFINE length == size[link[b].slotframe_handle]
<1>3. length \in Nat /\ link[b].timeslot < length
  BY <1>2 DEF WellFormed
<1>4. link[b].timeslot \in 0 .. length - 1 /\ length \in Nat \ {0}
  BY <1>2, <1>3
<1>5. TimeTo(asn, link[b].timeslot, length) \in 1 .. length
  BY <1>4, TimeToNextOccurrence
<1>6. TimeToLink(asn, b) \in Nat  BY <1>3, <1>5 DEF TimeToLink
<1> QED  BY <1>1, <1>2, <1>6, ScheduleAssumption

(* The search has seen the links of seen and has found the first of them.  *)
FoundFirst(found, seen, asn, queued) ==
  IF seen = {} THEN found = NothingFound
  ELSE /\ found.best \in seen
       /\ found.time = TimeToLink(asn, found.best)
       /\ \A c \in seen :
            /\ found.time <= TimeToLink(asn, c)
            /\ TimeToLink(asn, c) = found.time
                 => ~Precedes(c, found.best, queued)

(* And a node without a packet would listen on the lowest of those of its  *)
(* slot.                                                                   *)
FoundListener(found, seen, asn) ==
  /\ found.backup # NoLink =>
       /\ found.backup \in seen
       /\ link[found.backup].rx
       /\ TimeToLink(asn, found.backup) = found.time
  /\ \A c \in seen :
       link[c].rx /\ TimeToLink(asn, c) = found.time =>
         /\ link[Listener(found)].rx
         /\ link[Listener(found)].slotframe_handle
              <= link[c].slotframe_handle

(* The outcome of a comparison: either nothing, where the best stays, or   *)
(* one of the two; and neither seen link precedes what is kept.            *)
LEMMA NewBestIsFirst ==
  ASSUME WellFormed, NEW best \in Installed, NEW l \in Installed,
         NEW queued \in [Address -> Nat]
  PROVE  LET new == NewBest(best, l, queued)
             kept == IF new = NoLink THEN best ELSE new
         IN /\ new \in {NoLink, best, l}
            /\ kept \in {best, l}
            /\ ~Precedes(best, kept, queued)
            /\ ~Precedes(l, kept, queued)
            /\ \A c \in Installed : ~Precedes(c, best, queued)
                                      => ~Precedes(c, kept, queued)
<1>1. /\ \A b \in Installed :
           /\ b # NoLink
           /\ link[b].slotframe_handle \in Nat
           /\ link[b].tx \in BOOLEAN
           /\ link[b].addr \in Address
           /\ queued[link[b].addr] \in Nat
  BY LinkFields, 0 \in Nat
<1>5. \A b \in Installed : ~Precedes(b, b, queued)
  <2> SUFFICES ASSUME NEW b \in Installed PROVE ~Precedes(b, b, queued)
    OBVIOUS
  <2> DEFINE h == link[b].slotframe_handle
             q == queued[link[b].addr]
  <2>1. h \in Nat /\ q \in Nat  BY <1>1
  <2> HIDE DEF h, q
  <2>2. ~(h < h) /\ ~(q > q)  BY <2>1
  <2> QED  BY <2>2 DEF Precedes, h, q
<1>2. CASE link[l].tx # link[best].tx
  <2> DEFINE new == NewBest(best, l, queued)
             kept == IF new = NoLink THEN best ELSE new
  <2>1. new = IF link[l].tx THEN l ELSE NoLink  BY <1>2 DEF NewBest
  <2> HIDE DEF new
  <2>2. CASE link[l].tx
    <3>1. ~link[best].tx /\ kept = l /\ new = l  BY <1>1, <1>2, <2>1, <2>2
    <3>2. ~Precedes(best, l, queued)
      BY <2>2, <3>1, Zenon DEF Precedes
    <3>3. \A c \in Installed : Precedes(c, l, queued) => Precedes(c, best, queued)
      BY <1>1, <2>2, <3>1 DEF Precedes
    <3> QED  BY <1>5, <3>1, <3>2, <3>3 DEF new
  <2>3. CASE ~link[l].tx
    <3>1. link[best].tx /\ kept = best /\ new = NoLink
      BY <1>1, <1>2, <2>1, <2>3
    <3>2. ~Precedes(l, best, queued)
      BY <2>3, <3>1, Zenon DEF Precedes
    <3> QED  BY <1>5, <3>1, <3>2 DEF new
  <2> QED  BY <2>2, <2>3
<1>3. CASE /\ link[l].tx = link[best].tx
           /\ link[l].slotframe_handle # link[best].slotframe_handle
  BY <1>1, <1>3 DEF NewBest, Precedes
<1>4. CASE /\ link[l].tx = link[best].tx
           /\ link[l].slotframe_handle = link[best].slotframe_handle
  <2>1. NewBest(best, l, queued) = Comparator(best, l, queued)
    BY <1>1, <1>4 DEF NewBest
  <2>2. NewBest(best, l, queued) \in {best, l}  BY <2>1 DEF Comparator
  <2>3. CASE Comparator(best, l, queued) = best
    <3>1. ~(/\ link[best].tx /\ link[l].tx
            /\ queued[link[l].addr] > queued[link[best].addr])
      BY <1>1, <2>3, <1>4 DEF Comparator
    <3>2. ~Precedes(best, best, queued) /\ ~Precedes(l, best, queued)
      BY <1>1, <1>4, <3>1 DEF Precedes
    <3> QED  BY <1>1, <2>1, <2>3, <3>2
  <2>4. CASE Comparator(best, l, queued) = l /\ l # best
    <3>1. /\ link[best].tx /\ link[l].tx
          /\ queued[link[best].addr] < queued[link[l].addr]
      BY <1>1, <1>4, <2>4 DEF Comparator
    <3>2. ~Precedes(best, l, queued) /\ ~Precedes(l, l, queued)
      BY <1>1, <1>4, <3>1 DEF Precedes
    <3>3. ASSUME NEW c \in Installed, Precedes(c, l, queued)
          PROVE  Precedes(c, best, queued)
      <4> DEFINE h(b) == link[b].slotframe_handle
                 q(b) == queued[link[b].addr]
      <4>1. /\ h(c) \in Nat /\ h(l) = h(best) /\ h(best) \in Nat
            /\ q(c) \in Nat /\ q(best) \in Nat /\ q(l) \in Nat
            /\ q(best) < q(l)
            /\ link[c].tx \in BOOLEAN /\ link[best].tx /\ link[l].tx
        BY <1>1, <1>4, <3>1, <3>3
      <4>2. \/ link[c].tx = link[l].tx /\ h(c) < h(l)
            \/ link[c].tx /\ link[l].tx /\ h(c) = h(l) /\ q(c) > q(l)
        BY <3>3, <4>1 DEF Precedes
      <4>3. CASE link[c].tx = link[l].tx /\ h(c) < h(l)
        <5>1. link[c].tx = link[best].tx /\ h(c) < h(best)
          BY <4>1, <4>3
        <5> QED  BY <5>1 DEF Precedes
      <4>4. CASE link[c].tx /\ link[l].tx /\ h(c) = h(l) /\ q(c) > q(l)
        <5>1. link[c].tx /\ link[best].tx /\ h(c) = h(best) /\ q(c) > q(best)
          BY <4>1, <4>4
        <5> QED  BY <5>1 DEF Precedes
      <4> QED  BY <4>2, <4>3, <4>4
    <3> QED  BY <1>1, <2>1, <2>4, <3>2, <3>3
  <2> QED  BY <2>1, <2>2, <2>3, <2>4
<1> QED  BY <1>2, <1>3, <1>4

(* Each link the search considers keeps the best of those seen the         *)
(* earliest, and the first by the standard's priorities.                   *)
THEOREM SearchKeepsFirst ==
  ASSUME WellFormed, NEW asn \in Nat, NEW queued \in [Address -> Nat],
         NEW seen \in SUBSET Installed, NEW l \in Installed,
         NEW found, FoundFirst(found, seen, asn, queued)
  PROVE  FoundFirst(Consider(found, l, asn, queued), seen \cup {l}, asn, queued)
<1> DEFINE next == Consider(found, l, asn, queued)
           time == TimeToLink(asn, l)
           new == NewBest(found.best, l, queued)
<1>1. \A b \in Installed : TimeToLink(asn, b) \in Nat /\ b # NoLink
  BY LinkFields
<1>2. seen # {} => /\ found.best \in seen /\ found.best \in Installed
                   /\ found.best # NoLink
                   /\ found.time = TimeToLink(asn, found.best)
                   /\ found.time \in Nat
  BY <1>1 DEF FoundFirst
<1>6. found.best # NoLink => found.time \in Nat
  BY <1>2 DEF FoundFirst, NothingFound
<1>3. CASE found.best = NoLink \/ time < found.time
  <2>1. next.best = l /\ next.time = time  BY <1>1, <1>3, <1>6 DEF Consider
  <2>2. \A c \in seen : time < TimeToLink(asn, c)
    BY <1>1, <1>2, <1>3 DEF FoundFirst
  <2>3. ~Precedes(l, l, queued)
    BY LinkFields, queued[link[l].addr] \in Nat DEF Precedes
  <2> HIDE DEF next
  <2>4. time \in Nat /\ \A c \in seen : TimeToLink(asn, c) \in Nat
    BY <1>1
  <2>5. FoundFirst(next, seen \cup {l}, asn, queued)
    BY ONLY <2>1, <2>2, <2>3, <2>4 DEF FoundFirst
  <2> QED  BY <2>5 DEF next
<1>4. CASE found.best # NoLink /\ time = found.time
  <2>1. seen # {}  BY <1>4 DEF FoundFirst, NothingFound
  <2>2. next.best = (IF new = NoLink THEN found.best ELSE new)
        /\ next.time = time
    BY <1>4 DEF Consider
  <2>3. /\ next.best \in {found.best, l}
        /\ ~Precedes(l, next.best, queued)
        /\ \A c \in Installed : ~Precedes(c, found.best, queued)
                                  => ~Precedes(c, next.best, queued)
    BY <1>2, <2>1, <2>2, NewBestIsFirst
  <2> HIDE DEF next, new
  <2>4. next.time = TimeToLink(asn, next.best)
    BY <1>2, <1>4, <2>1, <2>2, <2>3
  <2>5. ASSUME NEW c \in seen \cup {l}
        PROVE  /\ next.time <= TimeToLink(asn, c)
               /\ TimeToLink(asn, c) = next.time => ~Precedes(c, next.best, queued)
    BY <1>1, <1>2, <1>4, <2>1, <2>2, <2>3, <2>5 DEF FoundFirst
  <2>6. next.best \in seen \cup {l}  BY <1>2, <2>1, <2>3
  <2>7. FoundFirst(next, seen \cup {l}, asn, queued)
    BY ONLY <2>4, <2>5, <2>6 DEF FoundFirst
  <2> QED  BY <2>7 DEF next
<1>5. CASE found.best # NoLink /\ time > found.time
  <2>1. next = found  BY <1>1, <1>2, <1>5 DEF Consider, FoundFirst, NothingFound
  <2> QED  BY <1>1, <1>2, <1>5, <2>1 DEF FoundFirst, NothingFound
<1> QED  BY <1>1, <1>3, <1>4, <1>5, <1>6

(* And keeps a backup with which a node that has no packet listens on the  *)
(* lowest of those seen in the slot.                                       *)
THEOREM SearchKeepsListener ==
  ASSUME WellFormed, NEW asn \in Nat, NEW queued \in [Address -> Nat],
         NEW seen \in SUBSET Installed, NEW l \in Installed,
         NEW found, FoundFirst(found, seen, asn, queued),
         FoundListener(found, seen, asn)
  PROVE  FoundListener(Consider(found, l, asn, queued), seen \cup {l}, asn)
<1> DEFINE next == Consider(found, l, asn, queued)
           time == TimeToLink(asn, l)
           new == NewBest(found.best, l, queued)
           h(b) == link[b].slotframe_handle
<1>1. \A b \in Installed : /\ TimeToLink(asn, b) \in Nat /\ b # NoLink
                           /\ h(b) \in Nat /\ link[b].rx \in BOOLEAN
  BY LinkFields
<1>2. seen # {} => /\ found.best \in seen /\ found.best \in Installed
                   /\ found.best # NoLink
                   /\ found.time = TimeToLink(asn, found.best)
                   /\ found.time \in Nat
                   /\ \A c \in seen : found.time <= TimeToLink(asn, c)
  BY <1>1 DEF FoundFirst
<1>6. found.best # NoLink => found.time \in Nat
  BY <1>2 DEF FoundFirst, NothingFound
<1>3. CASE found.best = NoLink \/ time < found.time
  <2>1. next = [best |-> l, time |-> time, backup |-> NoLink]
    BY <1>1, <1>3, <1>6 DEF Consider
  <2>2. \A c \in seen : time < TimeToLink(asn, c)
    BY <1>1, <1>2, <1>3 DEF FoundFirst
  <2>3. Listener(next) = l  BY <2>1 DEF Listener
  <2> HIDE DEF next
  <2>4. next.best = l /\ next.time = time /\ next.backup = NoLink  BY <2>1
  <2>5. ASSUME NEW c \in seen \cup {l}, link[c].rx, TimeToLink(asn, c) = time
        PROVE  c = l
    BY <1>1, <2>2, <2>5
  <2>6. h(l) \in Nat  BY <1>1
  <2>7. FoundListener(next, seen \cup {l}, asn)
    BY ONLY <2>3, <2>4, <2>5, <2>6 DEF FoundListener
  <2> QED  BY <2>7 DEF next
<1>4. CASE found.best # NoLink /\ time = found.time
  <2>1. seen # {}  BY <1>4 DEF FoundFirst, NothingFound
  <2> DEFINE backup == IF new # l THEN BackupAmong(found.backup, l)
                                  ELSE found.backup
             last == IF new # found.best THEN BackupAmong(backup, found.best)
                                         ELSE backup
  <2>2. /\ next.best = (IF new = NoLink THEN found.best ELSE new)
        /\ next.time = time /\ next.backup = last
    BY <1>4 DEF Consider
  <2>3. new \in {NoLink, found.best, l}
    BY <1>2, <2>1, NewBestIsFirst
  <2> HIDE DEF next, new
  <2>4. /\ backup # NoLink =>
             /\ backup \in seen \cup {l} /\ link[backup].rx
             /\ TimeToLink(asn, backup) = time
        /\ new # l /\ link[l].rx => backup # NoLink /\ h(backup) <= h(l)
        /\ found.backup # NoLink =>
             backup # NoLink /\ h(backup) <= h(found.backup)
    BY <1>1, <1>4 DEF BackupAmong, FoundListener
  <2> HIDE DEF backup
  <2>5. /\ last # NoLink =>
             /\ last \in seen \cup {l} /\ link[last].rx
             /\ TimeToLink(asn, last) = time
        /\ new # found.best /\ link[found.best].rx =>
             last # NoLink /\ h(last) <= h(found.best)
        /\ backup # NoLink => last # NoLink /\ h(last) <= h(backup)
    BY <1>1, <1>2, <1>4, <2>1, <2>4 DEF BackupAmong
  <2> HIDE DEF last
  <2>6. /\ link[Listener(next)].rx <=> last # NoLink \/ link[next.best].rx
        /\ last # NoLink => h(Listener(next)) <= h(last)
        /\ link[next.best].rx => h(Listener(next)) <= h(next.best)
    <3>1. next.best \in Installed  BY <1>2, <2>1, <2>2, <2>3
    <3>2. last # NoLink => last \in Installed /\ link[last].rx  BY <2>5
    <3> QED  BY <1>1, <2>2, <3>1, <3>2 DEF Listener
  <2>7. \A c \in seen \cup {l} :
          link[c].rx /\ TimeToLink(asn, c) = time =>
            link[Listener(next)].rx /\ h(Listener(next)) <= h(c)
    <3>1. SUFFICES ASSUME NEW c \in seen \cup {l}, link[c].rx,
                          TimeToLink(asn, c) = time
                   PROVE  link[Listener(next)].rx /\ h(Listener(next)) <= h(c)
      OBVIOUS
    <3>2. Listener(next) \in Installed
      BY <1>2, <2>1, <2>2, <2>3, <2>5 DEF Listener
    <3>3. CASE c = l
      BY <1>1, <1>2, <2>1, <2>2, <2>3, <2>4, <2>5, <2>6, <3>1, <3>2, <3>3
    <3>4. CASE c \in seen
      <4>1. /\ link[Listener(found)].rx
            /\ h(Listener(found)) <= h(c)
        BY <1>4, <3>1, <3>4 DEF FoundListener
      <4>2. CASE Listener(found) = found.backup /\ found.backup # NoLink
        <5>1. last # NoLink /\ last \in Installed /\ h(last) <= h(backup)
              /\ backup \in Installed /\ h(backup) <= h(found.backup)
              /\ found.backup \in Installed
          BY <2>4, <2>5, <4>2 DEF FoundListener
        <5> QED  BY <1>1, <2>6, <3>1, <3>2, <4>1, <4>2, <5>1
      <4>3. CASE Listener(found) = found.best
        BY <1>1, <1>2, <2>1, <2>2, <2>3, <2>5, <2>6, <3>1, <3>2, <4>1, <4>3
      <4> QED  BY <4>2, <4>3 DEF Listener
    <3> QED  BY <3>3, <3>4
  <2>8. FoundListener(next, seen \cup {l}, asn)
    BY ONLY <2>2, <2>5, <2>7 DEF FoundListener
  <2> QED  BY <2>8 DEF next
<1>5. CASE found.best # NoLink /\ time > found.time
  <2>1. seen # {}  BY <1>5 DEF FoundFirst, NothingFound
  <2>2. next = found  BY <1>1, <1>2, <1>5, <2>1 DEF Consider
  <2> HIDE DEF next
  <2>3. ASSUME NEW c \in seen \cup {l}, TimeToLink(asn, c) = found.time
        PROVE  c \in seen
    BY <1>1, <1>2, <1>5, <2>1, <2>3
  <2>4. FoundListener(found, seen \cup {l}, asn)
    BY <2>3 DEF FoundListener
  <2> QED  BY <2>2, <2>4 DEF next
<1> QED  BY <1>1, <1>3, <1>4, <1>5, <1>6

-----------------------------------------------------------------------------
(* What is left of a division by the divisor of a sum. *)
LEMMA RemainderOf ==
  ASSUME NEW d \in Nat \ {0}, NEW q \in Int, NEW r \in 0 .. d - 1,
         NEW n \in Int, n = d * q + r
  PROVE  n % d = r
<1> DEFINE p == n \div d
           m == n % d
<1>1. m \in 0 .. d - 1 /\ p \in Int /\ n = d * p + m
  OBVIOUS
<1> HIDE DEF p, m
<1>2. d * p + m = d * q + r  BY <1>1
<1>3. d * (p - q) = d * p - d * q /\ d * (q - p) = d * q - d * p
  BY <1>1
<1> DEFINE dp == d * p
           dq == d * q
<1>4. dp \in Int /\ dq \in Int /\ dp + m = dq + r  BY <1>1, <1>2
<1>5. CASE p = q
  <2>1. dp = dq  BY <1>5
  <2> HIDE DEF dp, dq
  <2> QED  BY <1>1, <1>4, <2>1 DEF m
<1>6. CASE p > q
  <2>1. d * (p - q) >= d  BY <1>1, <1>6
  <2>2. dp - dq >= d  BY <1>3, <2>1
  <2> HIDE DEF dp, dq
  <2> QED  BY <1>1, <1>4, <2>2
<1>7. CASE p < q
  <2>1. d * (q - p) >= d  BY <1>1, <1>7
  <2>2. dq - dp >= d  BY <1>3, <2>1
  <2> HIDE DEF dp, dq
  <2> QED  BY <1>1, <1>4, <2>2
<1> QED  BY <1>1, <1>5, <1>6, <1>7

Pointer == Block \cup {NoLink}
Found == [best : Pointer, time : Nat, backup : Pointer]

(* The links of a schedule that is in order are in their slotframes. *)
LEMMA ScheduleIsWellFormed ==
  ASSUME PoolTypeOK, PoolInv PROVE WellFormed
BY DEF PoolTypeOK, PoolInv, WellFormed

(* The search takes the links one after the other. *)
LEMMA SearchRecursion ==
  ASSUME PoolTypeOK, PoolInv, NEW asn \in Nat, NEW queued
  PROVE  \E found :
           /\ found[0] = NothingFound
           /\ found[Len(AllLinks)] = NextActiveLink(asn, queued)
           /\ \A n \in 1 .. Len(AllLinks) :
                /\ found[n] = Consider(found[n - 1], AllLinks[n], asn, queued)
                /\ found[n - 1] \in Found => found[n] \in Found
<1> DEFINE list == AllLinks
           N == Len(list)
           Next1(f, l) == Consider(f, l, asn, queued)
           step == [n \in 1 .. N |-> [f \in Found |-> Next1(f, list[n])]]
           Value(iter, s) ==
             IF s = {} THEN NothingFound
                       ELSE Next1(iter[s \ {Max(s)}], list[Max(s)])
           Fold(iter) == iter = [s \in SUBSET DOMAIN list |-> Value(iter, s)]
           fold == CHOOSE iter : Fold(iter)
<1>1. /\ N \in Nat /\ DOMAIN list = 1 .. N
      /\ \A n \in 1 .. N : list[n] \in Installed
  <2>1. list \in Seq(Block) /\ Range(list) = Installed  BY AllLinksOnce
  <2> HIDE DEF list
  <2> QED  BY <2>1 DEF Range
<1>2. NothingFound \in Found  BY DEF NothingFound, Found, Pointer
<1> HIDE DEF list
<1>3. ASSUME NEW f \in Found, NEW l \in Installed
      PROVE  Next1(f, l) \in Found
  <2> DEFINE time == TimeToLink(asn, l)
             new == NewBest(f.best, l, queued)
             backup == IF new # l THEN BackupAmong(f.backup, l) ELSE f.backup
             last == IF new # f.best THEN BackupAmong(backup, f.best)
                                     ELSE backup
  <2>1. /\ f.best \in Pointer /\ f.backup \in Pointer
        /\ l \in Pointer /\ NoLink \in Pointer /\ time \in Nat
    BY ScheduleIsWellFormed, LinkFields DEF Found, Pointer
  <2>2. new \in Pointer  BY <2>1 DEF NewBest, Comparator
  <2> HIDE DEF new, time
  <2>3. backup \in Pointer  BY <2>1 DEF BackupAmong
  <2> HIDE DEF backup
  <2>4. last \in Pointer  BY <2>1, <2>3 DEF BackupAmong
  <2> HIDE DEF last
  <2> DEFINE one == [best |-> l, time |-> time, backup |-> NoLink]
             two == [best |-> IF new = NoLink THEN f.best ELSE new,
                     time |-> time, backup |-> last]
  <2>5. one \in Found /\ two \in Found  BY <2>1, <2>2, <2>4 DEF Found
  <2>6. Next1(f, l) =
          CASE f.best = NoLink \/ time < f.time -> one
            [] f.best # NoLink /\ time = f.time -> two
            [] OTHER -> f
    BY DEF Consider, time, new, backup, last
  <2> HIDE DEF one, two, Next1
  <2> QED  BY <2>5, <2>6
<1> HIDE DEF Next1
<1>4. step \in [1 .. N -> [Found -> Found]]
  BY <1>1, <1>3
<1>5. PICK g \in [SUBSET (1 .. N) -> Found] : IsFold(g, N, NothingFound, step)
  <2> HIDE DEF step, N
  <2> QED  BY <1>1, <1>2, <1>4, FoldExists, Zenon
<1>6. ASSUME NEW s \in SUBSET (1 .. N), s # {}
      PROVE  /\ Max(s) \in 1 .. N /\ s \ {Max(s)} \in SUBSET (1 .. N)
             /\ \A x \in Found : step[Max(s)][x] = Next1(x, list[Max(s)])
  BY <1>1, <1>6, MaxOfNumbers
<1>7. Fold(g)
  <2> HIDE DEF step
  <2>1. \A s \in SUBSET (1 .. N) : g[s] = Value(g, s)
    BY <1>5, <1>6 DEF IsFold
  <2> HIDE DEF Value
  <2>2. g = [s \in SUBSET (1 .. N) |-> Value(g, s)]  BY <2>1
  <2> QED  BY <1>1, <2>2
<1>8. Fold(fold)
  <2> HIDE DEF Fold
  <2> QED  BY <1>7
<1>9. NextActiveLink(asn, queued) = fold[1 .. N]
  BY <1>1 DEF NextActiveLink, FoldLeft, MapThenFoldSet, Next1, list
<1> HIDE DEF fold
<1>10. \A n \in 0 .. N : fold[1 .. n] = Value(fold, 1 .. n)
  <2> HIDE DEF Value
  <2>1. \A n \in 0 .. N : 1 .. n \in SUBSET (1 .. N)  BY <1>1
  <2> QED  BY <1>1, <1>8, <2>1
<1> DEFINE found == [n \in 0 .. N |-> fold[1 .. n]]
<1>11. found[0] = NothingFound
  <2>1. 1 .. 0 = {} /\ 0 \in 0 .. N  BY <1>1
  <2> QED  BY <1>10, <2>1
<1>12. ASSUME NEW n \in 1 .. N
       PROVE  found[n] = Next1(found[n - 1], list[n])
  <2>1. Max(1 .. n) = n /\ (1 .. n) \ {n} = 1 .. n - 1 /\ 1 .. n # {}
    BY <1>1, MaxOfInterval
  <2>2. n \in 0 .. N /\ n - 1 \in 0 .. N  BY <1>1
  <2>3. fold[1 .. n] = Next1(fold[1 .. n - 1], list[n])
    <3>1. fold[1 .. n] = Value(fold, 1 .. n)  BY <1>10, <2>2
    <3> QED  BY <2>1, <3>1
  <2> QED  BY <2>2, <2>3
<1>13. found[N] = NextActiveLink(asn, queued)  BY <1>1, <1>9
<1> HIDE DEF found
<1>14. \A n \in 1 .. N : found[n - 1] \in Found => found[n] \in Found
  BY <1>1, <1>3, <1>12
<1>15. \A n \in 1 .. N :
         found[n] = Consider(found[n - 1], list[n], asn, queued)
  BY <1>12 DEF Next1
<1> QED  BY <1>11, <1>13, <1>14, <1>15 DEF list

(* So it finds the first of all links that are installed, and a listener.  *)
LEMMA SearchFindsFirst ==
  ASSUME PoolTypeOK, PoolInv, NEW asn \in Nat,
         NEW queued \in [Address -> Nat]
  PROVE  LET found == NextActiveLink(asn, queued)
         IN /\ found \in Found
            /\ FoundFirst(found, Installed, asn, queued)
            /\ FoundListener(found, Installed, asn)
<1> DEFINE list == AllLinks
           N == Len(list)
           Seen(k) == {list[i] : i \in 1 .. k}
<1>1. /\ N \in Nat /\ Seen(N) = Installed
      /\ \A n \in 1 .. N : list[n] \in Installed
  <2>1. list \in Seq(Block) /\ Range(list) = Installed  BY AllLinksOnce
  <2> HIDE DEF list
  <2>2. DOMAIN list = 1 .. N /\ N \in Nat  BY <2>1
  <2> QED  BY <2>1, <2>2 DEF Range
<1>2. PICK found :
        /\ found[0] = NothingFound
        /\ found[N] = NextActiveLink(asn, queued)
        /\ \A n \in 1 .. N :
             /\ found[n] = Consider(found[n - 1], list[n], asn, queued)
             /\ found[n - 1] \in Found => found[n] \in Found
  BY SearchRecursion
<1> HIDE DEF list
<1> DEFINE Right(k) == /\ found[k] \in Found
                       /\ FoundFirst(found[k], Seen(k), asn, queued)
                       /\ FoundListener(found[k], Seen(k), asn)
           K == {k \in Nat : k <= N => Right(k)}
<1>3. Right(0)
  <2>1. Seen(0) = {}  OBVIOUS
  <2> HIDE DEF Seen
  <2>2. NothingFound \in Found  BY DEF NothingFound, Found, Pointer
  <2> QED
    BY <1>2, <2>1, <2>2 DEF FoundFirst, FoundListener, NothingFound
<1>4. ASSUME NEW k \in Nat, k + 1 <= N, Right(k) PROVE Right(k + 1)
  <2>1. k + 1 \in 1 .. N /\ (k + 1) - 1 = k /\ 1 .. k + 1 = (1 .. k) \cup {k + 1}
    BY <1>1, <1>4
  <2>2. /\ found[k + 1] = Consider(found[(k + 1) - 1], list[k + 1], asn, queued)
        /\ found[(k + 1) - 1] \in Found => found[k + 1] \in Found
    BY <1>2, <2>1
  <2>3. /\ found[k + 1] = Consider(found[k], list[k + 1], asn, queued)
        /\ found[k + 1] \in Found
    BY <1>4, <2>1, <2>2
  <2>4. Seen(k + 1) = Seen(k) \cup {list[k + 1]}  BY <2>1
  <2>5. Seen(k) \in SUBSET Installed /\ list[k + 1] \in Installed
    BY <1>1, <2>1, <2>4
  <2> HIDE DEF Seen
  <2>6. FoundFirst(found[k + 1], Seen(k + 1), asn, queued)
    BY <1>4, <2>3, <2>4, <2>5, ScheduleIsWellFormed, SearchKeepsFirst
  <2>7. FoundListener(found[k + 1], Seen(k + 1), asn)
    BY <1>4, <2>3, <2>4, <2>5, ScheduleIsWellFormed, SearchKeepsListener
  <2> QED  BY <2>3, <2>6, <2>7
<1>5. Right(N)
  <2> HIDE DEF Right
  <2>1. 0 \in K /\ \A k \in Nat : k \in K => k + 1 \in K  BY <1>3, <1>4
  <2> HIDE DEF K
  <2>2. N \in K  BY <1>1, <2>1, InductionOnNat
  <2> QED  BY <1>1, <2>2 DEF K
<1> QED  BY <1>1, <1>2, <1>5

(* The next occurrence of the timeslot of a link. *)
LEMMA DistanceOfLink ==
  ASSUME WellFormed, NEW asn \in Nat, NEW b \in Installed
  PROVE  LET length == size[link[b].slotframe_handle]
         IN /\ length \in Nat \ {0}
            /\ TimeToLink(asn, b) \in 1 .. length
            /\ (asn + TimeToLink(asn, b)) % length = link[b].timeslot
<1> DEFINE length == size[link[b].slotframe_handle]
           timeslot == link[b].timeslot
           time == TimeToLink(asn, b)
<1>1. length \in Nat \ {0} /\ timeslot \in 0 .. length - 1
  <2>1. link[b].slotframe_handle \in Handle /\ timeslot \in Nat
    BY DEF WellFormed, Installed, LinkRecord
  <2>2. length \in Nat /\ timeslot < length  BY <2>1 DEF WellFormed
  <2> QED  BY <2>1, <2>2
<1>2. time = TimeTo(asn, timeslot, length)  BY DEF TimeToLink
<1> HIDE DEF length, timeslot, time
<1>3. /\ time \in 1 .. length
      /\ \E k \in Nat : asn + time = length * k + timeslot
  BY <1>1, <1>2, TimeToNextOccurrence
<1>4. PICK k \in Nat : asn + time = length * k + timeslot  BY <1>3
<1>5. (asn + time) % length = timeslot
  <2> DEFINE n == asn + time
  <2>1. n \in Int /\ n = length * k + timeslot  BY <1>1, <1>3, <1>4
  <2> HIDE DEF n
  <2>2. n % length = timeslot  BY <1>1, <2>1, RemainderOf
  <2> QED  BY <2>2 DEF n
<1> QED  BY <1>1, <1>3, <1>5 DEF length, timeslot, time

(* From every ASN, whatever the order of the lists and the queues, the     *)
(* search ends on the earliest slot with a link, and there on a link that  *)
(* none precedes by the standard's priorities.                             *)
THEOREM SearchFindsTheFirst == ScheduleSpec => []NextLinkIsTheFirst
<1>1. ASSUME EditInv, NEW asn \in 0 .. AsnCycle - 1, NEW queued \in Queued
      PROVE  LET found == NextActiveLink(asn, queued)
             IN IF Installed = {} THEN found = NothingFound
                ELSE IsTheFirst(asn, queued, found, Earliest(asn))
  <2> DEFINE found == NextActiveLink(asn, queued)
  <2>1. WellFormed /\ asn \in Nat /\ queued \in [Address -> Nat]
    BY <1>1, ScheduleIsWellFormed, ScheduleAssumption DEF EditInv, Queued
  <2>2. FoundFirst(found, Installed, asn, queued)
    BY <1>1, <2>1, SearchFindsFirst DEF EditInv
  <2> HIDE DEF found
  <2>3. CASE Installed = {}  BY <2>2, <2>3 DEF FoundFirst, found
  <2>4. CASE Installed # {}
    <3>1. /\ found.best \in Installed
          /\ found.time = TimeToLink(asn, found.best)
          /\ \A c \in Installed :
               /\ found.time <= TimeToLink(asn, c)
               /\ TimeToLink(asn, c) = found.time
                    => ~Precedes(c, found.best, queued)
      BY <2>2, <2>4 DEF FoundFirst
    <3>2. \A c \in Installed : TimeToLink(asn, c) \in Nat
      BY <2>1, LinkFields
    <3>3. found.best \in Earliest(asn)  BY <3>1 DEF Earliest
    <3>4. \A c \in Earliest(asn) : ~Precedes(c, found.best, queued)
      <4>1. \A c \in Earliest(asn) :
              c \in Installed /\ TimeToLink(asn, c) = found.time
        BY <3>1, <3>2 DEF Earliest
      <4> QED  BY <3>1, <4>1
    <3>5. LET length == size[link[found.best].slotframe_handle]
          IN /\ found.time \in 1 .. length
             /\ (asn + found.time) % length = link[found.best].timeslot
      BY <2>1, <3>1, DistanceOfLink
    <3> QED  BY <2>4, <3>3, <3>4, <3>5 DEF IsTheFirst, found
  <2> QED  BY <2>3, <2>4
<1>2. EditInv => NextLinkIsTheFirst  BY <1>1 DEF NextLinkIsTheFirst
<1> QED  BY <1>2, EditInvariant, PTL

(* A node with nothing to send listens, if any link of that slot allows    *)
(* it, on one of the lowest handle.                                        *)
THEOREM ListensOnTheLowest == ScheduleSpec => []ListensOnLowest
<1>1. ASSUME EditInv, NEW asn \in 0 .. AsnCycle - 1,
             {b \in Earliest(asn) : link[b].rx} # {}, NEW queued \in Queued
      PROVE  LET receivers == {b \in Earliest(asn) : link[b].rx}
                 listener == Listener(NextActiveLink(asn, queued))
             IN /\ listener \in receivers
                /\ \A c \in receivers : link[listener].slotframe_handle
                                            <= link[c].slotframe_handle
  <2> DEFINE found == NextActiveLink(asn, queued)
             receivers == {b \in Earliest(asn) : link[b].rx}
  <2>1. WellFormed /\ asn \in Nat /\ queued \in [Address -> Nat]
    BY <1>1, ScheduleIsWellFormed, ScheduleAssumption DEF EditInv, Queued
  <2>2. /\ FoundFirst(found, Installed, asn, queued)
        /\ FoundListener(found, Installed, asn)
    BY <1>1, <2>1, SearchFindsFirst DEF EditInv
  <2> HIDE DEF found
  <2>3. PICK r \in receivers : TRUE  BY <1>1
  <2>4. r \in Installed  BY <2>3 DEF Earliest
  <2>5. /\ found.best \in Installed
        /\ found.time = TimeToLink(asn, found.best)
        /\ \A c \in Installed : found.time <= TimeToLink(asn, c)
    BY <2>2, <2>4 DEF FoundFirst
  <2>6. \A c \in Installed : TimeToLink(asn, c) \in Nat
    BY <2>1, LinkFields
  <2>7. \A c \in Installed : c \in Earliest(asn) <=> TimeToLink(asn, c) = found.time
    BY <2>5, <2>6 DEF Earliest
  <2>8. receivers \subseteq Installed  BY DEF Earliest
  <2>9. \A c \in receivers :
          /\ link[Listener(found)].rx
          /\ link[Listener(found)].slotframe_handle <= link[c].slotframe_handle
    BY <2>2, <2>7, <2>8 DEF FoundListener
  <2>10. Listener(found) \in Earliest(asn)
    <3>1. found.backup # NoLink => found.backup \in Earliest(asn)
      BY <2>2, <2>7 DEF FoundListener
    <3>2. found.best \in Earliest(asn)  BY <2>5, <2>7
    <3> QED  BY <3>1, <3>2 DEF Listener
  <2>11. Listener(found) \in receivers  BY <2>3, <2>9, <2>10
  <2> QED  BY <2>9, <2>11 DEF found
<1>2. EditInv => ListensOnLowest  BY <1>1 DEF ListensOnLowest
<1> QED  BY <1>2, EditInvariant, PTL

(* The state of the schedule keeps its type: no list refers to anything    *)
(* but a block, no counter falls below zero, and the search returns blocks.*)
THEOREM ScheduleTypeCorrect == ScheduleSpec => []ScheduleTypeOK
<1> DEFINE Pointers == current_link \in Pointer /\ backup_link \in Pointer
           Inv == EditInv /\ Pointers
<1>1. ScheduleInit => Inv
  <2>1. ScheduleInit => Pointers  BY DEF ScheduleInit, Pointer
  <2> QED  BY <2>1, ScheduleInitOK
<1>2. ASSUME Inv, ScheduleNext PROVE Pointers'
  <2>1. CASE Start \/ AddSlotframe \/ RemoveSlotframe \/ AddLink
    <3>1. UNCHANGED pointerVars
      BY <2>1 DEF Start, AddSlotframe, RemoveSlotframe, AddLink
    <3> QED  BY <1>2, <3>1 DEF pointerVars
  <2>2. CASE RemoveLink
    BY <1>2, <2>2 DEF RemoveLink, Forget, Pointer
  <2>3. CASE LookUp
    <3>1. CASE \E asn \in 0 .. AsnCycle - 1, queued \in Queued :
                 Find(NextActiveLink(asn, queued))
      <4>1. PICK asn \in 0 .. AsnCycle - 1, queued \in Queued :
              Find(NextActiveLink(asn, queued))
        BY <3>1
      <4>2. asn \in Nat /\ queued \in [Address -> Nat]
        BY ScheduleAssumption DEF Queued
      <4>3. NextActiveLink(asn, queued) \in Found
        BY <1>2, <4>2, SearchFindsFirst DEF EditInv
      <4> QED  BY <4>1, <4>3 DEF Find, Found
    <3>2. CASE Find(NothingFound)
      BY <3>2 DEF Find, NothingFound, Pointer
    <3> QED  BY <2>3, <3>1, <3>2 DEF LookUp
  <2> QED  BY <1>2, <2>1, <2>2, <2>3 DEF ScheduleNext, Edit
<1>3. Inv /\ [ScheduleNext]_scheduleVars => Inv'
  <2>1. ASSUME Inv, UNCHANGED scheduleVars PROVE Inv'
    BY <2>1, EditInvStable DEF scheduleVars, pointerVars
  <2>2. ASSUME Inv, ScheduleNext PROVE Inv'
    BY <1>2, <2>2, EditKeeps, EditInvStable DEF ScheduleNext, LookUp
  <2> QED  BY <2>1, <2>2
<1>4. Inv => ScheduleTypeOK
  <2>1. CountInv => \A a \in Address \ missed :
          tx_links_count[a] >= 0 /\ dedicated_tx_links_count[a] >= 0
    BY CountersAreNat
  <2> QED
    BY <2>1 DEF EditInv, CountInv, CountTypeOK, PoolTypeOK, ScheduleTypeOK,
                Pointer
<1> QED
  <2> HIDE DEF Inv
  <2> QED  BY <1>1, <1>3, <1>4, PTL DEF ScheduleSpec
=============================================================================
