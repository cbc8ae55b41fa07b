--------------------------- MODULE GatewayProofs ----------------------------
(***************************************************************************)
(* The rate limiter and the counters of Gateway for any limit, window,     *)
(* clients, routes and requests: first what the deques keep of the         *)
(* admissions, then what a snapshot may show of the counters, which needs  *)
(* a few facts about sums over a finite set.                               *)
(***************************************************************************)
EXTENDS Gateway, SequenceTheorems, FiniteSetTheorems, WellFoundedInduction, TLAPS

(* A bucket is the end of the key's admissions; those it lost are older than *)
(* the window.                                                               *)
IsTail(b, a, start) ==
  /\ Len(b) <= Len(a)
  /\ \A i \in 1..Len(b) : b[i] = a[Len(a) - Len(b) + i]
  /\ \A i \in 1..(Len(a) - Len(b)) : a[i] < start

BucketIsTail == \A k \in Keys : IsTail(bucket[k], admitted[k], now - Window)

AdmittedBefore == \A k \in Keys : \A i \in 1..Len(admitted[k]) : admitted[k][i] <= now

LimiterInv ==
  /\ TypeOK
  /\ BucketIsTail
  /\ AdmittedBefore
  /\ WindowNeverExceeded
  /\ RefusedWasBusy

LEMMA InitInv == Init => LimiterInv
<1> SUFFICES ASSUME Init PROVE LimiterInv
  OBVIOUS
<1> USE DEF Init
<1>1. TypeOK
  <2>1. routes \in PerRoute
    BY DEF PerRoute, Counts, NoCounts
  <2>2. <<>> \in Seq(Nat)
    OBVIOUS
  <2> QED
    BY <2>1, <2>2 DEF TypeOK, Request
<1>2. \A k \in Keys : bucket[k] = <<>> /\ admitted[k] = <<>>
  OBVIOUS
<1>3. BucketIsTail /\ AdmittedBefore
  BY <1>2 DEF BucketIsTail, IsTail, AdmittedBefore
<1>4. WindowNeverExceeded
  BY <1>2, GatewayAssumption DEF WindowNeverExceeded
<1>5. RefusedWasBusy
  BY DEF RefusedWasBusy, Idle
<1> QED
  BY <1>1, <1>3, <1>4, <1>5 DEF LimiterInv

-----------------------------------------------------------------------------
(* The end of an end is an end, if what is cut off is old enough.            *)
StartsOld(b, n, start) == \A i \in 1..n : b[i] < start

LEMMA TailOfTail ==
  ASSUME NEW a \in Seq(Nat), NEW b \in Seq(Nat), NEW start \in Int, NEW n \in 0..Len(b),
         IsTail(b, a, start), StartsOld(b, n, start)
  PROVE  /\ SubSeq(b, n + 1, Len(b)) \in Seq(Nat)
         /\ Len(SubSeq(b, n + 1, Len(b))) = Len(b) - n
         /\ n < Len(b) => SubSeq(b, n + 1, Len(b))[1] = b[n + 1]
         /\ IsTail(SubSeq(b, n + 1, Len(b)), a, start)
<1>0. PICK r : r = SubSeq(b, n + 1, Len(b))
  OBVIOUS
<1>1. PICK la \in Nat : la = Len(a)
  BY LenProperties
<1>2. PICK lb \in Nat : lb = Len(b)
  BY LenProperties
<1>3. n \in 0..lb /\ n \in Nat
  BY <1>2
<1>4. \A i \in (n + 1)..lb : b[i] \in Nat
  BY <1>2, <1>3
<1>5. /\ r \in Seq(Nat)
      /\ Len(r) = IF n + 1 <= lb THEN lb - (n + 1) + 1 ELSE 0
      /\ \A i \in 1..(lb - (n + 1) + 1) : r[i] = b[n + 1 + i - 1]
  <2>1. n + 1 \in Int /\ lb \in Int
    BY <1>3
  <2> QED
    BY <1>0, <1>2, <1>4, <2>1, SubSeqProperties
<1>6. PICK lr \in Nat : lr = Len(r)
  BY <1>5, LenProperties
<1>7. lr = lb - n
  BY <1>3, <1>5, <1>6
<1>8. \A i \in 1..lr : r[i] = b[n + i]
  <2> SUFFICES ASSUME NEW i \in 1..lr PROVE r[i] = b[n + i]
    OBVIOUS
  <2>1. i \in 1..(lb - (n + 1) + 1) /\ n + 1 + i - 1 = n + i
    BY <1>3, <1>7
  <2> QED
    BY <1>5, <2>1
<1>9. /\ lb <= la
      /\ \A i \in 1..lb : b[i] = a[la - lb + i]
      /\ \A i \in 1..(la - lb) : a[i] < start
  BY <1>1, <1>2 DEF IsTail
<1>10. ASSUME NEW i \in 1..lr
       PROVE  r[i] = a[la - lr + i]
  <2>1. n + i \in 1..lb /\ la - lb + (n + i) = la - lr + i
    BY <1>3, <1>7
  <2> QED
    BY <1>8, <1>9, <2>1
<1>11. ASSUME NEW i \in 1..(la - lr)
       PROVE  a[i] < start
  <2>1. CASE i <= la - lb
    BY <1>9, <2>1
  <2>2. CASE i > la - lb
    <3>1. PICK j \in Int : j = i - (la - lb)
      OBVIOUS
    <3>2. j \in 1..n /\ j \in 1..lb /\ la - lb + j = i
      BY <1>3, <1>7, <1>9, <2>2, <3>1
    <3> QED
      BY <1>9, <3>2 DEF StartsOld
  <2> QED
    BY <2>1, <2>2
<1>12. lr <= la
  BY <1>3, <1>7, <1>9
<1>13. IsTail(r, a, start)
  BY <1>1, <1>6, <1>10, <1>11, <1>12 DEF IsTail
<1>14. n < lb => r[1] = b[n + 1]
  <2> SUFFICES ASSUME n < lb PROVE r[1] = b[n + 1]
    OBVIOUS
  <2>1. 1 \in 1..lr
    BY <1>3, <1>7
  <2> QED
    BY <1>8, <2>1
<1> QED
  BY <1>0, <1>2, <1>5, <1>6, <1>7, <1>13, <1>14

LEMMA TailAppend ==
  ASSUME NEW a \in Seq(Nat), NEW b \in Seq(Nat), NEW start \in Int, NEW t \in Nat,
         IsTail(b, a, start)
  PROVE  IsTail(Append(b, t), Append(a, t), start)
<1>1. PICK la \in Nat : la = Len(a)
  BY LenProperties
<1>2. PICK lb \in Nat : lb = Len(b)
  BY LenProperties
<1>3. PICK a2 \in Seq(Nat) : a2 = Append(a, t)
  BY AppendProperties
<1>4. PICK b2 \in Seq(Nat) : b2 = Append(b, t)
  BY AppendProperties
<1>5. Len(a2) = la + 1 /\ (\A i \in 1..la : a2[i] = a[i]) /\ a2[la + 1] = t
  BY <1>1, <1>3, AppendProperties
<1>6. Len(b2) = lb + 1 /\ (\A i \in 1..lb : b2[i] = b[i]) /\ b2[lb + 1] = t
  BY <1>2, <1>4, AppendProperties
<1>7. /\ lb <= la
      /\ \A i \in 1..lb : b[i] = a[la - lb + i]
      /\ \A i \in 1..(la - lb) : a[i] < start
  BY <1>1, <1>2 DEF IsTail
<1>8. ASSUME NEW i \in 1..(lb + 1)
      PROVE  b2[i] = a2[(la + 1) - (lb + 1) + i]
  <2>1. CASE i = lb + 1
    <3>1. (la + 1) - (lb + 1) + i = la + 1
      BY <2>1
    <3> QED
      BY <1>5, <1>6, <2>1, <3>1
  <2>2. CASE i # lb + 1
    <3>1. i \in 1..lb /\ (la + 1) - (lb + 1) + i = la - lb + i /\ la - lb + i \in 1..la
      BY <1>7, <2>2
    <3> QED
      BY <1>5, <1>6, <1>7, <3>1
  <2> QED
    BY <2>1, <2>2
<1>9. ASSUME NEW i \in 1..((la + 1) - (lb + 1))
      PROVE  a2[i] < start
  <2>1. i \in 1..(la - lb) /\ i \in 1..la
    BY <1>7
  <2> QED
    BY <1>5, <1>7, <2>1
<1>10. lb + 1 <= la + 1
  BY <1>7
<1>11. IsTail(b2, a2, start)
  BY <1>5, <1>6, <1>8, <1>9, <1>10 DEF IsTail
<1> QED
  BY <1>3, <1>4, <1>11

(* With fewer than max admissions left, the one max before is old enough.    *)
Spread(a, max, window) ==
  \A i \in 1..(Len(a) - max) : a[i + max] - a[i] > window

LEMMA SpreadAppend ==
  ASSUME NEW a \in Seq(Nat), NEW b \in Seq(Nat), NEW t \in Nat, NEW max \in Nat \ {0},
         NEW window \in Nat, IsTail(b, a, t - window), Len(b) < max, Spread(a, max, window)
  PROVE  Spread(Append(a, t), max, window)
<1>1. PICK la \in Nat : la = Len(a)
  BY LenProperties
<1>2. PICK lb \in Nat : lb = Len(b)
  BY LenProperties
<1>3. PICK a2 \in Seq(Nat) : a2 = Append(a, t)
  BY AppendProperties
<1>4. Len(a2) = la + 1 /\ (\A i \in 1..la : a2[i] = a[i]) /\ a2[la + 1] = t
  BY <1>1, <1>3, AppendProperties
<1>5. lb <= la /\ lb < max /\ \A i \in 1..(la - lb) : a[i] < t - window
  BY <1>1, <1>2 DEF IsTail
<1>6. \A i \in 1..(la - max) : a[i + max] - a[i] > window
  BY <1>1 DEF Spread
<1>7. \A i \in 1..la : a[i] \in Nat
  BY <1>1, ElementOfSeq
<1>8. ASSUME NEW i \in 1..(la + 1 - max)
      PROVE  a2[i + max] - a2[i] > window
  <2>1. CASE i \in 1..(la - max)
    <3>1. i \in 1..la /\ i + max \in 1..la
      BY <2>1
    <3> QED
      BY <1>4, <1>6, <2>1, <3>1
  <2>2. CASE i = la + 1 - max
    <3>1. i \in 1..la /\ i \in 1..(la - lb) /\ i + max = la + 1
      BY <1>5, <2>2
    <3>2. a2[i + max] = t /\ a2[i] = a[i]
      BY <1>4, <3>1
    <3>3. a[i] < t - window /\ a[i] \in Nat
      BY <1>5, <1>7, <3>1
    <3> QED
      BY <3>2, <3>3
  <2> QED
    BY <2>1, <2>2
<1>9. Spread(a2, max, window)
  BY <1>4, <1>8 DEF Spread
<1> QED
  BY <1>3, <1>9

(* Max admissions in a row, the first not before start, the last not after   *)
(* end: what a refusal is owed.                                              *)
Busy(a, max, start, end) ==
  \E i \in 1..(Len(a) - max + 1) : a[i] >= start /\ a[i + max - 1] <= end

LEMMA BusyAppend ==
  ASSUME NEW a \in Seq(Nat), NEW t \in Nat, NEW max \in Nat \ {0}, NEW start, NEW end,
         Busy(a, max, start, end)
  PROVE  Busy(Append(a, t), max, start, end)
<1>1. PICK la \in Nat : la = Len(a)
  BY LenProperties
<1>2. PICK a2 \in Seq(Nat) : a2 = Append(a, t)
  BY AppendProperties
<1>3. Len(a2) = la + 1 /\ \A i \in 1..la : a2[i] = a[i]
  BY <1>1, <1>2, AppendProperties
<1>4. PICK i \in 1..(la - max + 1) : a[i] >= start /\ a[i + max - 1] <= end
  BY <1>1 DEF Busy
<1>5. i \in 1..la /\ i + max - 1 \in 1..la /\ i \in 1..(la + 1 - max + 1)
  OBVIOUS
<1> QED
  BY <1>2, <1>3, <1>4, <1>5 DEF Busy

LEMMA BusyTail ==
  ASSUME NEW a \in Seq(Nat), NEW b \in Seq(Nat), NEW max \in Nat \ {0},
         NEW start \in Int, NEW end \in Nat, IsTail(b, a, start), Len(b) >= max,
         b[1] >= start, \A i \in 1..Len(a) : a[i] <= end
  PROVE  Busy(a, max, start, end)
<1>1. PICK la \in Nat : la = Len(a)
  BY LenProperties
<1>2. PICK lb \in Nat : lb = Len(b)
  BY LenProperties
<1>3. lb <= la /\ lb >= max /\ \A i \in 1..lb : b[i] = a[la - lb + i]
  BY <1>1, <1>2 DEF IsTail
<1>4. PICK i \in Int : i = la - lb + 1
  OBVIOUS
<1>5. i \in 1..(la - max + 1) /\ i + max - 1 \in 1..la /\ 1 \in 1..lb
  BY <1>3, <1>4
<1>6. a[i] = b[1]
  BY <1>3, <1>4, <1>5
<1> QED
  BY <1>1, <1>5, <1>6 DEF Busy

LEMMA RecentIsTail ==
  ASSUME TypeOK, BucketIsTail, NEW k \in Keys, NEW n \in 0..Len(bucket[k]), Pops(k, n),
         NEW r, r = Recent(k, n)
  PROVE  /\ r \in Seq(Nat)
         /\ IsTail(r, admitted[k], now - Window)
         /\ Len(r) > 0 => r[1] >= now - Window
<1>1. PICK b \in Seq(Nat) : b = bucket[k]
  BY DEF TypeOK
<1>2. PICK a \in Seq(Nat) : a = admitted[k]
  BY DEF TypeOK
<1>3. PICK start \in Int : start = now - Window
  BY GatewayAssumption DEF TypeOK
<1>4. /\ n \in 0..Len(b) /\ IsTail(b, a, start) /\ r = SubSeq(b, n + 1, Len(b))
      /\ \A i \in 1..n : b[i] < start
      /\ n < Len(b) => b[n + 1] >= start
  BY <1>1, <1>2, <1>3 DEF BucketIsTail, Recent, Pops
<1>5. StartsOld(b, n, start)
  BY <1>4 DEF StartsOld
<1>6. /\ r \in Seq(Nat) /\ Len(r) = Len(b) - n /\ IsTail(r, a, start)
      /\ n < Len(b) => r[1] = b[n + 1]
  BY <1>1, <1>2, <1>3, <1>4, <1>5, TailOfTail
<1>7. PICK lb \in Nat : lb = Len(b)
  BY <1>1, LenProperties
<1>8. Len(r) > 0 => r[1] >= start
  BY <1>4, <1>6, <1>7
<1> QED
  BY <1>2, <1>3, <1>6, <1>8

-----------------------------------------------------------------------------
LEMMA AdmitKeeps ==
  ASSUME LimiterInv, NEW q \in Requests, NEW k \in Keys, Admit(q, k)
  PROVE  LimiterInv'
<1> USE DEF Admit
<1>1. TypeOK /\ BucketIsTail /\ AdmittedBefore /\ WindowNeverExceeded /\ RefusedWasBusy
  BY DEF LimiterInv
<1>2. PICK n \in 0..Len(bucket[k]) :
        /\ Pops(k, n)
        /\ Len(Recent(k, n)) < MaxRequests
        /\ bucket' = [bucket EXCEPT ![k] = Append(Recent(k, n), now)]
  OBVIOUS
<1>3. PICK r : r = Recent(k, n)
  OBVIOUS
<1>4. PICK a \in Seq(Nat) : a = admitted[k]
  BY <1>1 DEF TypeOK
<1>5. r \in Seq(Nat) /\ IsTail(r, a, now - Window) /\ Len(r) < MaxRequests
  BY <1>1, <1>2, <1>3, <1>4, RecentIsTail
<1>6. now \in Nat /\ Window \in Nat /\ MaxRequests \in Nat \ {0} /\ now - Window \in Int
  BY <1>1, GatewayAssumption DEF TypeOK
<1>7. PICK b2 \in Seq(Nat) : b2 = Append(r, now)
  BY <1>5, <1>6, AppendProperties
<1>8. PICK a2 \in Seq(Nat) : a2 = Append(a, now)
  BY <1>4, <1>6, AppendProperties
<1>9. /\ bucket' = [bucket EXCEPT ![k] = b2]
      /\ admitted' = [admitted EXCEPT ![k] = a2]
      /\ now' = now
  BY <1>2, <1>3, <1>4, <1>7, <1>8
<1>10. \A j \in Keys : /\ bucket'[j] = IF j = k THEN b2 ELSE bucket[j]
                       /\ admitted'[j] = IF j = k THEN a2 ELSE admitted[j]
  BY <1>1, <1>9 DEF TypeOK
<1>11. PICK p \in {[phase |-> "handling", path |-> k[1]], Idle} :
         request' = [request EXCEPT ![q] = p]
  BY DEF Moved
<1>12. p \in Request /\ p.phase # "refused"
  <2>1. k[1] \in Paths
    BY DEF Keys, Paths
  <2>2. [phase |-> "handling", path |-> k[1]] \in [phase : {"handling"}, path : Paths]
    BY <2>1
  <2> QED
    BY <1>11, <2>2 DEF Request, Idle
<1>13. \A o \in Requests : request'[o] = IF o = q THEN p ELSE request[o]
  BY <1>1, <1>11 DEF TypeOK
<1>14. TypeOK'
  BY <1>1, <1>7, <1>8, <1>9, <1>11, <1>12 DEF TypeOK
<1>15. BucketIsTail'
  <2>1. IsTail(b2, a2, now - Window)
    BY <1>5, <1>6, <1>7, <1>8, TailAppend
  <2> QED
    BY <1>1, <1>9, <1>10, <2>1 DEF BucketIsTail
<1>16. AdmittedBefore'
  <2>1. PICK la \in Nat : la = Len(a)
    BY <1>4, LenProperties
  <2>2. Len(a2) = la + 1 /\ (\A i \in 1..la : a2[i] = a[i]) /\ a2[la + 1] = now
    BY <1>4, <1>6, <1>8, <2>1, AppendProperties
  <2>3. \A i \in 1..la : a[i] <= now
    BY <1>1, <1>4, <2>1 DEF AdmittedBefore
  <2>4. ASSUME NEW i \in 1..(la + 1)
        PROVE  a2[i] <= now
    <3>1. CASE i = la + 1
      BY <1>6, <2>2, <3>1
    <3>2. CASE i # la + 1
      <4>1. i \in 1..la
        BY <2>1, <3>2
      <4> QED
        BY <2>2, <2>3, <4>1
    <3> QED
      BY <3>1, <3>2
  <2> QED
    BY <1>1, <1>9, <1>10, <2>2, <2>4 DEF AdmittedBefore
<1>17. WindowNeverExceeded'
  <2>1. Spread(a, MaxRequests, Window)
    BY <1>1, <1>4 DEF WindowNeverExceeded, Spread
  <2>2. Spread(a2, MaxRequests, Window)
    BY <1>5, <1>6, <1>8, <2>1, SpreadAppend
  <2>3. ASSUME NEW j \in Keys
        PROVE  Spread(admitted'[j], MaxRequests, Window)
    <3>1. CASE j = k
      BY <1>10, <2>2, <3>1
    <3>2. CASE j # k
      <4>1. admitted'[j] = admitted[j]
        BY <1>10, <3>2
      <4>2. Spread(admitted[j], MaxRequests, Window)
        BY <1>1 DEF WindowNeverExceeded, Spread
      <4> QED
        BY <4>1, <4>2
    <3> QED
      BY <3>1, <3>2
  <2> QED
    BY <2>3 DEF WindowNeverExceeded, Spread
<1>18. RefusedWasBusy'
  <2> SUFFICES ASSUME NEW o \in Requests, request'[o].phase = "refused"
               PROVE  Busy(admitted'[request'[o].key], MaxRequests,
                           request'[o].at - Window, request'[o].at)
    BY DEF RefusedWasBusy, Busy
  <2>1. request'[o] = request[o]
    BY <1>12, <1>13
  <2>2. PICK j \in Keys : j = request[o].key
    <3>1. request[o] \in Request /\ request[o].phase = "refused"
      BY <1>1, <2>1 DEF TypeOK
    <3> QED
      BY <3>1 DEF Request, Idle
  <2>3. Busy(admitted[j], MaxRequests, request[o].at - Window, request[o].at)
    BY <1>1, <2>1, <2>2 DEF RefusedWasBusy, Busy
  <2>4. CASE j = k
    BY <1>4, <1>6, <1>8, <1>10, <2>1, <2>2, <2>3, <2>4, BusyAppend
  <2>5. CASE j # k
    BY <1>10, <2>1, <2>2, <2>3, <2>5
  <2> QED
    BY <2>4, <2>5
<1> QED
  BY <1>14, <1>15, <1>16, <1>17, <1>18 DEF LimiterInv

LEMMA RefuseKeeps ==
  ASSUME LimiterInv, NEW q \in Requests, NEW k \in Keys, Refuse(q, k)
  PROVE  LimiterInv'
<1> USE DEF Refuse
<1>1. TypeOK /\ BucketIsTail /\ AdmittedBefore /\ WindowNeverExceeded /\ RefusedWasBusy
  BY DEF LimiterInv
<1>2. PICK n \in 0..Len(bucket[k]) :
        /\ Pops(k, n)
        /\ Len(Recent(k, n)) >= MaxRequests
        /\ bucket' = [bucket EXCEPT ![k] = Recent(k, n)]
  OBVIOUS
<1>3. PICK r : r = Recent(k, n)
  OBVIOUS
<1>4. PICK a \in Seq(Nat) : a = admitted[k]
  BY <1>1 DEF TypeOK
<1>5. /\ r \in Seq(Nat) /\ IsTail(r, a, now - Window) /\ Len(r) >= MaxRequests
      /\ Len(r) > 0 => r[1] >= now - Window
  BY <1>1, <1>2, <1>3, <1>4, RecentIsTail
<1>6. now \in Nat /\ Window \in Nat /\ MaxRequests \in Nat \ {0} /\ now - Window \in Int
  BY <1>1, GatewayAssumption DEF TypeOK
<1>7. /\ bucket' = [bucket EXCEPT ![k] = r]
      /\ admitted' = admitted /\ now' = now
      /\ request' = [request EXCEPT ![q] = [phase |-> "refused", key |-> k, at |-> now]]
  BY <1>2, <1>3 DEF Moved
<1>8. \A j \in Keys : bucket'[j] = IF j = k THEN r ELSE bucket[j]
  BY <1>1, <1>7 DEF TypeOK
<1>9. \A o \in Requests : request'[o] =
        IF o = q THEN [phase |-> "refused", key |-> k, at |-> now] ELSE request[o]
  BY <1>1, <1>7 DEF TypeOK
<1>10. TypeOK'
  <2>1. [phase |-> "refused", key |-> k, at |-> now] \in Request
    BY <1>6 DEF Request
  <2> QED
    BY <1>1, <1>5, <1>7, <2>1 DEF TypeOK
<1>11. BucketIsTail'
  BY <1>1, <1>4, <1>5, <1>7, <1>8 DEF BucketIsTail
<1>12. AdmittedBefore' /\ WindowNeverExceeded'
  BY <1>1, <1>7 DEF AdmittedBefore, WindowNeverExceeded
<1>13. Busy(a, MaxRequests, now - Window, now)
  <2>1. r[1] >= now - Window
    BY <1>5, <1>6
  <2>2. \A i \in 1..Len(a) : a[i] <= now
    BY <1>1, <1>4 DEF AdmittedBefore
  <2> QED
    BY <1>4, <1>5, <1>6, <2>1, <2>2, BusyTail
<1>14. RefusedWasBusy'
  <2> SUFFICES ASSUME NEW o \in Requests, request'[o].phase = "refused"
               PROVE  Busy(admitted'[request'[o].key], MaxRequests,
                           request'[o].at - Window, request'[o].at)
    BY DEF RefusedWasBusy, Busy
  <2>1. CASE o = q
    BY <1>4, <1>7, <1>9, <1>13, <2>1
  <2>2. CASE o # q
    BY <1>1, <1>7, <1>9, <2>2 DEF RefusedWasBusy, Busy
  <2> QED
    BY <2>1, <2>2
<1> QED
  BY <1>10, <1>11, <1>12, <1>14 DEF LimiterInv

LEMMA TickKeeps == LimiterInv /\ Tick => LimiterInv'
<1> SUFFICES ASSUME LimiterInv, Tick PROVE LimiterInv'
  OBVIOUS
<1>1. TypeOK /\ BucketIsTail /\ AdmittedBefore /\ WindowNeverExceeded /\ RefusedWasBusy
  BY DEF LimiterInv
<1>2. /\ now' = now + 1 /\ now \in Nat /\ Window \in Nat
      /\ bucket' = bucket /\ admitted' = admitted /\ request' = request
  BY <1>1, GatewayAssumption DEF Tick, TypeOK
<1>3. TypeOK'
  BY <1>1 DEF TypeOK, Tick
<1>4. BucketIsTail'
  <2>1. \A k \in Keys : admitted[k] \in Seq(Nat) /\ bucket[k] \in Seq(Nat)
    BY <1>1 DEF TypeOK
  <2>2. ASSUME NEW k \in Keys
        PROVE  IsTail(bucket[k], admitted[k], (now + 1) - Window)
    <3>1. PICK la \in Nat : la = Len(admitted[k])
      BY <2>1
    <3>2. PICK lb \in Nat : lb = Len(bucket[k])
      BY <2>1
    <3>3. /\ lb <= la
          /\ \A i \in 1..lb : bucket[k][i] = admitted[k][la - lb + i]
          /\ \A i \in 1..(la - lb) : admitted[k][i] < now - Window
      BY <1>1, <3>1, <3>2 DEF BucketIsTail, IsTail
    <3>4. \A i \in 1..la : admitted[k][i] \in Nat
      BY <2>1, <3>1
    <3>5. ASSUME NEW i \in 1..(la - lb)
          PROVE  admitted[k][i] < (now + 1) - Window
      <4>1. i \in 1..la /\ admitted[k][i] < now - Window
        BY <3>3
      <4> QED
        BY <1>2, <3>4, <4>1
    <3> QED
      BY <3>1, <3>2, <3>3, <3>5 DEF IsTail
  <2> QED
    BY <1>2, <2>2 DEF BucketIsTail
<1>5. AdmittedBefore'
  <2>1. \A k \in Keys : \A i \in 1..Len(admitted[k]) : admitted[k][i] \in Nat
    BY <1>1 DEF TypeOK
  <2> QED
    BY <1>1, <1>2, <2>1 DEF AdmittedBefore
<1>6. WindowNeverExceeded' /\ RefusedWasBusy'
  BY <1>1, <1>2 DEF WindowNeverExceeded, RefusedWasBusy
<1> QED
  BY <1>3, <1>4, <1>5, <1>6 DEF LimiterInv

-----------------------------------------------------------------------------
(* The steps that touch neither clock nor limiter, and refuse nobody.        *)
LEMMA OthersKeep ==
  ASSUME LimiterInv, NEW q \in Requests, NEW r \in Request, r.phase # "refused",
         request' = [request EXCEPT ![q] = r],
         UNCHANGED <<now, bucket, admitted>>, TypeOK'
  PROVE  LimiterInv'
<1>1. \A o \in Requests : request'[o] = IF o = q THEN r ELSE request[o]
  BY DEF LimiterInv, TypeOK
<1>2. RefusedWasBusy'
  BY <1>1 DEF LimiterInv, RefusedWasBusy
<1> QED
  BY <1>2 DEF LimiterInv, BucketIsTail, AdmittedBefore, WindowNeverExceeded

LEMMA MovesKeep ==
  ASSUME LimiterInv, NEW q \in Requests,
         \/ ArriveScrape(q) \/ Drop(q) \/ ReadTotal(q) \/ ReadFailed(q)
         \/ CopyRoutes(q) \/ Answer(q)
  PROVE  LimiterInv'
<1> DEFINE Others == UNCHANGED <<now, bucket, admitted, total, failed, routes, recording>>
<1>1. TypeOK
  BY DEF LimiterInv
<1>2. total \in Nat /\ failed \in Nat /\ routes \in PerRoute /\ request[q] \in Request
  BY <1>1 DEF TypeOK
<1>3. ASSUME NEW r \in Request, r.phase # "refused", Moved(q, r), Others
      PROVE  LimiterInv'
  <2>1. TypeOK'
    BY <1>1, <1>3 DEF TypeOK, Moved
  <2> QED
    BY <1>3, <2>1, OthersKeep DEF Moved
<1>4. CASE ArriveScrape(q)
  <2>1. [phase |-> "handling", path |-> Scrape] \in Request
    BY DEF Request, Paths
  <2> QED
    BY <1>3, <1>4, <2>1 DEF ArriveScrape
<1>5. CASE Drop(q)
  <2>1. Idle \in Request /\ Idle.phase # "refused"
    BY DEF Request, Idle
  <2> QED
    BY <1>3, <1>5, <2>1 DEF Drop
<1>6. CASE ReadTotal(q)
  <2>1. [phase |-> "total-read", total |-> total] \in Request
    BY <1>2 DEF Request
  <2> QED
    BY <1>3, <1>6, <2>1 DEF ReadTotal
<1>7. CASE ReadFailed(q)
  <2>1. request[q].total \in Nat
    <3>1. request[q].phase = "total-read"
      BY <1>7 DEF ReadFailed
    <3> QED
      BY <1>2, <3>1 DEF Request, Idle
  <2>2. [phase |-> "failed-read", total |-> request[q].total, failed |-> failed] \in Request
    BY <1>2, <2>1 DEF Request
  <2> QED
    BY <1>3, <1>7, <2>2 DEF ReadFailed
<1>8. CASE CopyRoutes(q)
  <2> DEFINE names == {p \in Paths : routes[p].requests > 0}
  <2>1. request[q].total \in Nat /\ request[q].failed \in Nat
    <3>1. request[q].phase = "failed-read"
      BY <1>8 DEF CopyRoutes
    <3> QED
      BY <1>2, <3>1 DEF Request, Idle
  <2>2. names \in SUBSET Paths
    OBVIOUS
  <2> HIDE DEF names
  <2>3. [phase |-> "copied", total |-> request[q].total, failed |-> request[q].failed,
         names |-> names] \in Request
    BY <2>1, <2>2 DEF Request
  <2> QED
    BY <1>3, <1>8, <2>3 DEF CopyRoutes, names
<1>9. CASE Answer(q)
  <2> DEFINE shown == [p \in Paths |->
                         IF p \in request[q].names THEN routes[p] ELSE NoCounts]
  <2>1. request[q].total \in Nat /\ request[q].failed \in Nat
    <3>1. request[q].phase = "copied"
      BY <1>9 DEF Answer
    <3> QED
      BY <1>2, <3>1 DEF Request, Idle
  <2>2. shown \in PerRoute
    BY <1>2 DEF PerRoute, Counts, NoCounts
  <2> HIDE DEF shown
  <2>3. [phase |-> "answered", total |-> request[q].total, failed |-> request[q].failed,
         routes |-> shown] \in Request
    BY <2>1, <2>2 DEF Request
  <2> QED
    BY <1>3, <1>9, <2>3 DEF Answer, shown
<1> QED
  BY <1>4, <1>5, <1>6, <1>7, <1>8, <1>9

LEMMA RespondKeeps ==
  ASSUME LimiterInv, NEW q \in Requests, NEW isFailed \in BOOLEAN, Respond(q, isFailed)
  PROVE  LimiterInv'
<1> USE DEF Respond
<1>1. TypeOK
  BY DEF LimiterInv
<1>2. Idle \in Request /\ Idle.phase # "refused"
  BY DEF Request, Idle
<1> DEFINE path == IF request[q].phase = "answered" THEN Scrape ELSE request[q].path
<1>3. path \in Paths
  BY DEF Paths
<1>4. recording' \in Recording
  BY <1>3 DEF Recording
<1>5. TypeOK'
  BY <1>1, <1>2, <1>4 DEF TypeOK, Moved
<1> QED
  BY <1>2, <1>5, OthersKeep DEF Moved

LEMMA CountersKeep == LimiterInv /\ (CountFailed \/ CountRoute) => LimiterInv'
<1> SUFFICES ASSUME LimiterInv, CountFailed \/ CountRoute PROVE LimiterInv'
  OBVIOUS
<1>1. TypeOK
  BY DEF LimiterInv
<1>2. UNCHANGED <<now, bucket, admitted, request>>
  BY DEF CountFailed, CountRoute
<1>3. TypeOK'
  <2>1. CASE CountFailed
    <3>1. recording \in Recording
      BY <1>1, <2>1 DEF TypeOK, CountFailed, Nothing
    <3>2. recording' \in Recording
      BY <2>1, <3>1 DEF CountFailed, Recording
    <3>3. failed' \in Nat
      BY <1>1, <2>1 DEF TypeOK, CountFailed
    <3> QED
      BY <1>1, <2>1, <3>2, <3>3 DEF TypeOK, CountFailed
  <2>2. CASE CountRoute
    <3>1. recording \in Recording
      BY <1>1, <2>2 DEF TypeOK, CountRoute, Nothing
    <3>2. recording.path \in Paths
      BY <3>1 DEF Recording
    <3>3. routes' \in PerRoute
      BY <1>1, <2>2, <3>2 DEF TypeOK, CountRoute, Counted, PerRoute, Counts
    <3> QED
      BY <1>1, <2>2, <3>3 DEF TypeOK, CountRoute
  <2> QED
    BY <2>1, <2>2
<1> QED
  BY <1>2, <1>3 DEF LimiterInv, BucketIsTail, AdmittedBefore, WindowNeverExceeded,
                    RefusedWasBusy

-----------------------------------------------------------------------------
LEMMA NextKeeps == LimiterInv /\ [Next]_vars => LimiterInv'
<1> SUFFICES ASSUME LimiterInv, [Next]_vars PROVE LimiterInv'
  OBVIOUS
<1>1. CASE Tick
  BY <1>1, TickKeeps
<1>2. ASSUME NEW q \in Requests, NEW k \in Keys, Admit(q, k) PROVE LimiterInv'
  BY <1>2, AdmitKeeps
<1>3. ASSUME NEW q \in Requests, NEW k \in Keys, Refuse(q, k) PROVE LimiterInv'
  BY <1>3, RefuseKeeps
<1>4. ASSUME NEW q \in Requests,
             \/ ArriveScrape(q) \/ Drop(q) \/ ReadTotal(q) \/ ReadFailed(q)
             \/ CopyRoutes(q) \/ Answer(q)
      PROVE  LimiterInv'
  BY <1>4, MovesKeep
<1>5. ASSUME NEW q \in Requests, NEW isFailed \in BOOLEAN, Respond(q, isFailed)
      PROVE  LimiterInv'
  BY <1>5, RespondKeeps
<1>6. CASE CountFailed \/ CountRoute
  BY <1>6, CountersKeep
<1>7. CASE UNCHANGED vars
  BY <1>7 DEF vars, LimiterInv, TypeOK, BucketIsTail, AdmittedBefore, WindowNeverExceeded,
              RefusedWasBusy
<1> QED
  BY <1>1, <1>2, <1>3, <1>4, <1>5, <1>6, <1>7 DEF Next

(* The inductive invariant, from which the theorems below follow.            *)
THEOREM LimiterInvariance == Spec => []LimiterInv
BY InitInv, NextKeeps, PTL DEF Spec

(* The limiter's deques, the counters and what a request holds stay of their *)
(* types (rate_limit.py 14-28, metrics.py 17-58).                            *)
THEOREM GatewayTypeCorrect == Spec => []TypeOK
<1>1. LimiterInv => TypeOK
  BY DEF LimiterInv
<1> QED
  BY <1>1, LimiterInvariance, PTL

(* No MaxRequests + 1 admissions of one client to one route are within one   *)
(* window (rate_limit.py 19-28).                                             *)
THEOREM WindowSound == Spec => []WindowNeverExceeded
<1>1. LimiterInv => WindowNeverExceeded
  BY DEF LimiterInv
<1> QED
  BY <1>1, LimiterInvariance, PTL

(* Who is refused had MaxRequests admissions within the window that ends     *)
(* then (rate_limit.py 25-26).                                               *)
THEOREM RefusalSound == Spec => []RefusedWasBusy
<1>1. LimiterInv => RefusedWasBusy
  BY DEF LimiterInv
<1> QED
  BY <1>1, LimiterInvariance, PTL

-----------------------------------------------------------------------------
(* Refinement.  What is left of a bucket after the pops is what the log has  *)
(* in the window, because the log is in order.                               *)
InOrder(a) == \A i, j \in 1..Len(a) : i <= j => a[i] <= a[j]

AdmittedInOrder == \A k \in Keys : InOrder(admitted[k])

LEMMA InOrderAppend ==
  ASSUME NEW a \in Seq(Nat), NEW t \in Nat, InOrder(a), \A i \in 1..Len(a) : a[i] <= t
  PROVE  InOrder(Append(a, t))
<1>1. PICK la \in Nat : la = Len(a)
  BY LenProperties
<1>2. PICK a2 \in Seq(Nat) : a2 = Append(a, t)
  BY AppendProperties
<1>3. Len(a2) = la + 1 /\ (\A i \in 1..la : a2[i] = a[i]) /\ a2[la + 1] = t
  BY <1>1, <1>2, AppendProperties
<1>4. ASSUME NEW i \in 1..(la + 1), NEW j \in 1..(la + 1), i <= j
      PROVE  a2[i] <= a2[j]
  <2>1. CASE j \in 1..la
    <3>1. i \in 1..la
      BY <1>4, <2>1
    <3> QED
      BY <1>1, <1>3, <1>4, <2>1, <3>1 DEF InOrder
  <2>2. CASE j = la + 1 /\ i \in 1..la
    BY <1>1, <1>3, <2>2
  <2>3. CASE j = la + 1 /\ i = la + 1
    BY <1>3, <2>3
  <2> QED
    BY <1>4, <2>1, <2>2, <2>3
<1> QED
  BY <1>2, <1>3, <1>4 DEF InOrder

LEMMA AdmittedOrdered ==
  ASSUME LimiterInv, AdmittedInOrder, [Next]_vars
  PROVE  AdmittedInOrder'
<1>1. ASSUME NEW q \in Requests, NEW k \in Keys, Admit(q, k)
      PROVE  AdmittedInOrder'
  <2>1. PICK a \in Seq(Nat) : a = admitted[k]
    BY DEF LimiterInv, TypeOK
  <2>2. PICK a2 : a2 = Append(a, now)
    OBVIOUS
  <2>3. \A j \in Keys : admitted'[j] = IF j = k THEN a2 ELSE admitted[j]
    BY <1>1, <2>1, <2>2 DEF LimiterInv, TypeOK, Admit
  <2>4. now \in Nat /\ InOrder(a) /\ \A i \in 1..Len(a) : a[i] <= now
    BY <2>1 DEF LimiterInv, TypeOK, AdmittedInOrder, AdmittedBefore
  <2>5. InOrder(a2)
    BY <2>1, <2>2, <2>4, InOrderAppend
  <2> QED
    BY <2>3, <2>5 DEF AdmittedInOrder
<1>2. CASE UNCHANGED admitted
  BY <1>2 DEF AdmittedInOrder
<1>3. (\E q \in Requests, k \in Keys : Admit(q, k)) \/ UNCHANGED admitted
  BY DEF Next, vars, Tick, Refuse, ArriveScrape, Drop, Respond, ReadTotal, ReadFailed,
         CopyRoutes, Answer, CountFailed, CountRoute
<1> QED
  BY <1>1, <1>2, <1>3

LEMMA WindowCount ==
  ASSUME NEW a \in Seq(Nat), NEW r \in Seq(Nat), NEW start \in Int, InOrder(a),
         IsTail(r, a, start), Len(r) > 0 => r[1] >= start
  PROVE  Cardinality({i \in 1..Len(a) : a[i] >= start}) = Len(r)
<1>1. PICK la \in Nat : la = Len(a)
  BY LenProperties
<1>2. PICK lr \in Nat : lr = Len(r)
  BY LenProperties
<1>3. /\ lr <= la
      /\ \A i \in 1..lr : r[i] = a[la - lr + i]
      /\ \A i \in 1..(la - lr) : a[i] < start
  BY <1>1, <1>2 DEF IsTail
<1>4. \A i \in 1..la : a[i] \in Nat
  BY <1>1, ElementOfSeq
<1>5. PICK first \in Int : first = la - lr + 1
  OBVIOUS
<1>6. ASSUME NEW i \in 1..la
      PROVE  a[i] >= start <=> i \in first..la
  <2>1. CASE i < first
    <3>1. i \in 1..(la - lr)
      BY <1>3, <1>5, <2>1
    <3> QED
      BY <1>3, <1>4, <2>1, <3>1
  <2>2. CASE i >= first
    <3>1. 1 \in 1..lr /\ lr > 0 /\ first \in 1..la /\ first = la - lr + 1
      BY <1>3, <1>5, <2>2
    <3>2. a[first] = r[1] /\ r[1] >= start
      BY <1>2, <1>3, <3>1
    <3>3. a[first] <= a[i]
      BY <1>1, <2>2, <3>1 DEF InOrder
    <3>4. a[first] \in Nat /\ a[i] \in Nat
      BY <1>4, <3>1
    <3> QED
      BY <2>2, <3>2, <3>3, <3>4
  <2> QED
    BY <1>5, <2>1, <2>2
<1>7. {i \in 1..Len(a) : a[i] >= start} = first..la
  <2>1. first..la \subseteq 1..la
    BY <1>3, <1>5
  <2> QED
    BY <1>1, <1>6, <2>1
<1>8. Cardinality(first..la) = lr
  BY <1>3, <1>5, FS_Interval
<1> QED
  BY <1>2, <1>7, <1>8

LEMMA SameCardinality == \A S : Promise!Cardinality(S) = Cardinality(S)
BY DEF Cardinality, Promise!Cardinality

LEMMA RecentIsWindow ==
  ASSUME LimiterInv, AdmittedInOrder, NEW k \in Keys, NEW n \in 0..Len(bucket[k]), Pops(k, n)
  PROVE  Promise!Cardinality(Promise!InWindow(k)) = Len(Recent(k, n))
<1>1. PICK a \in Seq(Nat) : a = admitted[k]
  BY DEF LimiterInv, TypeOK
<1>2. PICK r : r = Recent(k, n)
  OBVIOUS
<1>3. PICK start \in Int : start = now - Window
  BY GatewayAssumption DEF LimiterInv, TypeOK
<1>4. r \in Seq(Nat) /\ IsTail(r, a, start) /\ (Len(r) > 0 => r[1] >= start)
  BY <1>1, <1>2, <1>3, RecentIsTail DEF LimiterInv
<1>5. Cardinality({i \in 1..Len(a) : a[i] >= start}) = Len(r)
  BY <1>1, <1>4, WindowCount DEF AdmittedInOrder
<1> QED
  BY <1>1, <1>2, <1>3, <1>5, SameCardinality DEF Promise!InWindow

(* A request that was not refused before and is not after leaves the         *)
(* refusals as they are.                                                     *)
LEMMA RefusalsStay ==
  ASSUME TypeOK, NEW q \in Requests, NEW r, request' = [request EXCEPT ![q] = r],
         request[q].phase # "refused", r.phase # "refused"
  PROVE  Refusals' = Refusals
BY DEF TypeOK, Refusals

LEMMA InitPromise == Init => Promise!Init
BY DEF Init, Idle, Refusals, Promise!Init, Promise!Silent

LEMMA StepPromise ==
  ASSUME LimiterInv, AdmittedInOrder, [Next]_vars
  PROVE  [Promise!Next]_Promise!vars
<1>1. TypeOK
  BY DEF LimiterInv
<1>2. CASE Tick
  <2>1. now \in Nat /\ now' = now + 1 /\ UNCHANGED <<admitted, request>>
    BY <1>1, <1>2 DEF TypeOK, Tick
  <2>2. Refusals' = Refusals
    BY <2>1 DEF Refusals
  <2>3. Promise!Tick
    BY <2>1, <2>2 DEF Promise!Tick
  <2> QED
    BY <2>3 DEF Promise!Next
<1>3. ASSUME NEW q \in Requests, NEW k \in Keys, Admit(q, k)
      PROVE  [Promise!Next]_Promise!vars
  <2>1. PICK n \in 0..Len(bucket[k]) : Pops(k, n) /\ Len(Recent(k, n)) < MaxRequests
    BY <1>3 DEF Admit
  <2>2. Promise!Cardinality(Promise!InWindow(k)) < MaxRequests
    BY <2>1, RecentIsWindow
  <2>3. PICK r \in {Idle, [phase |-> "handling", path |-> k[1]]} :
          request' = [request EXCEPT ![q] = r]
    BY <1>3 DEF Admit, Moved
  <2>4. Refusals' = Refusals
    <3>1. request[q].phase # "refused" /\ r.phase # "refused"
      BY <1>3, <2>3 DEF Admit, Idle
    <3> QED
      BY <1>1, <2>3, <3>1, RefusalsStay
  <2>5. admitted' = [admitted EXCEPT ![k] = Append(@, now)] /\ now' = now
    BY <1>3 DEF Admit
  <2>6. Promise!Admit(k)
    BY <2>2, <2>4, <2>5 DEF Promise!Admit
  <2> QED
    BY <2>6 DEF Promise!Next
<1>4. ASSUME NEW q \in Requests, NEW k \in Keys, Refuse(q, k)
      PROVE  [Promise!Next]_Promise!vars
  <2>1. PICK n \in 0..Len(bucket[k]) : Pops(k, n) /\ Len(Recent(k, n)) >= MaxRequests
    BY <1>4 DEF Refuse
  <2>2. Promise!Cardinality(Promise!InWindow(k)) >= MaxRequests
    BY <2>1, RecentIsWindow
  <2>3. Refusals' = [Refusals EXCEPT ![q] = [key |-> k, at |-> now]]
    BY <1>1, <1>4 DEF TypeOK, Refuse, Moved, Refusals
  <2>4. admitted' = admitted /\ now' = now
    BY <1>4 DEF Refuse
  <2>5. Promise!Refuse(q, k)
    BY <2>2, <2>3, <2>4 DEF Promise!Refuse
  <2> QED
    BY <2>5 DEF Promise!Next
<1>5. ASSUME NEW q \in Requests, Drop(q)
      PROVE  [Promise!Next]_Promise!vars
  <2>1. Refusals' = [Refusals EXCEPT ![q] = Promise!Silent]
    BY <1>1, <1>5 DEF TypeOK, Drop, Moved, Refusals, Idle, Promise!Silent
  <2>2. Promise!Told(q)
    BY <1>5, <2>1 DEF Drop, Promise!Told
  <2> QED
    BY <2>2 DEF Promise!Next
<1>6. ASSUME NEW q \in Requests,
             \/ ArriveScrape(q) \/ ReadTotal(q) \/ ReadFailed(q) \/ CopyRoutes(q) \/ Answer(q)
             \/ \E isFailed \in BOOLEAN : Respond(q, isFailed)
      PROVE  UNCHANGED Promise!vars
  <2>1. request[q].phase # "refused" /\ UNCHANGED <<now, admitted>>
    BY <1>6 DEF ArriveScrape, ReadTotal, ReadFailed, CopyRoutes, Answer, Respond, Idle
  <2>2. PICK r : r.phase # "refused" /\ request' = [request EXCEPT ![q] = r]
    BY <1>6 DEF ArriveScrape, ReadTotal, ReadFailed, CopyRoutes, Answer, Respond, Moved, Idle
  <2>3. Refusals' = Refusals
    BY <1>1, <2>1, <2>2, RefusalsStay
  <2> QED
    BY <2>1, <2>3 DEF Promise!vars
<1>7. CASE CountFailed \/ CountRoute \/ UNCHANGED vars
  BY <1>7 DEF CountFailed, CountRoute, vars, Promise!vars, Refusals
<1> QED
  BY <1>2, <1>3, <1>4, <1>5, <1>6, <1>7 DEF Next

(* The deques decide as the full log would (rate_limit.py 19-28).            *)
THEOREM LimiterRefinesLog == Spec => ImplementsSlidingWindow
<1>1. Init => AdmittedInOrder
  BY DEF Init, AdmittedInOrder, InOrder
<1>2. Spec => []AdmittedInOrder
  BY <1>1, AdmittedOrdered, LimiterInvariance, PTL DEF Spec
<1> QED
  BY <1>2, InitPromise, StepPromise, LimiterInvariance, PTL
     DEF Spec, ImplementsSlidingWindow, Promise!Spec

-----------------------------------------------------------------------------
(* Sums over a finite set.  The library folds a set by taking away the       *)
(* element CHOOSE gives; a function with that equation exists, adds up       *)
(* integers to an integer, and can be reasoned about by induction on the     *)
(* size of the subsets.                                                      *)
Pick(s) == CHOOSE x \in s : TRUE

Unfolds(g, f, D) ==
  g = [s \in D |-> IF s = {} THEN 0 ELSE f[Pick(s)] + g[s \ {Pick(s)}]]

(* A set of natural numbers has a least one.                                 *)
LEMMA LeastNatural ==
  ASSUME NEW B \in SUBSET Nat, B # {}
  PROVE  \E n \in B : \A m \in B : n <= m
<1>1. IsWellFoundedOn(OpToRel(<, Nat), Nat)
  BY NatLessThanWellFounded, Zenon
<1>2. \E n \in B : \A m \in B : ~ (<<m, n>> \in OpToRel(<, Nat))
  BY <1>1, WFMin, Zenon
<1>3. PICK n \in B : \A m \in B : ~ (<<m, n>> \in OpToRel(<, Nat))
  BY <1>2, Zenon
<1>4. \A m \in Nat : m < n => <<m, n>> \in OpToRel(<, Nat)
  BY <1>3, Zenon DEF OpToRel
<1>5. \A m \in B : ~ (m < n)
  BY <1>3, <1>4, Zenon
<1> QED
  BY <1>5

(* A subset is no larger than the set, and smaller without its pick.         *)
LEMMA SubsetSizes ==
  ASSUME NEW S, IsFiniteSet(S), NEW T \in SUBSET S
  PROVE  /\ Cardinality(T) \in Nat
         /\ Cardinality(T) <= Cardinality(S)
         /\ T = {} <=> Cardinality(T) = 0
         /\ T # {} => /\ Pick(T) \in T
                      /\ Cardinality(T \ {Pick(T)}) = Cardinality(T) - 1
<1>1. IsFiniteSet(T) /\ Cardinality(T) <= Cardinality(S)
  BY FS_Subset
<1>2. Cardinality(T) \in Nat /\ (Cardinality(T) = 0 <=> T = {})
  BY <1>1, FS_CardinalityType, FS_EmptySet
<1>3. T # {} => Pick(T) \in T
  BY DEF Pick
<1>4. T # {} => Cardinality(T \ {Pick(T)}) = Cardinality(T) - 1
  BY <1>1, <1>3, FS_RemoveElement
<1> QED
  BY <1>1, <1>2, <1>3, <1>4

(* What holds of {} and of T whenever it holds of T without its pick holds   *)
(* of every subset.                                                          *)
LEMMA SubsetInduction ==
  ASSUME NEW S, IsFiniteSet(S), NEW G, {} \in G,
         \A T \in SUBSET S : T # {} /\ T \ {Pick(T)} \in G => T \in G
  PROVE  SUBSET S \subseteq G
<1> DEFINE Missing == {T \in SUBSET S : T \notin G}
           B == {Cardinality(T) : T \in Missing}
<1> SUFFICES ASSUME Missing # {} PROVE FALSE
  OBVIOUS
<1>1. B \in SUBSET Nat /\ B # {}
  <2>1. \A T \in SUBSET S : Cardinality(T) \in Nat
    BY SubsetSizes
  <2> QED  BY <2>1
<1>2. PICK n \in B : \A m \in B : n <= m
  <2> HIDE DEF B
  <2> QED  BY <1>1, LeastNatural
<1>3. PICK T \in Missing : n = Cardinality(T)
  OBVIOUS
<1>4. T \in SUBSET S /\ T \notin G /\ T # {}
  OBVIOUS
<1>5. T \ {Pick(T)} \in Missing
  BY <1>4
<1>6. n <= Cardinality(T \ {Pick(T)})
  BY <1>2, <1>5
<1>7. Cardinality(T \ {Pick(T)}) = n - 1 /\ n \in Nat
  BY <1>3, <1>4, SubsetSizes
<1> QED
  BY <1>6, <1>7

(* The equation of the fold has a solution on all subsets: one for those of  *)
(* size n - 1 extends to those of size n.                                    *)
LEMMA FoldExists ==
  ASSUME NEW S, IsFiniteSet(S), NEW f \in [S -> Int]
  PROVE  \E g \in [SUBSET S -> Int] : Unfolds(g, f, SUBSET S)
<1> DEFINE Small(n) == {s \in SUBSET S : Cardinality(s) <= n}
           Has(n) == \E g \in [Small(n) -> Int] : Unfolds(g, f, Small(n))
           B == {n \in Nat : ~Has(n)}
<1>0. \A s \in SUBSET S : /\ Cardinality(s) \in Nat
                          /\ Cardinality(s) <= Cardinality(S)
                          /\ s = {} <=> Cardinality(s) = 0
                          /\ s # {} => /\ Pick(s) \in s
                                       /\ Cardinality(s \ {Pick(s)}) = Cardinality(s) - 1
  BY SubsetSizes
<1>1. Has(0)
  <2> DEFINE z == [s \in Small(0) |-> 0]
  <2>1. \A s \in Small(0) : s = {}
    <3> SUFFICES ASSUME NEW s \in SUBSET S, Cardinality(s) <= 0 PROVE s = {}
      OBVIOUS
    <3>1. Cardinality(s) \in Nat
      BY <1>0
    <3>2. Cardinality(s) = 0
      BY <3>1
    <3> QED
      BY <1>0, <3>2
  <2>2. z \in [Small(0) -> Int]
    OBVIOUS
  <2>3. Unfolds(z, f, Small(0))
    BY <2>1 DEF Unfolds
  <2> QED
    BY <2>2, <2>3
<1>2. ASSUME NEW n \in Nat, n # 0, Has(n - 1)
      PROVE  Has(n)
  <2>1. PICK g \in [Small(n - 1) -> Int] : Unfolds(g, f, Small(n - 1))
    BY <1>2
  <2> DEFINE h == [s \in Small(n) |-> IF s = {} THEN 0 ELSE f[Pick(s)] + g[s \ {Pick(s)}]]
  <2>2. \A s \in Small(n - 1) : s \in Small(n)
    <3> SUFFICES ASSUME NEW s \in SUBSET S, Cardinality(s) <= n - 1
                 PROVE  Cardinality(s) <= n
      OBVIOUS
    <3>1. Cardinality(s) \in Nat
      BY <1>0
    <3> QED
      BY <3>1
  <2>3. ASSUME NEW s \in Small(n), s # {}
        PROVE  s \ {Pick(s)} \in Small(n - 1) /\ Pick(s) \in S
    <3>1. /\ s \in SUBSET S /\ Cardinality(s) <= n /\ Cardinality(s) \in Nat
          /\ Pick(s) \in s /\ Cardinality(s \ {Pick(s)}) = Cardinality(s) - 1
      BY <1>0, <2>3
    <3>2. Cardinality(s \ {Pick(s)}) <= n - 1
      BY <3>1
    <3> QED
      BY <3>1, <3>2
  <2> HIDE DEF Small
  <2>4. \A s \in Small(n - 1) : h[s] = g[s]
    BY <2>1, <2>2 DEF Unfolds
  <2>5. h \in [Small(n) -> Int]
    BY <2>3
  <2>6. h = [s \in Small(n) |-> IF s = {} THEN 0 ELSE f[Pick(s)] + h[s \ {Pick(s)}]]
    BY <2>3, <2>4
  <2> HIDE DEF h
  <2> QED
    BY <2>5, <2>6 DEF Unfolds
<1>3. \A n \in Nat : Has(n)
  <2> HIDE DEF Has
  <2> SUFFICES ASSUME B # {} PROVE FALSE
    OBVIOUS
  <2>1. PICK n \in B : \A m \in B : n <= m
    <3>1. B \in SUBSET Nat
      OBVIOUS
    <3> HIDE DEF B
    <3> QED  BY <3>1, LeastNatural
  <2>2. n # 0
    BY <1>1
  <2>3. n - 1 \in Nat /\ n - 1 \notin B
    BY <2>1, <2>2
  <2> QED
    BY <1>2, <2>2, <2>3
<1>4. Cardinality(S) \in Nat /\ Small(Cardinality(S)) = SUBSET S
  BY <1>0
<1>5. Has(Cardinality(S))
  BY <1>3, <1>4
<1> QED
  BY <1>4, <1>5

(* The sum of a function is the value of such a solution at its domain.      *)
LEMMA SumUnfolds ==
  ASSUME NEW S, IsFiniteSet(S), NEW f \in [S -> Int]
  PROVE  \E g \in [SUBSET S -> Int] : Unfolds(g, f, SUBSET S) /\ SumFunction(f) = g[S]
<1> DEFINE g == CHOOSE h : Unfolds(h, f, SUBSET S)
<1>1. Unfolds(g, f, SUBSET S)
  BY FoldExists
<1>2. SumFunction(f) = g[S]
  BY DEF SumFunction, SumFunctionOnSet, FoldFunctionOnSet, MapThenFoldSet, Unfolds, Pick
<1>3. g \in [SUBSET S -> Int]
  <2> DEFINE G == {T \in SUBSET S : g[T] \in Int}
  <2> HIDE DEF g
  <2>1. {} \in G
    BY <1>1 DEF Unfolds
  <2>2. \A T \in SUBSET S : T # {} /\ T \ {Pick(T)} \in G => T \in G
    BY <1>1 DEF Unfolds, Pick
  <2>3. SUBSET S \subseteq G
    <3> HIDE DEF G
    <3> QED  BY <2>1, <2>2, SubsetInduction
  <2> QED
    BY <1>1, <2>3 DEF Unfolds
<1> QED
  BY <1>1, <1>2, <1>3

LEMMA SumType ==
  ASSUME NEW S, IsFiniteSet(S), NEW f \in [S -> Int]
  PROVE  SumFunction(f) \in Int
<1>1. PICK g \in [SUBSET S -> Int] : SumFunction(f) = g[S]
  BY SumUnfolds
<1> QED
  BY <1>1

(* d more at one place is d more in the sum.                                 *)
LEMMA SumIncrement ==
  ASSUME NEW S, IsFiniteSet(S), NEW f \in [S -> Int], NEW h \in [S -> Int],
         NEW p \in S, NEW d \in Int,
         h[p] = f[p] + d, \A x \in S : x # p => h[x] = f[x]
  PROVE  SumFunction(h) = SumFunction(f) + d
<1>1. PICK F \in [SUBSET S -> Int] : Unfolds(F, f, SUBSET S) /\ SumFunction(f) = F[S]
  BY SumUnfolds
<1>2. PICK H \in [SUBSET S -> Int] : Unfolds(H, h, SUBSET S) /\ SumFunction(h) = H[S]
  BY SumUnfolds
<1> DEFINE G == {T \in SUBSET S : H[T] = F[T] + (IF p \in T THEN d ELSE 0)}
<1>3. {} \in G
  BY <1>1, <1>2 DEF Unfolds
<1>4. ASSUME NEW T \in SUBSET S, T # {}, T \ {Pick(T)} \in G PROVE T \in G
  <2>1. Pick(T) \in T
    BY <1>4 DEF Pick
  <2>2. F[T] = f[Pick(T)] + F[T \ {Pick(T)}] /\ H[T] = h[Pick(T)] + H[T \ {Pick(T)}]
    BY <1>1, <1>2, <1>4 DEF Unfolds
  <2>3. H[T \ {Pick(T)}] = F[T \ {Pick(T)}] + (IF p \in T \ {Pick(T)} THEN d ELSE 0)
    BY <1>4
  <2>4. F[T \ {Pick(T)}] \in Int /\ f[Pick(T)] \in Int
    BY <2>1
  <2> QED
    BY <2>1, <2>2, <2>3, <2>4
<1>5. S \in G
  <2>1. \A T \in SUBSET S : T # {} /\ T \ {Pick(T)} \in G => T \in G
    BY <1>4
  <2> HIDE DEF G
  <2>2. SUBSET S \subseteq G
    BY <1>3, <2>1, SubsetInduction
  <2> QED  BY <2>2
<1> QED
  BY <1>1, <1>2, <1>5

(* Zeros add up to zero.                                                     *)
LEMMA SumOfZeros ==
  ASSUME NEW S, IsFiniteSet(S), NEW f \in [S -> Int], \A x \in S : f[x] = 0
  PROVE  SumFunction(f) = 0
<1>1. PICK F \in [SUBSET S -> Int] : Unfolds(F, f, SUBSET S) /\ SumFunction(f) = F[S]
  BY SumUnfolds
<1> DEFINE G == {T \in SUBSET S : F[T] = 0}
<1>2. {} \in G
  BY <1>1 DEF Unfolds
<1>3. \A T \in SUBSET S : T # {} /\ T \ {Pick(T)} \in G => T \in G
  <2> SUFFICES ASSUME NEW T \in SUBSET S, T # {}, T \ {Pick(T)} \in G PROVE F[T] = 0
    OBVIOUS
  <2>1. Pick(T) \in T
    BY DEF Pick
  <2>2. F[T] = f[Pick(T)] + F[T \ {Pick(T)}]
    BY <1>1 DEF Unfolds
  <2> QED
    BY <2>1, <2>2
<1>4. S \in G
  <2> HIDE DEF G
  <2>1. SUBSET S \subseteq G
    BY <1>2, <1>3, SubsetInduction
  <2> QED  BY <2>1
<1> QED
  BY <1>1, <1>4

(* A function nowhere smaller has no smaller sum.                            *)
LEMMA SumMonotone ==
  ASSUME NEW S, IsFiniteSet(S), NEW f \in [S -> Int], NEW h \in [S -> Int],
         \A x \in S : f[x] <= h[x]
  PROVE  SumFunction(f) <= SumFunction(h)
<1>1. PICK F \in [SUBSET S -> Int] : Unfolds(F, f, SUBSET S) /\ SumFunction(f) = F[S]
  BY SumUnfolds
<1>2. PICK H \in [SUBSET S -> Int] : Unfolds(H, h, SUBSET S) /\ SumFunction(h) = H[S]
  BY SumUnfolds
<1> DEFINE G == {T \in SUBSET S : F[T] <= H[T]}
<1>3. {} \in G
  BY <1>1, <1>2 DEF Unfolds
<1>4. ASSUME NEW T \in SUBSET S, T # {}, T \ {Pick(T)} \in G PROVE T \in G
  <2>1. Pick(T) \in T
    BY <1>4 DEF Pick
  <2>2. F[T] = f[Pick(T)] + F[T \ {Pick(T)}] /\ H[T] = h[Pick(T)] + H[T \ {Pick(T)}]
    BY <1>1, <1>2, <1>4 DEF Unfolds
  <2>3. /\ F[T \ {Pick(T)}] \in Int /\ f[Pick(T)] \in Int
        /\ H[T \ {Pick(T)}] \in Int /\ h[Pick(T)] \in Int
    BY <2>1
  <2> QED
    BY <1>4, <2>1, <2>2, <2>3
<1>5. S \in G
  <2>1. \A T \in SUBSET S : T # {} /\ T \ {Pick(T)} \in G => T \in G
    BY <1>4
  <2> HIDE DEF G
  <2>2. SUBSET S \subseteq G
    BY <1>3, <2>1, SubsetInduction
  <2> QED  BY <2>2
<1> QED
  BY <1>1, <1>2, <1>5

-----------------------------------------------------------------------------
(* The counters.  Requested and Failures are the sums a table shows.         *)
Requested(table) == SumFunction([p \in Paths |-> table[p].requests])

Failures(table) == SumFunction([p \in Paths |-> table[p].failed])

(* What the rows of the copied names show.                                   *)
Shown(names, table) == [p \in Paths |-> IF p \in names THEN table[p] ELSE NoCounts]

(* The totals are what the table shows and what the request being recorded   *)
(* has added already and not yet to its row.                                 *)
TotalsFit ==
  /\ total = Requested(routes) + (IF recording = Nothing THEN 0 ELSE 1)
  /\ failed = Failures(routes)
                + (IF recording.step = "route" /\ recording.failed THEN 1 ELSE 0)

RowsFit == \A p \in Paths : routes[p].failed <= routes[p].requests

(* What a snapshot has read so far: totals that are not ahead of the         *)
(* counters, and from the copy on at most one ahead of the copied rows.      *)
ReadFits(r, all, lost, table) ==
  /\ r.phase = "total-read" => r.total <= all
  /\ r.phase = "failed-read" => r.total <= all /\ r.failed <= lost
  /\ r.phase = "copied" =>
       /\ r.total <= 1 + Requested(Shown(r.names, table))
       /\ r.failed <= 1 + Failures(Shown(r.names, table))
  /\ r.phase = "answered" =>
       /\ r.total <= 1 + Requested(r.routes)
       /\ r.failed <= 1 + Failures(r.routes)
       /\ \A p \in Paths : r.routes[p].failed <= r.routes[p].requests

ReadsFit == \A q \in Requests : ReadFits(request[q], total, failed, routes)

MeterInv == TotalsFit /\ RowsFit /\ ReadsFit

(* The sums a table shows are whole numbers, and no smaller when no row is.  *)
LEMMA PathsFinite == IsFiniteSet(Paths)
BY GatewayAssumption, FS_AddElement DEF Paths

LEMMA TableSums ==
  ASSUME NEW table \in PerRoute
  PROVE  Requested(table) \in Int /\ Failures(table) \in Int
<1>1. /\ [p \in Paths |-> table[p].requests] \in [Paths -> Int]
      /\ [p \in Paths |-> table[p].failed] \in [Paths -> Int]
  BY DEF PerRoute, Counts
<1> QED
  BY <1>1, PathsFinite, SumType DEF Requested, Failures

LEMMA TableGrows ==
  ASSUME NEW low \in PerRoute, NEW high \in PerRoute,
         \A p \in Paths : low[p].requests <= high[p].requests /\ low[p].failed <= high[p].failed
  PROVE  Requested(low) <= Requested(high) /\ Failures(low) <= Failures(high)
<1>1. /\ [p \in Paths |-> low[p].requests] \in [Paths -> Int]
      /\ [p \in Paths |-> low[p].failed] \in [Paths -> Int]
      /\ [p \in Paths |-> high[p].requests] \in [Paths -> Int]
      /\ [p \in Paths |-> high[p].failed] \in [Paths -> Int]
  BY DEF PerRoute, Counts
<1>2. Requested(low) <= Requested(high)
  BY <1>1, PathsFinite, SumMonotone DEF Requested
<1>3. Failures(low) <= Failures(high)
  BY <1>1, PathsFinite, SumMonotone DEF Failures
<1> QED
  BY <1>2, <1>3

(* Counting a request adds one to the sum of the requests, and one to that   *)
(* of the failures if it failed.                                             *)
LEMMA CountedSums ==
  ASSUME routes \in PerRoute, NEW path \in Paths, NEW isFailed \in BOOLEAN
  PROVE  /\ Counted(path, isFailed) \in PerRoute
         /\ Requested(Counted(path, isFailed)) = Requested(routes) + 1
         /\ Failures(Counted(path, isFailed)) = Failures(routes) + (IF isFailed THEN 1 ELSE 0)
         /\ \A p \in Paths :
              /\ Counted(path, isFailed)[p].requests
                   = routes[p].requests + (IF p = path THEN 1 ELSE 0)
              /\ Counted(path, isFailed)[p].failed
                   = routes[p].failed + (IF p = path /\ isFailed THEN 1 ELSE 0)
<1>1. \A p \in Paths : /\ routes[p] \in Counts
                      /\ routes[p].requests \in Nat /\ routes[p].failed \in Nat
  BY DEF PerRoute, Counts
<1>2. PICK table : table = Counted(path, isFailed)
  OBVIOUS
<1>3. \A p \in Paths : p # path => table[p] = routes[p]
  BY <1>2 DEF Counted, PerRoute
<1>4. /\ table[path].requests = routes[path].requests + 1
      /\ table[path].failed = routes[path].failed + (IF isFailed THEN 1 ELSE 0)
  BY <1>1, <1>2 DEF Counted, PerRoute, Counts
<1>5. table \in PerRoute
  <2>1. Counted(path, isFailed) \in PerRoute
    <3>1. PICK n \in Nat : n = routes[path].requests + 1
      BY <1>1
    <3>2. PICK m \in Nat : m = IF isFailed THEN routes[path].failed + 1 ELSE routes[path].failed
      BY <1>1
    <3>3. Counted(path, isFailed) = [routes EXCEPT ![path].requests = n, ![path].failed = m]
      BY <3>1, <3>2 DEF Counted
    <3> QED
      BY <3>3 DEF PerRoute, Counts
  <2> QED
    BY <1>2, <2>1
<1>6. \A p \in Paths :
        /\ table[p].requests = routes[p].requests + (IF p = path THEN 1 ELSE 0)
        /\ table[p].failed = routes[p].failed + (IF p = path /\ isFailed THEN 1 ELSE 0)
        /\ table[p].requests \in Nat /\ table[p].failed \in Nat
  <2> SUFFICES ASSUME NEW p \in Paths
               PROVE  /\ table[p].requests = routes[p].requests + (IF p = path THEN 1 ELSE 0)
                      /\ table[p].failed
                           = routes[p].failed + (IF p = path /\ isFailed THEN 1 ELSE 0)
                      /\ table[p].requests \in Nat /\ table[p].failed \in Nat
    OBVIOUS
  <2>1. CASE p = path
    BY <1>1, <1>4, <2>1
  <2>2. CASE p # path
    BY <1>1, <1>3, <2>2
  <2> QED
    BY <2>1, <2>2
<1>7. Requested(table) = Requested(routes) + 1
  <2>1. PICK asked : asked = [p \in Paths |-> routes[p].requests]
    OBVIOUS
  <2>2. PICK asked2 : asked2 = [p \in Paths |-> table[p].requests]
    OBVIOUS
  <2>3. /\ asked \in [Paths -> Int] /\ asked2 \in [Paths -> Int]
        /\ asked2[path] = asked[path] + 1
        /\ \A p \in Paths : p # path => asked2[p] = asked[p]
    BY <1>1, <1>6, <2>1, <2>2
  <2>4. SumFunction(asked2) = SumFunction(asked) + 1
    BY <2>3, PathsFinite, SumIncrement
  <2> QED
    BY <2>1, <2>2, <2>4 DEF Requested
<1>8. Failures(table) = Failures(routes) + (IF isFailed THEN 1 ELSE 0)
  <2>1. PICK d \in Int : d = IF isFailed THEN 1 ELSE 0
    OBVIOUS
  <2>2. PICK lost : lost = [p \in Paths |-> routes[p].failed]
    OBVIOUS
  <2>3. PICK lost2 : lost2 = [p \in Paths |-> table[p].failed]
    OBVIOUS
  <2>4. /\ lost \in [Paths -> Int] /\ lost2 \in [Paths -> Int]
        /\ lost2[path] = lost[path] + d
        /\ \A p \in Paths : p # path => lost2[p] = lost[p]
    BY <1>1, <1>6, <2>1, <2>2, <2>3
  <2>5. SumFunction(lost2) = SumFunction(lost) + d
    BY <2>1, <2>4, PathsFinite, SumIncrement
  <2> QED
    BY <2>1, <2>2, <2>3, <2>5 DEF Failures
<1> QED
  BY <1>2, <1>5, <1>6, <1>7, <1>8

-----------------------------------------------------------------------------
LEMMA InitMeter == Init => MeterInv
<1> SUFFICES ASSUME Init PROVE MeterInv
  OBVIOUS
<1>1. routes \in PerRoute /\ RowsFit
  BY DEF Init, PerRoute, Counts, NoCounts, RowsFit
<1>2. TotalsFit
  <2>1. PICK none : none = [p \in Paths |-> 0]
    OBVIOUS
  <2>2. /\ [p \in Paths |-> routes[p].requests] = none
        /\ [p \in Paths |-> routes[p].failed] = none
    BY <2>1 DEF Init, NoCounts
  <2>3. SumFunction(none) = 0
    <3>1. none \in [Paths -> Int] /\ \A p \in Paths : none[p] = 0
      BY <2>1
    <3> QED
      BY <3>1, PathsFinite, SumOfZeros
  <2> QED
    BY <2>2, <2>3 DEF Init, TotalsFit, Requested, Failures, Nothing
<1>3. ReadsFit
  BY DEF Init, Idle, ReadsFit, ReadFits
<1> QED
  BY <1>1, <1>2, <1>3 DEF MeterInv

(* What a snapshot has read fits on while totals and rows only grow.         *)
LEMMA ReadsStay ==
  ASSUME NEW r \in Request,
         NEW all \in Nat, NEW lost \in Nat, NEW table \in PerRoute,
         NEW all2 \in Nat, NEW lost2 \in Nat, NEW table2 \in PerRoute,
         all <= all2, lost <= lost2,
         \A p \in Paths : /\ table[p].requests <= table2[p].requests
                          /\ table[p].failed <= table2[p].failed,
         ReadFits(r, all, lost, table)
  PROVE  ReadFits(r, all2, lost2, table2)
<1>1. CASE r.phase = "total-read"
  <2>1. r.total \in Nat /\ r.total <= all
    BY <1>1 DEF Request, Idle, ReadFits
  <2> QED
    BY <1>1, <2>1 DEF ReadFits
<1>2. CASE r.phase = "failed-read"
  <2>1. r.total \in Nat /\ r.failed \in Nat
    BY <1>2 DEF Request, Idle
  <2>2. r.total <= all /\ r.failed <= lost
    BY <1>2 DEF ReadFits
  <2> QED
    BY <1>2, <2>1, <2>2 DEF ReadFits
<1>3. CASE r.phase = "copied"
  <2>1. r.total \in Nat /\ r.failed \in Nat
    BY <1>3 DEF Request, Idle
  <2>2. PICK before : before = Shown(r.names, table)
    OBVIOUS
  <2>3. PICK after : after = Shown(r.names, table2)
    OBVIOUS
  <2>4. r.total <= 1 + Requested(before) /\ r.failed <= 1 + Failures(before)
    BY <1>3, <2>2 DEF ReadFits
  <2>5. before \in PerRoute /\ after \in PerRoute
    BY <2>2, <2>3 DEF Shown, PerRoute, Counts, NoCounts
  <2>6. \A p \in Paths : /\ before[p].requests <= after[p].requests
                         /\ before[p].failed <= after[p].failed
    BY <2>2, <2>3 DEF Shown, NoCounts
  <2>7. Requested(before) <= Requested(after) /\ Failures(before) <= Failures(after)
    BY <2>5, <2>6, TableGrows
  <2>8. /\ Requested(before) \in Int /\ Failures(before) \in Int
        /\ Requested(after) \in Int /\ Failures(after) \in Int
    BY <2>5, TableSums
  <2>9. r.total <= 1 + Requested(after) /\ r.failed <= 1 + Failures(after)
    BY <2>1, <2>4, <2>7, <2>8
  <2> QED
    BY <1>3, <2>3, <2>9 DEF ReadFits
<1>4. CASE r.phase \notin {"total-read", "failed-read", "copied"}
  BY <1>4 DEF ReadFits
<1> QED
  BY <1>1, <1>2, <1>3, <1>4

(* A step that moves one request and leaves the counters alone.              *)
LEMMA MoveFits ==
  ASSUME TypeOK, MeterInv, NEW q \in Requests, NEW r,
         request' = [request EXCEPT ![q] = r],
         UNCHANGED <<total, failed, routes, recording>>,
         ReadFits(r, total, failed, routes)
  PROVE  MeterInv'
<1>1. \A o \in Requests : request'[o] = IF o = q THEN r ELSE request[o]
  BY DEF TypeOK
<1>2. ReadsFit'
  BY <1>1 DEF MeterInv, ReadsFit
<1> QED
  BY <1>2 DEF MeterInv, TotalsFit, RowsFit

(* The reads of a snapshot.  The copy leaves out only rows that are zero, so *)
(* its sums are those of the table, which the totals are one ahead of.       *)
LEMMA SnapshotFits ==
  ASSUME TypeOK, MeterInv, NEW q \in Requests,
         ReadTotal(q) \/ ReadFailed(q) \/ CopyRoutes(q) \/ Answer(q)
  PROVE  MeterInv'
<1>1. /\ total \in Nat /\ failed \in Nat /\ routes \in PerRoute
      /\ ReadFits(request[q], total, failed, routes)
  BY DEF TypeOK, MeterInv, ReadsFit
<1>2. CASE ReadTotal(q)
  <2>1. ReadFits([phase |-> "total-read", total |-> total], total, failed, routes)
    BY <1>1 DEF ReadFits
  <2> QED
    BY <1>2, <2>1, MoveFits DEF ReadTotal, Moved
<1>3. CASE ReadFailed(q)
  <2>1. request[q].total <= total
    BY <1>1, <1>3 DEF ReadFailed, ReadFits
  <2>2. ReadFits([phase |-> "failed-read", total |-> request[q].total, failed |-> failed],
                 total, failed, routes)
    BY <1>1, <2>1 DEF ReadFits
  <2> QED
    BY <1>3, <2>2, MoveFits DEF ReadFailed, Moved
<1>4. CASE CopyRoutes(q)
  <2>1. request[q].total <= total /\ request[q].failed <= failed
    BY <1>1, <1>4 DEF CopyRoutes, ReadFits
  <2>2. request[q].total \in Nat /\ request[q].failed \in Nat
    <3>1. request[q].phase = "failed-read" /\ request[q] \in Request
      BY <1>4 DEF TypeOK, CopyRoutes
    <3> QED
      BY <3>1 DEF Request, Idle
  <2>3. PICK names : names = {p \in Paths : routes[p].requests > 0}
    OBVIOUS
  <2>4. Shown(names, routes) = routes
    <3>1. ASSUME NEW p \in Paths, p \notin names
          PROVE  routes[p] = NoCounts
      <4>1. /\ routes[p].requests \in Nat /\ routes[p].failed \in Nat
            /\ routes[p] = [requests |-> routes[p].requests, failed |-> routes[p].failed]
        BY <1>1 DEF PerRoute, Counts
      <4>2. routes[p].requests = 0
        BY <2>3, <3>1, <4>1
      <4>3. routes[p].failed = 0
        BY <4>1, <4>2 DEF MeterInv, RowsFit
      <4> QED
        BY <4>1, <4>2, <4>3 DEF NoCounts
    <3> QED
      BY <1>1, <3>1 DEF Shown, PerRoute
  <2>5. total <= 1 + Requested(routes) /\ failed <= 1 + Failures(routes)
    BY <1>1, TableSums DEF MeterInv, TotalsFit
  <2>6. /\ request[q].total <= 1 + Requested(routes)
        /\ request[q].failed <= 1 + Failures(routes)
    BY <1>1, <2>1, <2>2, <2>5, TableSums
  <2>7. PICK r : r = [phase |-> "copied", total |-> request[q].total,
                      failed |-> request[q].failed, names |-> names]
    OBVIOUS
  <2>8. ReadFits(r, total, failed, routes)
    BY <2>4, <2>6, <2>7 DEF ReadFits
  <2> QED
    BY <1>4, <2>3, <2>7, <2>8, MoveFits DEF CopyRoutes, Moved
<1>5. CASE Answer(q)
  <2>1. PICK shown : shown = Shown(request[q].names, routes)
    OBVIOUS
  <2>2. /\ request[q].total <= 1 + Requested(shown)
        /\ request[q].failed <= 1 + Failures(shown)
    BY <1>1, <1>5, <2>1 DEF Answer, ReadFits
  <2>3. \A p \in Paths : shown[p].failed <= shown[p].requests
    BY <2>1 DEF Shown, NoCounts, MeterInv, RowsFit
  <2>4. PICK r : r = [phase |-> "answered", total |-> request[q].total,
                      failed |-> request[q].failed, routes |-> shown]
    OBVIOUS
  <2>5. ReadFits(r, total, failed, routes)
    BY <2>2, <2>3, <2>4 DEF ReadFits
  <2> QED
    BY <1>5, <2>1, <2>4, <2>5, MoveFits DEF Answer, Moved, Shown
<1> QED
  BY <1>2, <1>3, <1>4, <1>5

(* record_request: the totals go ahead, then the row catches up.             *)
LEMMA RespondFits ==
  ASSUME TypeOK, MeterInv, NEW q \in Requests, NEW isFailed \in BOOLEAN, Respond(q, isFailed)
  PROVE  MeterInv'
<1>1. total \in Nat /\ failed \in Nat /\ routes \in PerRoute
  BY DEF TypeOK
<1>2. /\ total' = total + 1 /\ failed' = failed /\ routes' = routes
      /\ recording = Nothing /\ recording'.step = "failed"
  BY DEF Respond, LoopIsFree
<1>3. TotalsFit'
  <2>1. recording' # Nothing
    BY <1>2 DEF Nothing
  <2>2. Requested(routes) \in Int /\ Failures(routes) \in Int
    BY <1>1, TableSums
  <2>3. total = Requested(routes) /\ failed = Failures(routes)
    BY <1>1, <1>2, <2>2 DEF MeterInv, TotalsFit, Nothing
  <2> QED
    BY <1>2, <2>1, <2>2, <2>3 DEF TotalsFit
<1>4. ReadsFit'
  <2>1. \A o \in Requests : request'[o] = IF o = q THEN Idle ELSE request[o]
    BY DEF TypeOK, Respond, Moved
  <2>2. \A o \in Requests : ReadFits(request[o], total + 1, failed, routes)
    <3>1. \A p \in Paths : /\ routes[p].requests <= routes[p].requests
                           /\ routes[p].failed <= routes[p].failed
      BY <1>1 DEF PerRoute, Counts
    <3>2. \A o \in Requests : request[o] \in Request /\ ReadFits(request[o], total, failed, routes)
      BY DEF MeterInv, ReadsFit, TypeOK
    <3>3. total + 1 \in Nat /\ total <= total + 1 /\ failed <= failed
      BY <1>1
    <3> QED
      BY <1>1, <3>1, <3>2, <3>3, ReadsStay
  <2>3. ReadFits(Idle, total + 1, failed, routes)
    BY DEF ReadFits, Idle
  <2> QED
    BY <1>2, <2>1, <2>2, <2>3 DEF ReadsFit
<1> QED
  BY <1>2, <1>3, <1>4 DEF MeterInv, RowsFit

LEMMA CountFailedFits == TypeOK /\ MeterInv /\ CountFailed => MeterInv'
<1> SUFFICES ASSUME TypeOK, MeterInv, CountFailed PROVE MeterInv'
  OBVIOUS
<1>1. /\ total \in Nat /\ failed \in Nat /\ routes \in PerRoute
      /\ Requested(routes) \in Int /\ Failures(routes) \in Int
  BY TableSums DEF TypeOK
<1>2. recording \in Recording /\ recording.step = "failed"
  BY DEF TypeOK, CountFailed, Nothing
<1>3. /\ recording' = [recording EXCEPT !.step = "route"]
      /\ failed' = failed + (IF recording.failed THEN 1 ELSE 0)
      /\ UNCHANGED <<total, routes, request>>
  BY <1>1 DEF CountFailed
<1>4. recording' # Nothing /\ recording'.step = "route" /\ recording'.failed = recording.failed
  BY <1>2, <1>3 DEF Recording, Nothing
<1>5. TotalsFit'
  <2>1. recording # Nothing
    BY <1>2 DEF Nothing
  <2>2. total = Requested(routes) + 1 /\ failed = Failures(routes)
    BY <1>1, <1>2, <2>1 DEF MeterInv, TotalsFit
  <2> QED
    BY <1>3, <1>4, <2>2 DEF TotalsFit
<1>6. ReadsFit'
  <2>1. failed' \in Nat /\ failed <= failed'
    BY <1>1, <1>3
  <2>2. \A p \in Paths : /\ routes[p].requests <= routes[p].requests
                         /\ routes[p].failed <= routes[p].failed
    BY <1>1 DEF PerRoute, Counts
  <2>3. \A o \in Requests : request[o] \in Request /\ ReadFits(request[o], total, failed, routes)
    BY DEF MeterInv, ReadsFit, TypeOK
  <2>4. \A o \in Requests : ReadFits(request[o], total, failed', routes)
    <3>1. total <= total
      BY <1>1
    <3> QED
      BY <1>1, <2>1, <2>2, <2>3, <3>1, ReadsStay
  <2> QED
    BY <1>3, <2>4 DEF ReadsFit
<1> QED
  BY <1>3, <1>5, <1>6 DEF MeterInv, RowsFit

LEMMA CountRouteFits == TypeOK /\ MeterInv /\ CountRoute => MeterInv'
<1> SUFFICES ASSUME TypeOK, MeterInv, CountRoute PROVE MeterInv'
  OBVIOUS
<1>1. /\ total \in Nat /\ failed \in Nat /\ routes \in PerRoute
      /\ Requested(routes) \in Int /\ Failures(routes) \in Int
  BY TableSums DEF TypeOK
<1>2. /\ recording.step = "route" /\ recording # Nothing
      /\ recording.path \in Paths /\ recording.failed \in BOOLEAN
  BY DEF TypeOK, CountRoute, Recording, Nothing
<1>3. PICK table : table = Counted(recording.path, recording.failed)
  OBVIOUS
<1>4. /\ table \in PerRoute
      /\ Requested(table) = Requested(routes) + 1
      /\ Failures(table) = Failures(routes) + (IF recording.failed THEN 1 ELSE 0)
      /\ \A p \in Paths :
           /\ table[p].requests = routes[p].requests + (IF p = recording.path THEN 1 ELSE 0)
           /\ table[p].failed
                = routes[p].failed + (IF p = recording.path /\ recording.failed THEN 1 ELSE 0)
  BY <1>1, <1>2, <1>3, CountedSums
<1>5. routes' = table /\ recording' = Nothing /\ UNCHANGED <<total, failed, request>>
  BY <1>3 DEF CountRoute
<1>6. TotalsFit'
  BY <1>1, <1>2, <1>4, <1>5 DEF MeterInv, TotalsFit, Nothing
<1>7. \A p \in Paths : /\ routes[p].requests \in Nat /\ routes[p].failed \in Nat
                       /\ routes[p].failed <= routes[p].requests
  BY <1>1 DEF PerRoute, Counts, MeterInv, RowsFit
<1>8. RowsFit'
  BY <1>4, <1>5, <1>7 DEF RowsFit
<1>9. ReadsFit'
  <2>1. \A p \in Paths : /\ routes[p].requests <= table[p].requests
                         /\ routes[p].failed <= table[p].failed
    BY <1>4, <1>7
  <2>2. \A o \in Requests : ReadFits(request[o], total, failed, table)
    BY <1>1, <1>4, <2>1, ReadsStay DEF MeterInv, ReadsFit, TypeOK
  <2> QED
    BY <1>5, <2>2 DEF ReadsFit
<1> QED
  BY <1>6, <1>8, <1>9 DEF MeterInv

LEMMA NextMeter == TypeOK /\ MeterInv /\ [Next]_vars => MeterInv'
<1> SUFFICES ASSUME TypeOK, MeterInv, [Next]_vars PROVE MeterInv'
  OBVIOUS
<1>1. CASE Tick \/ UNCHANGED vars
  BY <1>1 DEF Tick, vars, MeterInv, TotalsFit, RowsFit, ReadsFit
<1>2. ASSUME NEW q \in Requests, NEW k \in Keys, Admit(q, k) \/ Refuse(q, k)
      PROVE  MeterInv'
  <2>1. PICK r \in {Idle, [phase |-> "handling", path |-> k[1]],
                    [phase |-> "refused", key |-> k, at |-> now]} :
          request' = [request EXCEPT ![q] = r]
    BY <1>2 DEF Admit, Refuse, Moved
  <2>2. ReadFits(r, total, failed, routes)
    BY <2>1 DEF ReadFits, Idle
  <2> QED
    BY <1>2, <2>1, <2>2, MoveFits DEF Admit, Refuse
<1>3. ASSUME NEW q \in Requests, ArriveScrape(q) \/ Drop(q)
      PROVE  MeterInv'
  <2>1. PICK r \in {Idle, [phase |-> "handling", path |-> Scrape]} :
          request' = [request EXCEPT ![q] = r]
    BY <1>3 DEF ArriveScrape, Drop, Moved
  <2>2. ReadFits(r, total, failed, routes)
    BY <2>1 DEF ReadFits, Idle
  <2> QED
    BY <1>3, <2>1, <2>2, MoveFits DEF ArriveScrape, Drop
<1>4. ASSUME NEW q \in Requests, ReadTotal(q) \/ ReadFailed(q) \/ CopyRoutes(q) \/ Answer(q)
      PROVE  MeterInv'
  BY <1>4, SnapshotFits
<1>5. ASSUME NEW q \in Requests, NEW isFailed \in BOOLEAN, Respond(q, isFailed)
      PROVE  MeterInv'
  BY <1>5, RespondFits
<1>6. CASE CountFailed \/ CountRoute
  BY <1>6, CountFailedFits, CountRouteFits
<1> QED
  BY <1>1, <1>2, <1>3, <1>4, <1>5, <1>6 DEF Next

(* Totals, rows and unfinished snapshots fit together in every reachable     *)
(* state.                                                                    *)
THEOREM MeterInvariance == Spec => []MeterInv
BY InitMeter, NextMeter, GatewayTypeCorrect, PTL DEF Spec

(* What /metrics answers is at most one request ahead of the rows it shows,  *)
(* for any number of scrapes and of requests recorded between their reads    *)
(* (metrics.py 23-58).                                                       *)
THEOREM SnapshotSound == Spec => []AnswerFitsTogether
<1>1. MeterInv => AnswerFitsTogether
  BY DEF MeterInv, ReadsFit, ReadFits, AnswerFitsTogether, Requested, Failures
<1> QED
  BY <1>1, MeterInvariance, PTL

=============================================================================
