------------------------- MODULE RateLimiterProofs -------------------------
(***************************************************************************)
(* The rate limiter keeps its sliding-window promise for every set of      *)
(* keys, every limit, window and cleanup threshold, and every length of    *)
(* run.                                                                    *)
(*                                                                         *)
(* The argument: the list the limiter holds for a key is always a suffix   *)
(* of the times it has admitted the key at, and every time it has          *)
(* forgotten had expired when it was dropped.  So the list a new request   *)
(* is counted against misses nothing that is still in its window.          *)
(***************************************************************************)
EXTENDS RateLimiter, FiniteSetTheorems, SequenceTheorems, TLAPS

(***************************************************************************)
(* w is what is left at time t of the sorted history a: a suffix of it,    *)
(* all of whose missing elements have expired.                             *)
(***************************************************************************)
Fits(w, a, t) ==
    /\ w \in Seq(Nat)
    /\ a \in Seq(Nat)
    /\ Len(w) <= Len(a)
    /\ \A i \in 1..Len(w) : w[i] = a[Len(a) - Len(w) + i]
    /\ \A i \in 1..(Len(a) - Len(w)) : a[i] <= t - WindowMs
    /\ \A i, j \in 1..Len(a) : i <= j => a[i] <= a[j]
    /\ \A i \in 1..Len(a) : a[i] <= t

Spaced(a, n) ==
    \A i \in 1..(Len(a) - n) : a[i + n] >= a[i] + WindowMs

IInv ==
    /\ TypeOK
    /\ IsFiniteSet(DOMAIN windows)
    /\ \A k \in Keys : Fits(Window(k), admitted[k], now)
    /\ \A k \in Keys : Spaced(admitted[k], Limit[k])

-----------------------------------------------------------------------------
\* The active positions of a sorted list are its last ones.
LEMMA ActiveIsSuffix ==
    ASSUME NEW w \in Seq(Nat), NEW t \in Nat,
           \A i, j \in 1..Len(w) : i <= j => w[i] <= w[j]
    PROVE  /\ Cardinality(Active(w, t)) \in 0..Len(w)
           /\ \A i \in 1..Len(w) :
                 w[i] > t - WindowMs <=> i > Len(w) - Cardinality(Active(w, t))
<1> DEFINE A == Active(w, t)
           n == Len(w)
           c == Cardinality(A)
<1> USE LimiterAssumption DEF LimiterAssumption
<1>1. n \in Nat /\ \A i \in 1..n : w[i] \in Nat
  BY ElementOfSeq, LenProperties
<1>2. A \subseteq 1..n
  BY DEF Active
<1>3. IsFiniteSet(1..n) /\ Cardinality(1..n) = n
  <2>1. /\ IsFiniteSet(1..n)
        /\ Cardinality(1..n) = IF 1 > n THEN 0 ELSE n - 1 + 1
    BY <1>1, 1 \in Int, n \in Int, FS_Interval
  <2> QED
    BY <2>1, <1>1
<1>4. IsFiniteSet(A) /\ c \in Nat /\ c <= n
  BY <1>2, <1>3, FS_Subset, FS_CardinalityType
<1>5. ASSUME NEW i \in 1..n, w[i] > t - WindowMs
      PROVE  i > n - c
  <2>1. i..n \subseteq A
    BY <1>1, <1>5 DEF Active
  <2>2. Cardinality(i..n) = n - i + 1
    BY <1>1, FS_Interval
  <2>3. Cardinality(i..n) <= c
    BY <2>1, <1>4, FS_Subset
  <2> QED
    BY <2>2, <2>3, <1>1, <1>4
<1>6. ASSUME NEW i \in 1..n, ~(w[i] > t - WindowMs)
      PROVE  ~(i > n - c)
  <2>1. A \subseteq (i + 1)..n
    BY <1>1, <1>6 DEF Active
  <2>2. IsFiniteSet((i + 1)..n) /\ Cardinality((i + 1)..n) = n - i
    BY <1>1, FS_Interval
  <2>3. c <= n - i
    BY <2>1, <2>2, FS_Subset
  <2> QED
    BY <2>3, <1>1, <1>4
<1> QED
  BY <1>1, <1>4, <1>5, <1>6

\* Eviction keeps the fit, and leaves exactly the timestamps in the window.
LEMMA KeptFits ==
    ASSUME NEW w, NEW a, NEW t \in Nat, Fits(w, a, t)
    PROVE  /\ Fits(Kept(w, t), a, t)
           /\ \A i \in 1..Len(a) : a[i] > t - WindowMs <=> i > Len(a) - Len(Kept(w, t))
<1> DEFINE n == Len(w)
           c == Cardinality(Active(w, t))
           s == Kept(w, t)
<1> USE LimiterAssumption DEF LimiterAssumption
<1>1. /\ n \in Nat /\ Len(a) \in Nat /\ n <= Len(a)
      /\ \A i \in 1..n : w[i] \in Nat
      /\ \A i \in 1..Len(a) : a[i] \in Nat
  BY LenProperties, ElementOfSeq DEF Fits
<1>2. ASSUME NEW i \in 1..n, NEW j \in 1..n, i <= j
      PROVE  w[i] <= w[j]
  <2>1. /\ Len(a) - n + i \in 1..Len(a)
        /\ Len(a) - n + j \in 1..Len(a)
        /\ Len(a) - n + i <= Len(a) - n + j
    BY <1>1, <1>2
  <2>2. w[i] = a[Len(a) - n + i] /\ w[j] = a[Len(a) - n + j]
    BY DEF Fits
  <2> QED
    BY <2>1, <2>2 DEF Fits
<1>3. /\ c \in 0..n
      /\ \A i \in 1..n : w[i] > t - WindowMs <=> i > n - c
  BY <1>2, ActiveIsSuffix DEF Fits
<1>4. /\ s \in Seq(Nat)
      /\ Len(s) = c
      /\ \A i \in 1..c : s[i] = w[n - c + i]
  <2>1. \A i \in (n - c + 1)..n : w[i] \in Nat
    BY <1>1, <1>3
  <2>2. /\ SubSeq(w, n - c + 1, n) \in Seq(Nat)
        /\ Len(SubSeq(w, n - c + 1, n)) =
              IF n - c + 1 <= n THEN n - (n - c + 1) + 1 ELSE 0
        /\ \A i \in 1..(n - (n - c + 1) + 1) :
              SubSeq(w, n - c + 1, n)[i] = w[(n - c + 1) + i - 1]
    BY <2>1, <1>1, <1>3, SubSeqProperties
  <2>3. \A i \in 1..c : (n - c + 1) + i - 1 = n - c + i
    BY <1>1, <1>3
  <2> QED
    BY <2>2, <2>3, <1>1, <1>3 DEF Kept
<1>5. ASSUME NEW i \in 1..c
      PROVE  s[i] = a[Len(a) - c + i]
  <2>1. n - c + i \in 1..n /\ Len(a) - n + (n - c + i) = Len(a) - c + i
    BY <1>1, <1>3
  <2>2. w[n - c + i] = a[Len(a) - n + (n - c + i)]
    BY <2>1 DEF Fits
  <2> QED
    BY <2>1, <2>2, <1>4
<1>6. ASSUME NEW i \in 1..(Len(a) - c)
      PROVE  a[i] <= t - WindowMs
  <2>1. CASE i <= Len(a) - n
    BY <2>1, <1>1 DEF Fits
  <2>2. CASE i > Len(a) - n
    <3> DEFINE j == i - (Len(a) - n)
    <3>1. j \in 1..n /\ ~(j > n - c) /\ Len(a) - n + j = i
      BY <2>2, <1>1, <1>3
    <3>2. w[j] = a[i]
      BY <3>1 DEF Fits
    <3>3. ~(w[j] > t - WindowMs) /\ w[j] \in Nat
      BY <3>1, <1>1, <1>3
    <3> QED
      BY <3>2, <3>3
  <2> QED
    BY <2>1, <2>2, <1>1
<1>7. ASSUME NEW i \in 1..Len(a), i > Len(a) - c
      PROVE  a[i] > t - WindowMs
  <2> DEFINE j == i - (Len(a) - n)
  <2>1. j \in 1..n /\ j > n - c /\ Len(a) - n + j = i
    BY <1>7, <1>1, <1>3
  <2>2. w[j] = a[i]
    BY <2>1 DEF Fits
  <2> QED
    BY <2>1, <2>2, <1>3
<1>8. Fits(s, a, t)
  BY <1>1, <1>3, <1>4, <1>5, <1>6 DEF Fits
<1>9. \A i \in 1..Len(a) : a[i] > t - WindowMs <=> i > Len(a) - c
  <2> TAKE i \in 1..Len(a)
  <2>1. CASE i > Len(a) - c
    BY <2>1, <1>7
  <2>2. CASE ~(i > Len(a) - c)
    BY <2>2, <1>1, <1>3, <1>6
  <2> QED
    BY <2>1, <2>2
<1> QED
  BY <1>4, <1>8, <1>9

\* An admission keeps the fit: the time is pushed on the list and on the history.
LEMMA PushFits ==
    ASSUME NEW w, NEW a, NEW t \in Nat, Fits(w, a, t)
    PROVE  Fits(Append(w, t), Append(a, t), t)
<1> USE LimiterAssumption DEF LimiterAssumption
<1> DEFINE n == Len(w)
           m == Len(a)
<1>1. /\ n \in Nat /\ m \in Nat /\ n <= m
      /\ \A i \in 1..n : w[i] \in Nat
      /\ \A i \in 1..m : a[i] \in Nat
  BY LenProperties, ElementOfSeq DEF Fits
<1>2. /\ Append(w, t) \in Seq(Nat) /\ Len(Append(w, t)) = n + 1
      /\ \A i \in 1..n : Append(w, t)[i] = w[i]
      /\ Append(w, t)[n + 1] = t
  BY AppendProperties DEF Fits
<1>3. /\ Append(a, t) \in Seq(Nat) /\ Len(Append(a, t)) = m + 1
      /\ \A i \in 1..m : Append(a, t)[i] = a[i]
      /\ Append(a, t)[m + 1] = t
  BY AppendProperties DEF Fits
<1>4. ASSUME NEW i \in 1..(n + 1)
      PROVE  Append(w, t)[i] = Append(a, t)[(m + 1) - (n + 1) + i]
  <2>1. CASE i = n + 1
    BY <2>1, <1>1, <1>2, <1>3
  <2>2. CASE i \in 1..n
    <3>1. w[i] = a[m - n + i] /\ m - n + i \in 1..m /\ (m + 1) - (n + 1) + i = m - n + i
      BY <2>2, <1>1 DEF Fits
    <3> QED
      BY <3>1, <2>2, <1>2, <1>3
  <2> QED
    BY <2>1, <2>2, <1>1
<1>5. \A i \in 1..((m + 1) - (n + 1)) : Append(a, t)[i] <= t - WindowMs
  BY <1>1, <1>3 DEF Fits
<1>6. \A i \in 1..(m + 1) : Append(a, t)[i] <= t
  BY <1>1, <1>3 DEF Fits
<1>7. ASSUME NEW i \in 1..(m + 1), NEW j \in 1..(m + 1), i <= j
      PROVE  Append(a, t)[i] <= Append(a, t)[j]
  <2>1. CASE j = m + 1
    BY <2>1, <1>3, <1>6
  <2>2. CASE j \in 1..m
    BY <2>2, <1>7, <1>1, <1>3 DEF Fits
  <2> QED
    BY <2>1, <2>2, <1>1
<1>8. /\ \A i \in 1..Len(Append(w, t)) :
            Append(w, t)[i] = Append(a, t)[Len(Append(a, t)) - Len(Append(w, t)) + i]
      /\ \A i \in 1..(Len(Append(a, t)) - Len(Append(w, t))) :
            Append(a, t)[i] <= t - WindowMs
  BY <1>2, <1>3, <1>4, <1>5
<1>9. Len(Append(w, t)) <= Len(Append(a, t))
  BY <1>1, <1>2, <1>3
<1> QED
  BY <1>2, <1>3, <1>6, <1>7, <1>8, <1>9 DEF Fits

\* The admission of a key with a free slot keeps its admissions apart.
LEMMA PushSpaced ==
    ASSUME NEW w, NEW a, NEW t \in Nat, NEW n \in Nat \ {0},
           Fits(w, a, t), Len(w) < n, Spaced(a, n)
    PROVE  Spaced(Append(a, t), n)
<1> USE LimiterAssumption DEF LimiterAssumption
<1> DEFINE m == Len(a)
<1>1. /\ Len(w) \in Nat /\ m \in Nat /\ Len(w) <= m
      /\ \A i \in 1..m : a[i] \in Nat
  BY LenProperties, ElementOfSeq DEF Fits
<1>2. /\ Len(Append(a, t)) = m + 1
      /\ \A i \in 1..m : Append(a, t)[i] = a[i]
      /\ Append(a, t)[m + 1] = t
  BY AppendProperties DEF Fits
<1> SUFFICES ASSUME NEW i \in 1..((m + 1) - n)
             PROVE  Append(a, t)[i + n] >= Append(a, t)[i] + WindowMs
  BY <1>2 DEF Spaced
<1>3. CASE i + n = m + 1
  <2>1. i \in 1..(m - Len(w)) /\ i \in 1..m
    BY <1>1, <1>3
  <2>2. a[i] <= t - WindowMs
    BY <2>1 DEF Fits
  <2> QED
    BY <2>1, <2>2, <1>1, <1>2, <1>3
<1>4. CASE i + n # m + 1
  <2>1. i \in 1..(m - n) /\ i \in 1..m /\ i + n \in 1..m
    BY <1>1, <1>4
  <2> QED
    BY <2>1, <1>2 DEF Spaced
<1> QED
  BY <1>3, <1>4

\* Time passing keeps the fit: what had expired stays expired.
LEMMA LaterFits ==
    ASSUME NEW w, NEW a, NEW t \in Nat, NEW u \in Nat, t <= u, Fits(w, a, t)
    PROVE  Fits(w, a, u)
<1> USE LimiterAssumption DEF LimiterAssumption
<1>1. Len(w) \in Nat /\ Len(a) \in Nat /\ \A i \in 1..Len(a) : a[i] \in Nat
  BY LenProperties, ElementOfSeq DEF Fits
<1>2. ASSUME NEW i \in 1..(Len(a) - Len(w))
      PROVE  a[i] <= u - WindowMs
  <2>1. i \in 1..Len(a) /\ Len(w) <= Len(a)
    BY <1>1 DEF Fits
  <2>2. a[i] <= t - WindowMs /\ a[i] \in Nat
    BY <1>1, <2>1 DEF Fits
  <2> QED
    BY <2>2
<1>3. \A i \in 1..Len(a) : a[i] <= u
  BY <1>1 DEF Fits
<1> QED
  BY <1>2, <1>3 DEF Fits

\* A key cleanup removes had nothing left but what had expired: the empty list fits.
LEMMA NothingActiveFits ==
    ASSUME NEW w, NEW a, NEW t \in Nat, Fits(w, a, t), Active(w, t) = {}
    PROVE  Fits(<< >>, a, t)
<1>1. Len(w) \in Nat
  BY LenProperties DEF Fits
<1>2. Len(w) - Cardinality(Active(w, t)) + 1 = Len(w) + 1
  BY <1>1, FS_EmptySet
<1>3. Kept(w, t) = << >>
  BY <1>1, <1>2, SubSeqEmpty, Len(w) + 1 \in Int, Len(w) \in Int, Len(w) < Len(w) + 1 DEF Kept
<1> QED
  BY <1>3, KeptFits

-----------------------------------------------------------------------------
\* The empty map fits the empty history.
LEMMA InitInv == Init => IInv
<1> SUFFICES ASSUME Init PROVE IInv
  OBVIOUS
<1> USE LimiterAssumption DEF LimiterAssumption
<1>1. << >> \in Seq(Nat) /\ Len(<< >>) = 0
  BY EmptySeq
<1>2. TypeOK
  BY <1>1 DEF Init, TypeOK
<1>3. ASSUME NEW k \in Keys
      PROVE  Window(k) = << >> /\ admitted[k] = << >>
  BY <1>3 DEF Init, Window
<1>4. Fits(<< >>, << >>, now)
  BY <1>1 DEF Fits
<1>5. \A k \in Keys : Spaced(<< >>, Limit[k])
  BY <1>1 DEF Spaced
<1>6. IsFiniteSet(DOMAIN windows)
  BY FS_EmptySet DEF Init
<1> QED
  BY <1>2, <1>3, <1>4, <1>5, <1>6 DEF IInv

(***************************************************************************)
(* The map an admission of k builds, before any cleanup, fits the new      *)
(* history of every key it holds.                                          *)
(***************************************************************************)
LEMMA AdmissionFits ==
    ASSUME IInv, NEW k \in Keys, CheckAdmitted(k)
    PROVE  \A j \in DOMAIN SetWindow(k, Append(Kept(Window(k), now), now)) :
              /\ j \in Keys
              /\ Fits(SetWindow(k, Append(Kept(Window(k), now), now))[j], admitted'[j], now)
<1> DEFINE w == Append(Kept(Window(k), now), now)
           p == SetWindow(k, w)
           a == Append(admitted[k], now)
<1> USE LimiterAssumption DEF LimiterAssumption
<1>0. /\ now \in Nat
      /\ DOMAIN windows \subseteq Keys
      /\ admitted \in [Keys -> Seq(Nat)]
      /\ \A j \in Keys : Fits(Window(j), admitted[j], now)
  BY DEF IInv, TypeOK
<1>1. Fits(w, a, now)
  BY <1>0, KeptFits, PushFits
<1>2. \A j \in Keys : admitted'[j] = IF j = k THEN a ELSE admitted[j]
  BY <1>0 DEF CheckAdmitted
<1>3. /\ DOMAIN p = DOMAIN windows \union {k}
      /\ p[k] = w
      /\ \A j \in DOMAIN windows : j # k => p[j] = windows[j]
  BY DEF SetWindow
<1> QED
  BY <1>0, <1>1, <1>2, <1>3 DEF Window

\* Every step keeps the invariant.
LEMMA NextInv == IInv /\ [Next]_vars => IInv'
<1> SUFFICES ASSUME IInv, [Next]_vars PROVE IInv'
  OBVIOUS
<1> USE LimiterAssumption DEF LimiterAssumption
<1>0. /\ now \in Nat
      /\ DOMAIN windows \subseteq Keys
      /\ IsFiniteSet(DOMAIN windows)
      /\ \A j \in DOMAIN windows : windows[j] \in Seq(Nat)
      /\ admitted \in [Keys -> Seq(Nat)]
      /\ \A j \in Keys : Fits(Window(j), admitted[j], now)
      /\ \A j \in Keys : Spaced(admitted[j], Limit[j])
  BY DEF IInv, TypeOK
<1>1. CASE Tick
  <2>1. now' \in 0..MaxTime /\ now' \in Nat /\ now <= now'
    BY <1>0, <1>1 DEF Tick, IInv, TypeOK
  <2>2. \A j \in Keys : Window(j)' = Window(j) /\ admitted'[j] = admitted[j]
    BY <1>1 DEF Tick, Window
  <2>3. \A j \in Keys : Fits(Window(j), admitted[j], now')
    BY <1>0, <2>1, LaterFits
  <2>4. TypeOK'
    BY <1>0, <1>1, <2>1 DEF Tick, TypeOK
  <2>5. DOMAIN windows' = DOMAIN windows
    BY <1>1 DEF Tick
  <2> QED
    BY <1>0, <2>2, <2>3, <2>4, <2>5 DEF IInv
<1>2. ASSUME NEW k \in Keys, CheckRefused(k)
      PROVE  IInv'
  <2> DEFINE w == Kept(Window(k), now)
  <2>1. Fits(w, admitted[k], now)
    BY <1>0, KeptFits
  <2>2. /\ windows' = SetWindow(k, w) /\ now' = now /\ admitted' = admitted
    BY <1>2 DEF CheckRefused
  <2>3. /\ DOMAIN windows' = DOMAIN windows \union {k}
        /\ windows'[k] = w
        /\ \A j \in DOMAIN windows : j # k => windows'[j] = windows[j]
    BY <2>2 DEF SetWindow
  <2>4. \A j \in Keys : Window(j)' = IF j = k THEN w ELSE Window(j)
    BY <2>3 DEF Window
  <2>5. TypeOK'
    BY <1>0, <2>1, <2>2, <2>3 DEF TypeOK, Fits, IInv
  <2>6. IsFiniteSet(DOMAIN windows')
    <3>1. IsFiniteSet(DOMAIN windows \union {k})
      BY <1>0, FS_AddElement
    <3> QED
      BY <2>3, <3>1
  <2> QED
    BY <1>0, <2>1, <2>2, <2>4, <2>5, <2>6 DEF IInv
<1>3. ASSUME NEW k \in Keys, CheckAdmitted(k)
      PROVE  IInv'
  <2> DEFINE w == Append(Kept(Window(k), now), now)
             p == SetWindow(k, w)
             a == Append(admitted[k], now)
  <2>1. /\ Fits(Kept(Window(k), now), admitted[k], now)
        /\ Len(Kept(Window(k), now)) < Limit[k]
    BY <1>0, <1>3, KeptFits DEF CheckAdmitted, Admits
  <2>2. Fits(w, a, now)
    BY <1>0, <2>1, PushFits
  <2>3. Spaced(a, Limit[k])
    BY <1>0, <2>1, PushSpaced
  <2>4. /\ now' = now
        /\ admitted' = [admitted EXCEPT ![k] = a]
        /\ windows' = p \/ windows' = Cleanup(p, now)
    BY <1>3 DEF CheckAdmitted
  <2>5. /\ admitted' \in [Keys -> Seq(Nat)]
        /\ \A j \in Keys : admitted'[j] = IF j = k THEN a ELSE admitted[j]
    BY <1>0, <2>2, <2>4 DEF Fits
  <2>6. /\ DOMAIN p = DOMAIN windows \union {k}
        /\ p[k] = w
        /\ \A j \in DOMAIN windows : j # k => p[j] = windows[j]
    BY DEF SetWindow
  <2>7. \A j \in DOMAIN p : j \in Keys /\ Fits(p[j], admitted'[j], now)
    BY <1>3, AdmissionFits
  <2>8. \A j \in Keys \ DOMAIN p : Fits(<< >>, admitted'[j], now)
    BY <1>0, <2>5, <2>6 DEF Window
  <2>9. ASSUME windows' = p
        PROVE  /\ DOMAIN windows' \subseteq Keys
               /\ \A j \in DOMAIN windows' : windows'[j] \in Seq(Nat)
               /\ \A j \in Keys : Fits(Window(j)', admitted'[j], now)
    BY <2>7, <2>8, <2>9 DEF Window, Fits
  <2>10. ASSUME windows' = Cleanup(p, now)
         PROVE  /\ DOMAIN windows' \subseteq Keys
                /\ \A j \in DOMAIN windows' : windows'[j] \in Seq(Nat)
                /\ \A j \in Keys : Fits(Window(j)', admitted'[j], now)
    <3>1. /\ DOMAIN windows' = {j \in DOMAIN p : Active(p[j], now) # {}}
          /\ \A j \in DOMAIN windows' : windows'[j] = Kept(p[j], now)
      BY <2>10 DEF Cleanup
    <3>2. \A j \in DOMAIN windows' : Fits(windows'[j], admitted'[j], now)
      BY <1>0, <2>7, <3>1, KeptFits
    <3>3. \A j \in DOMAIN p : j \notin DOMAIN windows' => Fits(<< >>, admitted'[j], now)
      BY <1>0, <2>7, <3>1, NothingActiveFits
    <3>4. \A j \in Keys : Fits(Window(j)', admitted'[j], now)
      BY <2>8, <3>2, <3>3 DEF Window
    <3> QED
      BY <2>7, <3>1, <3>2, <3>4 DEF Fits
  <2>11. TypeOK'
    BY <1>0, <2>4, <2>5, <2>9, <2>10 DEF TypeOK, IInv
  <2>12. IsFiniteSet(DOMAIN windows')
    <3>0. IsFiniteSet(DOMAIN windows \union {k})
      BY <1>0, FS_AddElement
    <3>1. IsFiniteSet(DOMAIN p)
      BY <2>6, <3>0
    <3>2. DOMAIN Cleanup(p, now) \in SUBSET DOMAIN p
      BY DEF Cleanup
    <3> QED
      BY <2>4, <3>1, <3>2, FS_Subset
  <2> QED
    BY <1>0, <2>3, <2>4, <2>5, <2>9, <2>10, <2>11, <2>12 DEF IInv
<1>4. CASE UNCHANGED vars
  BY <1>4 DEF vars, IInv, TypeOK, Window
<1> QED
  BY <1>1, <1>2, <1>3, <1>4 DEF Next

LEMMA Invariance == Spec => []IInv
BY InitInv, NextInv, PTL DEF Spec

-----------------------------------------------------------------------------
\* Every list the limiter holds is a list of clock readings (RateLimiter.windows).
THEOREM TypeCorrect == Spec => []TypeOK
<1>1. IInv => TypeOK
  BY DEF IInv
<1> QED
  BY <1>1, Invariance, PTL

(***************************************************************************)
(* No more than Limit[k] admissions of a key fall in any window of         *)
(* WindowMs: the promise of RateLimiter.check.                             *)
(***************************************************************************)
THEOREM LimitKept == Spec => []SlidingWindow
<1>1. IInv => SlidingWindow
  BY DEF IInv, SlidingWindow, Spaced
<1> QED
  BY <1>1, Invariance, PTL

(***************************************************************************)
(* RateLimiter.check answers false only when the limit is used up within   *)
(* the window that ends now.                                               *)
(***************************************************************************)
THEOREM NoFalseRefusal == Spec => []RefusalJustified
<1>1. IInv => RefusalJustified
  <2> SUFFICES ASSUME IInv, NEW k \in Keys, ~Admits(k)
               PROVE  /\ Len(admitted[k]) >= Limit[k]
                      /\ admitted[k][Len(admitted[k]) - Limit[k] + 1] > now - WindowMs
    BY DEF RefusalJustified
  <2> USE LimiterAssumption DEF LimiterAssumption
  <2> DEFINE s == Kept(Window(k), now)
             m == Len(admitted[k])
  <2>0. now \in Nat /\ Fits(Window(k), admitted[k], now)
    BY DEF IInv, TypeOK
  <2>1. /\ Fits(s, admitted[k], now)
        /\ \A i \in 1..m : admitted[k][i] > now - WindowMs <=> i > m - Len(s)
    BY <2>0, KeptFits
  <2>2. m \in Nat /\ Len(s) \in Nat /\ Len(s) <= m
    BY <2>1, LenProperties DEF Fits
  <2>3. Len(s) >= Limit[k] /\ Limit[k] \in Nat \ {0}
    BY <2>2 DEF Admits
  <2>4. m - Limit[k] + 1 \in 1..m /\ m - Limit[k] + 1 > m - Len(s)
    BY <2>2, <2>3
  <2> QED
    BY <2>1, <2>2, <2>3, <2>4
<1> QED
  BY <1>1, Invariance, PTL

(***************************************************************************)
(* After a check that is admitted the map is within the cleanup threshold, *)
(* or holds only keys admitted within the last window.                     *)
(***************************************************************************)
THEOREM MemoryBounded == Spec => MapBounded
<1> DEFINE Bound == admitted' # admitted =>
                \/ Cardinality(DOMAIN windows') <= CleanupThreshold
                \/ \A k \in DOMAIN windows' :
                      /\ admitted'[k] # << >>
                      /\ admitted'[k][Len(admitted'[k])] > now' - WindowMs
<1>1. IInv /\ [Next]_vars => [Bound]_vars
  <2> SUFFICES ASSUME IInv, Next, admitted' # admitted
               PROVE  Bound
    BY DEF vars
  <2>0. IInv'
    BY NextInv
  <2> USE LimiterAssumption DEF LimiterAssumption
  <2>1. PICK k \in Keys : CheckAdmitted(k)
    BY DEF Next, Tick, CheckRefused
  <2> DEFINE p == SetWindow(k, Append(Kept(Window(k), now), now))
  <2>2. CASE ~(Cardinality(DOMAIN p) > CleanupThreshold)
    <3>1. windows' = p
      BY <2>1, <2>2 DEF CheckAdmitted
    <3>2. Cardinality(DOMAIN windows') \in Nat
      BY <2>0, FS_CardinalityType DEF IInv
    <3> QED
      BY <2>2, <3>1, <3>2
  <2>3. CASE Cardinality(DOMAIN p) > CleanupThreshold
    <3> SUFFICES ASSUME NEW j \in DOMAIN windows'
                 PROVE  /\ admitted'[j] # << >>
                        /\ admitted'[j][Len(admitted'[j])] > now' - WindowMs
      OBVIOUS
    <3>1. windows' = Cleanup(p, now) /\ now' = now /\ now \in Nat
      BY <2>1, <2>3 DEF CheckAdmitted, IInv, TypeOK
    <3>2. j \in DOMAIN p /\ Active(p[j], now) # {} /\ windows'[j] = Kept(p[j], now)
      BY <3>1 DEF Cleanup
    <3>3. Fits(p[j], admitted'[j], now)
      BY <2>1, <3>2, AdmissionFits
    <3>4. PICK i \in 1..Len(p[j]) : p[j][i] > now - WindowMs
      BY <3>2 DEF Active
    <3> DEFINE a == admitted'[j]
               n == Len(p[j])
    <3>5. n \in Nat /\ Len(a) \in Nat /\ n <= Len(a) /\ i \in 1..n
      BY <3>3, <3>4, LenProperties DEF Fits
    <3>6. Len(a) - n + i \in 1..Len(a) /\ Len(a) \in 1..Len(a) /\ Len(a) - n + i <= Len(a)
      <4> HIDE DEF a, n
      <4> QED
        BY <3>5
    <3>10. a[Len(a)] \in Nat /\ a[Len(a) - n + i] \in Nat
      BY <3>3, <3>6, ElementOfSeq DEF Fits
    <3>7. a[Len(a) - n + i] = p[j][i] /\ a[Len(a) - n + i] <= a[Len(a)]
      BY <3>3, <3>4, <3>6 DEF Fits
    <3>8. a[Len(a)] > now - WindowMs
      BY <3>1, <3>4, <3>7, <3>10
    <3>9. a # << >>
      BY <3>6, EmptySeq
    <3> QED
      BY <3>1, <3>8, <3>9
  <2> QED
    BY <2>2, <2>3
<1> QED
  BY <1>1, Invariance, PTL DEF Spec, MapBounded
=============================================================================
