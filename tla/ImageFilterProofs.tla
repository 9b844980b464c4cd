--------------------------- MODULE ImageFilterProofs ---------------------------
(****************************************************************************)
(* Proofs about ImageFilter for every image, filter and number of threads:  *)
(* the bands of the threads partition the rows (BandsCover, BandsDisjoint), *)
(* BandInv is inductive, and so every row is computed exactly once.         *)
(****************************************************************************)
EXTENDS ImageFilter, RingArithmetic, SequenceTheorems

(* Rows of a band, and the bands of all threads but the last.               *)
Share == Height \div ThreadNo
Low(t)  == Share * t
High(t) == IF t = ThreadNo - 1 THEN Height ELSE Share * (t + 1)

(* The shares fit into the image.                                           *)
LEMMA ShareFits == Share \in Nat /\ Share * ThreadNo <= Height
  <1>1. Height = ThreadNo * Share + (Height % ThreadNo) /\ Share \in Nat
        /\ Height % ThreadNo \in 0..(ThreadNo - 1)
    BY ImageFilterAssumption, Division DEF Share
  <1> QED
    BY <1>1, ImageFilterAssumption

(* Larger numbers of shares are at least as many rows.                      *)
LEMMA SharesMonotonic ==
    ASSUME NEW a \in Nat, NEW b \in Nat, a <= b
    PROVE  Share * a \in Nat /\ Share * a <= Share * b
  <1>1. Share \in Nat
    BY ShareFits
  <1> HIDE DEF Share
  <1>2. PICK d \in Nat : b = a + d
    <2>1. b - a \in Nat /\ b = a + (b - a)
      OBVIOUS
    <2> QED
      BY <2>1
  <1>3. Share * b = Share * a + Share * d /\ Share * d >= 0
    BY <1>1, <1>2
  <1> QED
    BY <1>1, <1>3

(* The band that main computes when its loop variable is 2 * t.             *)
LEMMA BandOf ==
    ASSUME NEW t \in Threads
    PROVE  Band(2 * t) = <<Low(t), High(t)>>
  <1> DEFINE q == Height \div ThreadNo
  <1>1. q \in Nat
    BY ShareFits DEF Share
  <1>2. t \in Nat /\ ThreadNo \in Nat
    BY ImageFilterAssumption DEF Threads
  <1>3. (2 * t) \div 2 = t
    BY <1>2
  <1>4. 2 * t = ThreadNo * 2 - 2 <=> t = ThreadNo - 1
    BY <1>2
  <1> HIDE DEF q
  <1>5. (q * (2 * t)) \div 2 = q * t
    <2> DEFINE p == q * t
    <2>1. p \in Nat /\ q * (2 * t) = 2 * p
      BY <1>1, <1>2
    <2> HIDE DEF p
    <2>2. (2 * p) \div 2 = p
      BY <2>1
    <2> QED
      BY <2>1, <2>2 DEF p
  <1> QED
    BY <1>3, <1>4, <1>5 DEF Band, Low, High, Share, q

(* Bands lie in the image.                                                  *)
LEMMA BandInImage ==
    ASSUME NEW t \in Threads
    PROVE  Low(t) \in 0..Height /\ High(t) \in 0..Height /\ Low(t) <= High(t)
  <1>1. t \in Nat /\ t + 1 \in Nat /\ ThreadNo \in Nat /\ t <= ThreadNo
        /\ t + 1 <= ThreadNo /\ Height \in Nat
    BY ImageFilterAssumption DEF Threads
  <1>2. Share * t \in Nat /\ Share * t <= Share * ThreadNo
    BY <1>1, SharesMonotonic
  <1>3. Share * (t + 1) \in Nat /\ Share * (t + 1) <= Share * ThreadNo
    BY <1>1, SharesMonotonic
  <1>4. Share * t <= Share * (t + 1)
    BY <1>1, SharesMonotonic
  <1>5. Share * ThreadNo <= Height /\ Share * ThreadNo \in Nat
    BY <1>1, ShareFits, SharesMonotonic
  <1> QED
    BY <1>1, <1>2, <1>3, <1>4, <1>5 DEF Low, High

(* A band ends where later ones begin, or before.                           *)
LEMMA BandsDisjoint ==
    ASSUME NEW t \in Threads, NEW u \in Threads, t < u
    PROVE  High(t) <= Low(u)
  <1>1. t \in Nat /\ u \in Nat /\ t + 1 \in Nat /\ t + 1 <= u /\ t # ThreadNo - 1
    BY ImageFilterAssumption DEF Threads
  <1> QED
    BY <1>1, SharesMonotonic DEF Low, High

(* Every row is in some band.                                               *)
LEMMA BandsCover ==
    ASSUME NEW r \in Rows
    PROVE  \E t \in Threads : Low(t) <= r /\ r < High(t)
  <1> DEFINE last == ThreadNo - 1
  <1>1. last \in Threads /\ last \in Nat /\ r \in Nat /\ r < Height
    BY ImageFilterAssumption DEF Threads, Rows
  <1>2. CASE Low(last) <= r
    BY <1>1, <1>2 DEF High
  <1>3. CASE ~ (Low(last) <= r)
    <2>1. Share \in Nat /\ Share # 0
      <3>1. Share \in Nat
        BY ShareFits
      <3>2. Share = 0 => Share * last = 0
        BY <1>1
      <3> QED
        BY <1>1, <1>3, <3>1, <3>2 DEF Low
    <2> DEFINE t == r \div Share
    <2>2. r = Share * t + (r % Share) /\ t \in Nat /\ r % Share \in 0..(Share - 1)
      BY <1>1, <2>1, Division
    <2>3. Share * t \in Nat /\ Share * (t + 1) = Share * t + Share
      BY <2>1, <2>2
    <2> HIDE DEF t
    <2>4. t < last
      <3>1. SUFFICES ASSUME last <= t PROVE FALSE
        BY <1>1, <2>2
      <3>2. Share * last <= Share * t
        BY <1>1, <2>2, <3>1, SharesMonotonic
      <3>3. Share * t <= r
        BY <2>1, <2>2, <2>3
      <3> QED
        BY <1>1, <1>3, <2>3, <3>2, <3>3, SharesMonotonic DEF Low
    <2>5. t \in Threads /\ t # ThreadNo - 1
      BY <2>2, <2>4, ImageFilterAssumption DEF Threads
    <2>6. Low(t) <= r /\ r < High(t)
      BY <2>1, <2>2, <2>3, <2>5 DEF Low, High
    <2> QED
      BY <2>5, <2>6
  <1> QED
    BY <1>2, <1>3

(* For every size of image and filter the clamped index is in the image.    *)
THEOREM IndexInImage ==
    ASSUME NEW size \in Nat \ {0}, NEW at \in Int, NEW k \in Int
    PROVE  Index(at, k, size) \in 0..(size - 1)
  <1> DEFINE n == at - (FilterSize + 1) \div 2 + k
  <1>1. n \in Int
    BY ImageFilterAssumption
  <1> HIDE DEF n
  <1>2. (IF n > 0 THEN IF n < size - 1 THEN n ELSE size - 1 ELSE 0) \in 0..(size - 1)
    BY <1>1
  <1> QED
    BY <1>2 DEF Index, n

-----------------------------------------------------------------------------
(* Initially the invariant holds.                                           *)
LEMMA InitInv == Init => TypeOK /\ BandInv
  <1> SUFFICES ASSUME Init PROVE TypeOK /\ BandInv
    OBVIOUS
  <1>1. TypeOK
    BY ImageFilterAssumption DEF Init, TypeOK, Threads, Rows
  <1>2. \A t \in Threads : t \in Nat
    BY ImageFilterAssumption DEF Threads
  <1>3. 0 = 2 * (0 \div 2)
    OBVIOUS
  <1>4. BandInv
    BY <1>2, <1>3 DEF Init, BandInv
  <1> QED
    BY <1>1, <1>4

(* A thread is created with its band, at the first row of it, and nothing   *)
(* is computed yet.                                                         *)
LEMMA CreateInv ==
    ASSUME TypeOK, BandInv, M_Create
    PROVE  TypeOK' /\ BandInv'
  <1> DEFINE new == i \div 2
  <1>1. i \in Nat /\ i = 2 * new /\ new \in Threads /\ new \in Nat
    <2>1. i \in Nat /\ i = 2 * new /\ i < ThreadNo * 2
      BY DEF TypeOK, BandInv, M_Create
    <2> QED
      BY <2>1, ImageFilterAssumption DEF Threads
  <1> HIDE DEF new
  <1>2. /\ main_pc = "create" /\ main_pc' = "create" /\ i' = i + 2
        /\ ar' = [ar EXCEPT ![new] = Band(i)]
        /\ x' = [x EXCEPT ![new] = Band(i)[1]]
        /\ thread_pc' = [thread_pc EXCEPT ![new] = "running"]
        /\ thread_ar' = IF i < ThreadNo THEN [thread_ar EXCEPT ![i] = new] ELSE thread_ar
        /\ UNCHANGED <<img_out, file, times>>
    BY DEF M_Create, new
  <1>3. Band(i) = <<Low(new), High(new)>>
    BY <1>1, BandOf
  <1>4. Low(new) \in 0..Height /\ High(new) \in 0..Height /\ Low(new) <= High(new)
    BY <1>1, BandInImage
  <1>5. TypeOK'
    <2>1. i < ThreadNo => i \in Threads
      BY <1>1, ImageFilterAssumption DEF Threads
    <2>2. i' \in Nat
      BY <1>1, <1>2
    <2>3. ar' \in [Threads -> (0..Height) \X (0..Height)]
      BY <1>1, <1>2, <1>3, <1>4 DEF TypeOK
    <2>4. x' \in [Threads -> 0..Height]
      BY <1>1, <1>2, <1>3, <1>4 DEF TypeOK
    <2>5. thread_pc' \in [Threads -> {"none", "running", "done"}]
      BY <1>1, <1>2 DEF TypeOK
    <2>6. thread_ar' \in [Threads -> Threads \union {-1}]
      BY <1>1, <1>2, <2>1 DEF TypeOK
    <2> QED
      BY <1>2, <2>2, <2>3, <2>4, <2>5, <2>6 DEF TypeOK
  <1>6. thread_pc[new] = "none"
    BY <1>1, <1>2 DEF BandInv
  <1>7. /\ i' = 2 * (i' \div 2)
        /\ \A t \in Threads : thread_pc'[t] = "none" <=> i' <= 2 * t
    <2>1. i' \div 2 = new + 1
      BY <1>1, <1>2
    <2>2. ASSUME NEW t \in Threads
          PROVE  thread_pc'[t] = "none" <=> i' <= 2 * t
      <3>1. t \in Nat
        BY ImageFilterAssumption DEF Threads
      <3>2. thread_pc[t] = "none" <=> i <= 2 * t
        BY <1>2 DEF BandInv
      <3>3. CASE t = new
        BY <1>1, <1>2, <3>3 DEF TypeOK
      <3>4. CASE t # new
        BY <1>1, <1>2, <3>1, <3>2, <3>4 DEF TypeOK
      <3> QED
        BY <3>3, <3>4
    <2> QED
      BY <1>1, <1>2, <2>1, <2>2
  <1>8. ASSUME NEW t \in Threads, thread_pc'[t] # "none"
        PROVE  /\ ar'[t] = Band(2 * t)
               /\ ar'[t][1] <= x'[t] /\ x'[t] <= ar'[t][2]
               /\ thread_pc'[t] = "done" => x'[t] = ar'[t][2]
    <2>1. CASE t = new
      BY <1>1, <1>2, <1>3, <1>4, <2>1 DEF TypeOK
    <2>2. CASE t # new
      BY <1>1, <1>2, <1>8, <2>2 DEF TypeOK, BandInv
    <2> QED
      BY <2>1, <2>2
  <1>9. ASSUME NEW r \in Rows, NEW t \in Threads
        PROVE  (thread_pc'[t] # "none" /\ ar'[t][1] <= r /\ r < x'[t])
                 <=> (thread_pc[t] # "none" /\ ar[t][1] <= r /\ r < x[t])
    <2>1. r \in Int
      BY DEF Rows
    <2>2. CASE t = new
      BY <1>1, <1>2, <1>3, <1>4, <1>6, <2>1, <2>2 DEF TypeOK
    <2>3. CASE t # new
      BY <1>1, <1>2, <2>3 DEF TypeOK
    <2> QED
      BY <2>2, <2>3
  <1>10. BandInv'
    <2>1. \A r \in Rows :
            times'[r] = IF \E t \in Threads : /\ thread_pc'[t] # "none"
                                              /\ ar'[t][1] <= r /\ r < x'[t]
                        THEN 1 ELSE 0
      BY <1>2, <1>9 DEF BandInv
    <2> QED
      BY <1>2, <1>7, <1>8, <2>1 DEF BandInv
  <1> QED
    BY <1>5, <1>10

(* A thread computes the next row of its band: nobody else has, because the *)
(* row is in no other band.                                                 *)
LEMMA RowInv ==
    ASSUME TypeOK, BandInv, NEW t \in Threads, T_Row(t)
    PROVE  TypeOK' /\ BandInv'
  <1>1. /\ thread_pc[t] = "running" /\ x[t] < ar[t][2]
        /\ times' = [times EXCEPT ![x[t]] = @ + 1]
        /\ x' = [x EXCEPT ![t] = @ + 1]
        /\ DOMAIN img_out' = DOMAIN img_out
        /\ UNCHANGED <<main_pc, i, ar, thread_pc, thread_ar, file>>
    BY DEF T_Row
  <1>2. /\ ar[t] = Band(2 * t) /\ ar[t][1] <= x[t]
        /\ ar[t][1] \in 0..Height /\ ar[t][2] \in 0..Height
        /\ x[t] \in 0..Height
    BY <1>1 DEF BandInv, TypeOK
  <1>3. x[t] \in Rows /\ x[t] + 1 \in 0..Height /\ Height \in Nat
    BY <1>1, <1>2, ImageFilterAssumption DEF Rows
  <1>4. TypeOK'
    <2>1. x' \in [Threads -> 0..Height]
      BY <1>1, <1>3 DEF TypeOK
    <2>2. times' \in [Rows -> Nat]
      BY <1>1, <1>3 DEF TypeOK
    <2> QED
      BY <1>1, <2>1, <2>2 DEF TypeOK
  <1>5. ASSUME NEW u \in Threads, thread_pc[u] # "none"
        PROVE  ar[u] = <<Low(u), High(u)>> /\ x[u] \in 0..Height
               /\ Low(u) \in Int /\ High(u) \in Int /\ u \in Int
               /\ Low(u) <= x[u] /\ x[u] <= High(u)
    BY <1>5, BandOf, BandInImage DEF BandInv, TypeOK, Threads
  <1>6. ASSUME NEW u \in Threads, u # t, thread_pc[u] # "none"
        PROVE  ~ (ar[u][1] <= x[t] /\ x[t] < x[u])
    <2>1. u < t \/ t < u
      BY <1>6, ImageFilterAssumption DEF Threads
    <2>2. CASE u < t
      BY <1>1, <1>2, <1>5, <1>6, <2>2, BandsDisjoint
    <2>3. CASE t < u
      BY <1>1, <1>2, <1>5, <1>6, <2>3, BandsDisjoint
    <2> QED
      BY <2>1, <2>2, <2>3
  <1> DEFINE Past(r)  == \E u \in Threads : thread_pc[u] # "none" /\ ar[u][1] <= r /\ r < x[u]
             Past2(r) == \E u \in Threads : thread_pc'[u] # "none" /\ ar'[u][1] <= r /\ r < x'[u]
  <1>7. times[x[t]] = 0
    <2>1. ~ Past(x[t])
      <3>1. ASSUME NEW u \in Threads, thread_pc[u] # "none"
            PROVE  ~ (ar[u][1] <= x[t] /\ x[t] < x[u])
        <4>1. CASE u = t
          BY <1>2, <4>1
        <4>2. CASE u # t
          BY <1>6, <3>1, <4>2
        <4> QED
          BY <4>1, <4>2
      <3> QED
        BY <3>1
    <2> QED
      BY <1>3, <2>1 DEF BandInv
  <1>8. ASSUME NEW r \in Rows
        PROVE  times'[r] = IF Past2(r) THEN 1 ELSE 0
    <2>0. r \in Int
      BY DEF Rows
    <2>1. CASE r = x[t]
      <3>1. Past2(r)
        <4>1. thread_pc'[t] # "none" /\ ar'[t][1] <= r /\ r < x'[t]
          BY <1>1, <1>2, <2>1 DEF TypeOK
        <4> QED
          BY <4>1
      <3>2. times'[r] = 1
        BY <1>1, <1>3, <1>7, <2>1 DEF TypeOK
      <3> QED
        BY <3>1, <3>2
    <2>2. CASE r # x[t]
      <3>1. times'[r] = times[r]
        BY <1>1, <1>3, <2>2 DEF TypeOK
      <3>2. ASSUME NEW u \in Threads
            PROVE  (thread_pc'[u] # "none" /\ ar'[u][1] <= r /\ r < x'[u])
                     <=> (thread_pc[u] # "none" /\ ar[u][1] <= r /\ r < x[u])
        <4>1. CASE u = t
          <5>1. x'[u] = x[t] + 1
            BY <1>1, <4>1 DEF TypeOK
          <5>2. r < x[t] + 1 <=> r < x[t]
            BY <1>2, <2>0, <2>2
          <5> QED
            BY <1>1, <4>1, <5>1, <5>2
        <4>2. CASE u # t
          BY <1>1, <4>2 DEF TypeOK
        <4> QED
          BY <4>1, <4>2
      <3>3. Past2(r) <=> Past(r)
        BY <3>2
      <3>4. times[r] = IF Past(r) THEN 1 ELSE 0
        BY DEF BandInv
      <3> HIDE DEF Past, Past2
      <3> QED
        BY <3>1, <3>3, <3>4
    <2> QED
      BY <2>1, <2>2
  <1>9. ASSUME NEW u \in Threads, thread_pc'[u] # "none"
        PROVE  /\ ar'[u] = Band(2 * u)
               /\ ar'[u][1] <= x'[u] /\ x'[u] <= ar'[u][2]
               /\ thread_pc'[u] = "done" => x'[u] = ar'[u][2]
    <2>1. CASE u = t
      BY <1>1, <1>2, <2>1 DEF TypeOK
    <2>2. CASE u # t
      BY <1>1, <1>9, <2>2 DEF TypeOK, BandInv
    <2> QED
      BY <2>1, <2>2
  <1>10. BandInv'
    BY <1>1, <1>8, <1>9 DEF BandInv
  <1> QED
    BY <1>4, <1>10

(* The other steps leave rows and bands alone.                              *)
LEMMA NextInv == TypeOK /\ BandInv /\ [Next]_vars => TypeOK' /\ BandInv'
  <1> SUFFICES ASSUME TypeOK, BandInv, [Next]_vars
               PROVE  TypeOK' /\ BandInv'
    OBVIOUS
  <1>1. CASE M_Create
    BY <1>1, CreateInv
  <1>2. CASE M_CreatePastArray
    BY <1>2 DEF M_CreatePastArray, TypeOK, BandInv, threads
  <1>3. CASE M_Created
    BY <1>3 DEF M_Created, TypeOK, BandInv, threads
  <1>4. CASE M_Join
    BY <1>4, ImageFilterAssumption DEF M_Join, TypeOK, BandInv, threads
  <1>5. CASE M_JoinNothing
    BY <1>5, ImageFilterAssumption DEF M_JoinNothing, TypeOK, BandInv, threads
  <1>6. CASE M_Joined
    BY <1>6 DEF M_Joined, TypeOK, BandInv, threads
  <1>7. CASE M_Write
    BY <1>7 DEF M_Write, TypeOK, BandInv, threads
  <1>8. CASE M_Done
    BY <1>8 DEF M_Done, TypeOK, BandInv, threads
  <1>9. ASSUME NEW t \in Threads, T_Row(t)
        PROVE  TypeOK' /\ BandInv'
    BY <1>9, RowInv
  <1>10. ASSUME NEW t \in Threads, T_Return(t)
         PROVE  TypeOK' /\ BandInv'
    <2>1. /\ thread_pc[t] = "running" /\ x[t] >= ar[t][2]
          /\ thread_pc' = [thread_pc EXCEPT ![t] = "done"]
          /\ UNCHANGED <<main_pc, i, ar, x, thread_ar, img_out, file, times>>
      BY <1>10 DEF T_Return
    <2>2. TypeOK'
      BY <2>1 DEF TypeOK
    <2>3. \A u \in Threads : thread_pc'[u] = "none" <=> thread_pc[u] = "none"
      BY <2>1 DEF TypeOK
    <2>4. x[t] = ar[t][2]
      <3>1. x[t] \in Int /\ ar[t][2] \in Int /\ x[t] <= ar[t][2]
        BY <2>1 DEF TypeOK, BandInv
      <3> QED
        BY <2>1, <3>1
    <2>5. \A u \in Threads : thread_pc'[u] = "done" => x[u] = ar[u][2]
      BY <2>1, <2>4 DEF TypeOK, BandInv
    <2>6. BandInv'
      BY <2>1, <2>3, <2>5 DEF BandInv
    <2> QED
      BY <2>2, <2>6
  <1>11. CASE UNCHANGED vars
    BY <1>11 DEF vars, threads, TypeOK, BandInv
  <1> QED
    BY <1>1, <1>2, <1>3, <1>4, <1>5, <1>6, <1>7, <1>8, <1>9, <1>10, <1>11
       DEF Next, Main, Thread

(* Every reachable state has the expected shape: bands, and the row each    *)
(* thread is at, lie in the image.                                          *)
THEOREM ShapeCorrect == Spec => []TypeOK
  <1>1. Init => TypeOK /\ BandInv
    BY InitInv
  <1>2. TypeOK /\ BandInv /\ [Next]_vars => (TypeOK /\ BandInv)'
    BY NextInv
  <1> QED
    BY <1>1, <1>2, PTL DEF Spec

(* BandInv holds in every reachable state.                                  *)
THEOREM BandsCorrect == Spec => []BandInv
  <1>1. Init => TypeOK /\ BandInv
    BY InitInv
  <1>2. TypeOK /\ BandInv /\ [Next]_vars => (TypeOK /\ BandInv)'
    BY NextInv
  <1> QED
    BY <1>1, <1>2, PTL DEF Spec

(* Whatever the height and the number of threads, no row is computed twice, *)
(* and none is left out once all threads are done.                          *)
THEOREM RowsOnce == Spec => []EachRowOnce
  <1>1. TypeOK /\ BandInv => EachRowOnce
    <2> SUFFICES ASSUME TypeOK, BandInv, NEW r \in Rows
                 PROVE  /\ times[r] <= 1
                        /\ (\A t \in Threads : thread_pc[t] = "done") => times[r] = 1
      BY DEF EachRowOnce
    <2>1. times[r] = IF \E t \in Threads : /\ thread_pc[t] # "none"
                                           /\ ar[t][1] <= r /\ r < x[t]
                     THEN 1 ELSE 0
      BY DEF BandInv
    <2>2. ASSUME \A t \in Threads : thread_pc[t] = "done"
          PROVE  times[r] = 1
      <3>1. PICK t \in Threads : Low(t) <= r /\ r < High(t)
        BY BandsCover
      <3>2. ar[t] = <<Low(t), High(t)>> /\ x[t] = ar[t][2] /\ thread_pc[t] # "none"
        BY <2>2, BandOf DEF BandInv
      <3> QED
        BY <2>1, <3>1, <3>2
    <2> QED
      BY <2>1, <2>2
  <1>2. Spec => []TypeOK
    BY ShapeCorrect
  <1>3. Spec => []BandInv
    BY BandsCorrect
  <1> QED
    BY <1>1, <1>2, <1>3, PTL

-----------------------------------------------------------------------------
(* The values of the pixels.                                                *)

(* The place of 0..(size - 1) nearest to n is n itself if it is one of      *)
(* them, and otherwise the first or the last.                               *)
LEMMA NearestIsClamp ==
    ASSUME NEW size \in Nat \ {0}, NEW n \in Int
    PROVE  Nearest(n, size) = IF n > 0 THEN IF n < size - 1 THEN n ELSE size - 1 ELSE 0
  <1> DEFINE m == IF n > 0 THEN IF n < size - 1 THEN n ELSE size - 1 ELSE 0
             IsNearest(k) == \A l \in 0..(size - 1) : Distance(k, n) <= Distance(l, n)
  <1>1. m \in 0..(size - 1)
    OBVIOUS
  <1>2. IsNearest(m)
    BY DEF Distance
  <1>3. ASSUME NEW k \in 0..(size - 1), IsNearest(k)
        PROVE  k = m
    <2>1. Distance(k, n) <= Distance(m, n)
      BY <1>1, <1>3
    <2> QED
      BY <2>1 DEF Distance
  <1>4. Nearest(n, size) = CHOOSE k \in 0..(size - 1) : IsNearest(k)
    BY DEF Nearest
  <1> HIDE DEF m, IsNearest
  <1>5. Nearest(n, size) = m
    BY <1>1, <1>2, <1>3, <1>4
  <1> QED
    BY <1>5 DEF m

(* index_i and index_j (zad1.c:56) are the place of the image that is       *)
(* nearest to the place under the filter.                                   *)
LEMMA IndexIsNearest ==
    ASSUME NEW size \in Nat \ {0}, NEW at \in Int, NEW k \in Int
    PROVE  Index(at, k, size) = Nearest(at - (FilterSize + 1) \div 2 + k, size)
  <1> DEFINE n == at - (FilterSize + 1) \div 2 + k
  <1>1. n \in Int
    BY ImageFilterAssumption
  <1>2. Index(at, k, size) = IF n > 0 THEN IF n < size - 1 THEN n ELSE size - 1 ELSE 0
    BY DEF Index
  <1> HIDE DEF n
  <1>3. Index(at, k, size) = Nearest(n, size)
    BY <1>1, <1>2, NearestIsClamp
  <1> QED
    BY <1>3 DEF n

(* A row that a thread computes is the one expected.                        *)
THEOREM RowIsExpected ==
    ASSUME NEW r \in Rows
    PROVE  Row(r) = Expected(r)
  <1> DEFINE back == (FilterSize + 1) \div 2
  <1>1. ASSUME NEW c \in Columns
        PROVE  Pixel(r, c) = ExpectedPixel(r, c)
    <2>1. ASSUME NEW w \in Window \X Window
          PROVE  /\ Index(r, w[1], Height) = Nearest(r - back + w[1], Height)
                 /\ Index(c, w[2], Width) = Nearest(c - back + w[2], Width)
      <3>1. w[1] \in Int /\ w[2] \in Int /\ r \in Int /\ c \in Int
        BY DEF Window, Rows, Columns
      <3> QED
        BY <3>1, IndexIsNearest, ImageFilterAssumption
    <2>2. [w \in Window \X Window |->
              Image[<<Index(r, w[1], Height), Index(c, w[2], Width)>>]]
          = [w \in Window \X Window |->
              Image[<<Nearest(r - back + w[1], Height),
                      Nearest(c - back + w[2], Width)>>]]
      BY <2>1
    <2> QED
      BY <2>2 DEF Pixel, ExpectedPixel
  <1> QED
    BY <1>1 DEF Row, Expected

-----------------------------------------------------------------------------
(* The file.                                                                *)

FileInv == RowsComputed /\ Waited /\ Written

(* Nothing is computed and nobody waited for at the start.                  *)
LEMMA InitFileInv == Init => FileInv
  BY DEF Init, FileInv, RowsComputed, Waited, Written, RowValues, Rows

(* A new thread has computed nothing; a row that a thread computes has its  *)
(* value from then on.                                                      *)
LEMMA NextRowsComputed == TypeOK /\ BandInv /\ FileInv /\ [Next]_vars => RowsComputed'
  <1> SUFFICES ASSUME TypeOK, BandInv, FileInv, [Next]_vars PROVE RowsComputed'
    OBVIOUS
  <1>1. ASSUME UNCHANGED <<threads, img_out>> PROVE RowsComputed'
    BY <1>1 DEF FileInv, RowsComputed, threads
  <1>2. CASE M_Create
    <2> DEFINE new == i \div 2
    <2>1. /\ new \in Threads /\ i = 2 * new
          /\ ar' = [ar EXCEPT ![new] = Band(i)]
          /\ x' = [x EXCEPT ![new] = Band(i)[1]]
          /\ thread_pc' = [thread_pc EXCEPT ![new] = "running"]
          /\ img_out' = img_out
      BY <1>2, ImageFilterAssumption DEF M_Create, TypeOK, BandInv, Threads
    <2> HIDE DEF new
    <2>2. Band(i) = <<Low(new), High(new)>> /\ Low(new) \in Int
      BY <2>1, BandOf, BandInImage
    <2>3. ASSUME NEW t \in Threads, NEW r \in Rows,
                 thread_pc'[t] # "none", ar'[t][1] <= r, r < x'[t]
          PROVE  img_out'[r] = Row(r)
      <3>1. t # new
        BY <2>1, <2>2, <2>3 DEF TypeOK, Rows
      <3> QED
        BY <2>1, <2>3, <3>1 DEF FileInv, RowsComputed, TypeOK
    <2> QED
      BY <2>1, <2>3 DEF FileInv, RowsComputed
  <1>3. ASSUME NEW t \in Threads, T_Row(t) PROVE RowsComputed'
    <2>1. /\ thread_pc[t] = "running" /\ x[t] < ar[t][2]
          /\ img_out' = [img_out EXCEPT ![x[t]] = Row(x[t])]
          /\ x' = [x EXCEPT ![t] = @ + 1]
          /\ UNCHANGED <<ar, thread_pc>>
      BY <1>3 DEF T_Row
    <2>2. x[t] \in Rows
      BY <2>1, ImageFilterAssumption DEF TypeOK, BandInv, Rows
    <2>3. img_out' \in [Rows -> RowValues]
      BY <2>1, <2>2 DEF FileInv, RowsComputed, RowValues
    <2>4. ASSUME NEW u \in Threads, NEW r \in Rows,
                 thread_pc'[u] # "none", ar'[u][1] <= r, r < x'[u]
          PROVE  img_out'[r] = Row(r)
      <3>1. CASE r = x[t]
        BY <2>1, <2>2, <3>1 DEF FileInv, RowsComputed
      <3>2. CASE r # x[t]
        <4>1. r < x[u]
          <5>1. r \in Int /\ x[t] \in Int
            BY <2>2 DEF Rows
          <5>2. x'[u] = IF u = t THEN x[t] + 1 ELSE x[u]
            BY <2>1 DEF TypeOK
          <5> QED
            BY <2>4, <3>2, <5>1, <5>2
        <4>2. img_out[r] = Row(r)
          BY <2>1, <2>4, <4>1 DEF FileInv, RowsComputed
        <4> QED
          BY <2>1, <2>2, <3>2, <4>2 DEF FileInv, RowsComputed
      <3> QED
        BY <3>1, <3>2
    <2> QED
      BY <2>3, <2>4 DEF RowsComputed
  <1>4. ASSUME NEW t \in Threads, T_Return(t) PROVE RowsComputed'
    <2>1. /\ thread_pc[t] = "running"
          /\ thread_pc' = [thread_pc EXCEPT ![t] = "done"]
          /\ UNCHANGED <<ar, x, img_out>>
      BY <1>4 DEF T_Return
    <2>2. \A u \in Threads : thread_pc'[u] = "none" <=> thread_pc[u] = "none"
      BY <2>1 DEF TypeOK
    <2> QED
      BY <2>1, <2>2 DEF FileInv, RowsComputed
  <1>5. CASE Main /\ ~ M_Create
    BY <1>1, <1>5 DEF Main, M_CreatePastArray, M_Created, M_Join, M_JoinNothing, M_Joined,
       M_Write, M_Done
  <1>6. CASE UNCHANGED vars
    BY <1>1, <1>6 DEF vars
  <1> QED
    BY <1>2, <1>3, <1>4, <1>5, <1>6 DEF Next, Thread

(* main goes past an entry of thread_ar when its thread is done or when it  *)
(* holds no handle, and a thread that is done stays so.                     *)
LEMMA NextWaited == TypeOK /\ FileInv /\ [Next]_vars => Waited'
  <1> SUFFICES ASSUME TypeOK, FileInv, [Next]_vars PROVE Waited'
    OBVIOUS
  <1> USE ImageFilterAssumption DEF TypeOK, FileInv, Waited, threads, Threads
  <1>1. CASE M_Create
    BY <1>1 DEF M_Create
  <1>2. CASE M_CreatePastArray
    BY <1>2 DEF M_CreatePastArray
  <1>3. CASE M_Created
    BY <1>3 DEF M_Created
  <1>4. CASE M_Join
    BY <1>4 DEF M_Join
  <1>5. CASE M_JoinNothing
    <2>1. CASE i' = i + 1 /\ main_pc' = main_pc
      BY <1>5, <2>1 DEF M_JoinNothing
    <2>2. CASE main_pc' = "undefined"
      BY <1>5, <2>2 DEF M_JoinNothing
    <2> QED
      BY <1>5, <2>1, <2>2 DEF M_JoinNothing
  <1>6. CASE M_Joined
    BY <1>6 DEF M_Joined
  <1>7. CASE M_Write
    BY <1>7 DEF M_Write
  <1>8. CASE M_Done
    BY <1>8 DEF M_Done
  <1>9. ASSUME NEW t \in Threads, T_Row(t) PROVE Waited'
    BY <1>9 DEF T_Row
  <1>10. ASSUME NEW t \in Threads, T_Return(t) PROVE Waited'
    <2>1. /\ thread_pc' = [thread_pc EXCEPT ![t] = "done"]
          /\ UNCHANGED <<main_pc, i, thread_ar>>
      BY <1>10 DEF T_Return
    <2>2. \A u \in Threads : thread_pc[u] = "done" => thread_pc'[u] = "done"
      BY <2>1
    <2> HIDE DEF Threads
    <2> QED
      BY <2>1, <2>2
  <1>11. CASE UNCHANGED vars
    BY <1>11 DEF vars
  <1> QED
    BY <1>1, <1>2, <1>3, <1>4, <1>5, <1>6, <1>7, <1>8, <1>9, <1>10, <1>11
       DEF Next, Main, Thread

(* Nothing is in the file before main writes; while main waits, and after,  *)
(* the threads are created no more.                                         *)
LEMMA NextWritten == TypeOK /\ BandInv /\ FileInv /\ [Next]_vars => Written'
  <1> SUFFICES ASSUME TypeOK, BandInv, FileInv, [Next]_vars PROVE Written'
    OBVIOUS
  <1> USE ImageFilterAssumption
  <1>1. ASSUME UNCHANGED <<main_pc, i, thread_ar, file>> PROVE Written'
    BY <1>1 DEF FileInv, Written
  <1>2. CASE M_Create
    BY <1>2 DEF M_Create, FileInv, Written
  <1>3. CASE M_CreatePastArray
    BY <1>3 DEF M_CreatePastArray, FileInv, Written
  <1>4. CASE M_Created
    BY <1>4 DEF M_Created, FileInv, Written
  <1>5. CASE M_Join
    BY <1>5 DEF M_Join, FileInv, Written
  <1>6. CASE M_JoinNothing
    BY <1>6 DEF M_JoinNothing, FileInv, Written
  <1>7. CASE M_Joined
    BY <1>7 DEF M_Joined, FileInv, Written, Rows
  <1>8. CASE M_Write
    <2>1. /\ main_pc = "write" /\ main_pc' = "write" /\ i < Height /\ i \in Rows
          /\ file' = Append(file, img_out[i]) /\ i' = i + 1
          /\ UNCHANGED <<threads, thread_ar, img_out>>
      BY <1>8 DEF M_Write, TypeOK, Rows
    <2>2. img_out[i] \in RowValues /\ file \in Seq(RowValues) /\ Len(file) = i
      BY <2>1 DEF FileInv, RowsComputed, Written
    <2>3. /\ file' \in Seq(RowValues) /\ Len(file') = i + 1
          /\ \A k \in 1..i : file'[k] = file[k]
          /\ file'[i + 1] = img_out[i]
      BY <2>1, <2>2, AppendProperties
    <2>4. ASSUME NEW e \in Threads, thread_ar[e] # -1, NEW r \in Rows,
                 InBand(r, thread_ar[e]), r < i + 1
          PROVE  file'[r + 1] = Row(r)
      <3>1. CASE r = i
        <4>1. thread_ar[e] \in Threads /\ thread_pc[thread_ar[e]] = "done"
          BY <2>1, <2>4 DEF TypeOK, FileInv, Waited
        <4>2. /\ ar[thread_ar[e]] = Band(2 * thread_ar[e])
              /\ x[thread_ar[e]] = ar[thread_ar[e]][2]
          BY <4>1 DEF BandInv
        <4>3. img_out[i] = Row(i)
          BY <2>1, <2>4, <3>1, <4>1, <4>2 DEF FileInv, RowsComputed, InBand
        <4> QED
          BY <2>3, <3>1, <4>3
      <3>2. CASE r # i
        <4>1. r < i /\ r + 1 \in 1..i
          BY <2>1, <2>4, <3>2 DEF Rows
        <4> QED
          BY <2>1, <2>3, <2>4, <4>1 DEF FileInv, Written
      <3> QED
        BY <3>1, <3>2
    <2>5. i + 1 <= Height
      BY <2>1 DEF Rows
    <2> QED
      BY <2>1, <2>3, <2>4, <2>5 DEF Written
  <1>9. CASE M_Done
    BY <1>9 DEF M_Done, FileInv, Written
  <1>10. ASSUME NEW t \in Threads, Thread(t) PROVE Written'
    BY <1>1, <1>10 DEF Thread, T_Row, T_Return
  <1>11. CASE UNCHANGED vars
    BY <1>1, <1>11 DEF vars
  <1> QED
    BY <1>2, <1>3, <1>4, <1>5, <1>6, <1>7, <1>8, <1>9, <1>10, <1>11 DEF Next, Main

(* The rows of a thread whose handle main holds are in the file with the    *)
(* values expected, for every image and filter, and however the threads run.*)
THEOREM JoinedRowsCorrect == Spec => []JoinedRowsInFile
  <1> DEFINE Inv == TypeOK /\ BandInv /\ FileInv
  <1>1. Init => Inv
    BY InitInv, InitFileInv
  <1>2. Inv /\ [Next]_vars => Inv'
    BY NextInv, NextRowsComputed, NextWaited, NextWritten DEF FileInv
  <1>3. Inv => JoinedRowsInFile
    <2> SUFFICES ASSUME Inv, main_pc = "done", NEW e \in Threads, thread_ar[e] # -1,
                        NEW r \in Rows, InBand(r, thread_ar[e])
                 PROVE  file[r + 1] = Expected(r)
      BY DEF JoinedRowsInFile
    <2>1. r < i
      BY ImageFilterAssumption DEF FileInv, Written, Rows
    <2>2. file[r + 1] = Row(r)
      BY <2>1 DEF FileInv, Written
    <2> QED
      BY <2>2, RowIsExpected
  <1> QED
    BY <1>1, <1>2, <1>3, PTL DEF Spec
=============================================================================
