--------------------------- MODULE HttpRangeProofs ---------------------------
(***************************************************************************)
(* Proofs about HttpRangeReader, for every buffer size, every object and   *)
(* any number of versions of it, as long as a server that answers with     *)
(* ranges keeps doing so.                                                  *)
(***************************************************************************)
EXTENDS HttpRangeReader, TLAPS

(* The buffer holds what stands at buffer_start, the size is that of the   *)
(* version open() saw, and a range was unsatisfiable only once shrunk.     *)
IInv ==
  /\ TypeOK
  /\ buffer.length > 0 => buffer.from = buffer_start
  /\ opened > 0 => total_size = history[opened]
  /\ opened = 0 => total_size = 0 /\ buffer = None /\ got = None
                   /\ error # "out_of_range"
  /\ RightPlace /\ OnlyIfShrank

LEMMA RunTypes ==
  /\ None \in Run /\ None.length = 0
  /\ \A a, b \in Nat : /\ Lesser(a, b) \in Nat /\ Lesser(a, b) <= a /\ Lesser(a, b) <= b
                       /\ Lesser(a, b) \in {a, b}
                       /\ Greater(a, b) \in Nat /\ Greater(a, b) >= a /\ Greater(a, b) >= b
BY DEF None, Run, Lesser, Greater

LEMMA HistoryTypes ==
  ASSUME TypeOK
  PROVE  Now \in Nat \ {0} /\ \A v \in 1 .. Now : history[v] \in Lengths /\ history[v] \in Nat
<1>1. history \in Seq(Lengths) /\ Len(history) \in 1 .. MaxVersions
  BY DEF TypeOK, Now
<1>2. Len(history) \in Nat \ {0}
  BY <1>1, ReaderAssumption
<1>3. \A v \in 1 .. Len(history) : history[v] \in Lengths
  BY <1>1
<1> QED BY <1>2, <1>3, ReaderAssumption DEF Now

(* What a server may answer with a body, given where the request starts.   *)
LEMMA ResponseBody ==
  ASSUME TypeOK, NEW start \in Nat, NEW length \in Nat,
         NEW r \in Responses(start, length)
  PROVE  /\ r.body \in Run
         /\ r.status \in {"206", "200", "416", "404", "failure"}
         /\ r.total \in {history[Now], -1}
         /\ r.body.length > 0 =>
              r.body.version = Now /\ r.body.from + r.body.length <= history[Now]
         /\ r.status = "206" =>
              /\ start < history[Now] /\ r.body.version = Now /\ r.body.from = start
              /\ r.body.length = Lesser(length, history[Now] - start)
         /\ r.status = "416" => start >= history[Now] /\ r.body = None
         /\ r.status = "200" =>
              r.body = Part(0, history[Now]) /\ (opened = 0 \/ ~KeepsRange)
<1> PICK size \in {history[Now]} : TRUE
  OBVIOUS
<1> PICK n \in {Lesser(length, size - start)} : TRUE
  OBVIOUS
<1>1. Now \in Nat \ {0} /\ size \in Nat /\ size = history[Now]
  BY HistoryTypes
<1>2. start < size => n \in Nat /\ start + n <= size
  <2>1. size - start \in Nat \/ ~(start < size)
    BY <1>1
  <2>2. (n \in {length, size - start} /\ n <= size - start) \/ ~(start < size)
    BY <2>1, RunTypes
  <2> QED BY <1>1, <2>2
<1>3. n = Lesser(length, size - start)
  OBVIOUS
<1>4. \A f, m \in Nat : /\ Part(f, m) \in Run /\ Part(f, m).version = Now
                        /\ Part(f, m).from = f /\ Part(f, m).length = m
  BY <1>1 DEF Part, Run
<1>5. CASE r = [status |-> "200", total |-> -1, body |-> Part(0, size)]
           /\ (opened = 0 \/ ~KeepsRange)
  BY <1>1, <1>4, <1>5
<1> PICK none \in {None} : none = None /\ none \in Run /\ none.length = 0
  BY RunTypes
<1>6. CASE \E s \in {"404", "failure"} : r = [status |-> s, total |-> -1, body |-> none]
  BY <1>1, <1>6
<1>7. CASE start >= size /\ r = [status |-> "416", total |-> size, body |-> none]
  BY <1>1, <1>7
<1>8. CASE /\ ~(start >= size)
           /\ \E t \in {size, -1} : r = [status |-> "206", total |-> t, body |-> Part(start, n)]
  <2>1. /\ n \in Nat /\ start + n <= size
        /\ Part(start, n) \in Run /\ Part(start, n).version = Now
        /\ Part(start, n).from = start /\ Part(start, n).length = n
    BY <1>1, <1>2, <1>4, <1>8
  <2> QED BY <1>1, <1>3, <1>8, <2>1
<1> QED BY <1>1, <1>3, <1>5, <1>6, <1>7, <1>8 DEF Responses

LEMMA IInvInit == Init => IInv
<1> SUFFICES ASSUME Init PROVE IInv
  OBVIOUS
<1>1. PICK n \in Lengths : history = <<n>>
  BY DEF Init
<1>2. Now = 1 /\ 1 \in 1 .. MaxVersions
  BY <1>1, ReaderAssumption DEF Now
<1>3. /\ opened = 0 /\ total_size = 0 /\ cursor = 0 /\ buffer = None
      /\ buffer_start = 0 /\ got = None /\ error = "none"
  BY DEF Init
<1>4. TypeOK
  <2>1. history \in Seq(Lengths)
    BY <1>1
  <2>2. None \in Run /\ ~(None.length > 0)
    BY RunTypes
  <2> QED BY <1>2, <1>3, <2>1, <2>2 DEF TypeOK
<1> QED BY <1>3, <1>4, RunTypes DEF IInv, RightPlace, OnlyIfShrank

LEMMA ReplaceInv == IInv /\ Replace => IInv'
<1> SUFFICES ASSUME IInv, Replace PROVE IInv'
  OBVIOUS
<1>1. PICK n \in Lengths : history' = Append(history, n)
  BY DEF Replace
<1>2. /\ history \in Seq(Lengths) /\ Now < MaxVersions /\ Now \in Nat \ {0}
      /\ UNCHANGED <<opened, total_size, cursor, buffer, buffer_start, got, error>>
  BY HistoryTypes DEF IInv, TypeOK, Replace, reader
<1>3. /\ Now' = Now + 1 /\ history' \in Seq(Lengths)
      /\ \A v \in 1 .. Now : history'[v] = history[v]
  BY <1>1, <1>2 DEF Now
<1>4. opened \in 0 .. Now
  BY DEF IInv, TypeOK
<1>5. TypeOK'
  <2>1. ASSUME NEW run \in {buffer, got}, run.length > 0
        PROVE  /\ run.version \in opened' .. Now'
               /\ run.from + run.length <= history'[run.version]
    <3>1. run.version \in opened .. Now /\ run.from + run.length <= history[run.version]
      BY <2>1 DEF IInv, TypeOK
    <3>2. opened # 0
      BY <2>1, RunTypes DEF IInv
    <3> QED BY <1>2, <1>3, <1>4, <3>1, <3>2
  <2> QED BY <1>2, <1>3, <1>4, <2>1, ReaderAssumption DEF IInv, TypeOK
<1>6. OnlyIfShrank'
  <2> SUFFICES ASSUME error = "out_of_range"
               PROVE  \E v \in opened .. Now + 1 : history'[v] < total_size
    BY <1>2, <1>3 DEF OnlyIfShrank
  <2>1. PICK v \in opened .. Now : history[v] < total_size
    BY DEF IInv, OnlyIfShrank
  <2>2. opened \in 1 .. Now
    BY <1>4 DEF IInv
  <2> QED BY <1>2, <1>3, <2>1, <2>2
<1>7. RightPlace'
  BY <1>2 DEF IInv, RightPlace
<1>8. opened > 0 => total_size = history'[opened]
  BY <1>2, <1>3, <1>4 DEF IInv
<1> QED BY <1>2, <1>5, <1>6, <1>7, <1>8 DEF IInv

LEMMA OpenInv == IInv /\ Open => IInv'
<1> SUFFICES ASSUME IInv, Open PROVE IInv'
  OBVIOUS
<1>1. /\ opened = 0 /\ history' = history /\ Now' = Now /\ Now \in 1 .. MaxVersions
      /\ TypeOK /\ Now \in Nat \ {0} /\ history[Now] \in Nat /\ cursor = 0 /\ buffer_start = 0
  <2>1. cursor = 0 /\ buffer_start = 0
    BY DEF IInv, TypeOK, Open
  <2> QED BY <2>1, HistoryTypes DEF IInv, TypeOK, Open, Now
<1>2. PICK r \in Responses(0, BufferSize) :
       \/ /\ r.status \in {"206", "200", "416"}
          /\ r.status = "206" => r.total # -1
          /\ opened' = Now
          /\ total_size' = OpenSize(r)
          /\ buffer' = r.body
          /\ got' = None /\ error' = "none"
          /\ UNCHANGED <<cursor, buffer_start>>
       \/ /\ Fails(IF r.status = "404" THEN "not_found" ELSE "unknown")
          /\ UNCHANGED reader
  BY DEF Open
<1>3. CASE /\ r.status \in {"206", "200", "416"}
           /\ r.status = "206" => r.total # -1
           /\ opened' = Now
           /\ total_size' = OpenSize(r)
           /\ buffer' = r.body
           /\ got' = None /\ error' = "none"
           /\ UNCHANGED <<cursor, buffer_start>>
  <2>1. /\ r.body \in Run /\ total_size' = history[Now]
        /\ r.body.length > 0 =>
             /\ r.body.version = Now /\ r.body.from + r.body.length <= history[Now]
             /\ r.body.from = 0
    <3>1. 0 \in Nat /\ BufferSize \in Nat
      BY ReaderAssumption
    <3>2. /\ r.body \in Run /\ r.total \in {history[Now], -1}
          /\ r.body.length > 0 =>
               r.body.version = Now /\ r.body.from + r.body.length <= history[Now]
          /\ r.status = "206" => r.body.from = 0
          /\ r.status = "416" => 0 >= history[Now] /\ r.body = None
          /\ r.status = "200" => r.body = Part(0, history[Now])
      BY <1>1, <3>1, ResponseBody
    <3>3. None.length = 0
      BY RunTypes
    <3>4. CASE r.status = "206"
      BY <1>1, <1>3, <3>2, <3>4 DEF OpenSize
    <3>5. CASE r.status = "200"
      BY <1>1, <1>3, <3>2, <3>5 DEF OpenSize, Part
    <3>6. CASE r.status = "416"
      BY <1>1, <1>3, <3>2, <3>3, <3>6 DEF OpenSize
    <3> QED BY <1>3, <3>4, <3>5, <3>6
  <2>2. TypeOK'
    <3>1. None \in Run /\ ~(None.length > 0)
      BY RunTypes
    <3>2. history \in Seq(Lengths)
      BY <1>1 DEF TypeOK
    <3> QED BY <1>1, <1>3, <2>1, <3>1, <3>2 DEF TypeOK
  <2> QED BY <1>1, <1>3, <2>1, <2>2, RunTypes DEF IInv, RightPlace, OnlyIfShrank
<1>4. CASE /\ Fails(IF r.status = "404" THEN "not_found" ELSE "unknown")
           /\ UNCHANGED reader
  BY <1>1, <1>4, RunTypes DEF IInv, TypeOK, RightPlace, OnlyIfShrank, Fails, reader
<1> QED BY <1>2, <1>3, <1>4
(* A read that hands out bytes from the cursor on. *)
LEMMA Delivered ==
  ASSUME IInv, opened > 0, NEW run \in Run, NEW n \in Nat \ {0}, n <= run.length,
         run.from = cursor, run.version \in opened .. Now,
         run.from + run.length <= history[run.version],
         cursor + n <= total_size, Deliver(run.version, run.from, n),
         UNCHANGED <<history, opened, total_size>>,
         \/ UNCHANGED <<buffer, buffer_start>>
         \/ buffer' = run /\ buffer_start' = cursor
  PROVE  /\ IInv'
         /\ got' = [version |-> run.version, from |-> cursor, length |-> n]
<1>1. /\ TypeOK /\ cursor \in Nat /\ total_size \in Nat /\ Now \in Nat /\ opened \in Nat
      /\ run.from \in Nat /\ run.length \in Nat /\ run.version \in Nat
      /\ history[run.version] \in Nat /\ Now' = Now
  <2>1. /\ TypeOK /\ Now \in Nat \ {0} /\ opened \in Nat /\ total_size \in Nat
        /\ cursor \in Nat /\ \A v \in 1 .. Now : history[v] \in Nat
    BY HistoryTypes DEF IInv, TypeOK
  <2>2. run.version \in 1 .. Now
    BY <2>1
  <2> QED BY <2>1, <2>2 DEF Run, Now
<1>2. /\ got' = [version |-> run.version, from |-> cursor, length |-> n]
      /\ cursor' = cursor + n /\ error' = "none"
  BY DEF Deliver
<1>3. /\ got' = [version |-> run.version, from |-> cursor, length |-> n]
      /\ got' \in Run
  BY <1>1, <1>2 DEF Run
<1>4. /\ cursor' \in 0 .. total_size /\ buffer_start' \in 0 .. total_size /\ buffer' \in Run
  BY <1>1, <1>2 DEF TypeOK
<1>5. \A b \in {buffer', got'} : b.length > 0 =>
         b.version \in opened .. Now /\ b.from + b.length <= history[b.version]
  BY SMTT(30), <1>1, <1>3 DEF TypeOK
<1>6. TypeOK'
  BY <1>1, <1>2, <1>3, <1>4, <1>5 DEF TypeOK
<1>7. RightPlace' /\ OnlyIfShrank'
  BY <1>1, <1>2, <1>3 DEF RightPlace, OnlyIfShrank
<1>8. buffer'.length > 0 => buffer'.from = buffer_start'
  BY DEF IInv
<1> QED BY <1>1, <1>3, <1>6, <1>7, <1>8 DEF IInv

(* A call that hands out nothing and moves at most the cursor. *)
LEMMA Nothing ==
  ASSUME IInv, opened > 0, UNCHANGED <<history, opened, total_size, buffer, buffer_start>>,
         cursor' \in 0 .. total_size, got' = None,
         error' \in {"none", "unknown", "out_of_range", "beyond_size"},
         error' = "out_of_range" => history[Now] < total_size
  PROVE  IInv'
<1>1. TypeOK /\ Now' = Now /\ Now \in Nat \ {0} /\ opened \in 0 .. Now
  BY HistoryTypes DEF IInv, TypeOK, Now
<1>2. None \in Run /\ ~(None.length > 0)
  BY RunTypes
<1>3. TypeOK'
  BY <1>1, <1>2 DEF TypeOK
<1>4. RightPlace' /\ OnlyIfShrank'
  <2>1. Now \in opened .. Now
    BY <1>1
  <2> QED BY <1>1, <1>2, <2>1 DEF RightPlace, OnlyIfShrank
<1> QED BY <1>3, <1>4 DEF IInv

LEMMA WantedTypes ==
  ASSUME IInv, opened > 0, NEW n \in Nat \ {0}, cursor < total_size
  PROVE  /\ Wanted(n) \in Nat \ {0} /\ cursor + Wanted(n) <= total_size
         /\ Wanted(n) <= n
<1>1. n \in Nat /\ total_size - cursor \in Nat \ {0} /\ cursor \in Nat /\ total_size \in Nat
  BY DEF IInv, TypeOK
<1>2. Wanted(n) \in {n, total_size - cursor} /\ Wanted(n) <= total_size - cursor /\ Wanted(n) <= n
  BY <1>1, RunTypes DEF Wanted
<1> QED BY <1>1, <1>2

(* A hit is served by the run of the buffer that starts at the cursor.     *)
LEMMA ReadHitRun ==
  ASSUME IInv, NEW n \in Nat, ReadHit(n)
  PROVE  /\ IInv'
         /\ \E v \in opened .. Now :
              /\ cursor + Wanted(n) <= history[v]
              /\ got' = [version |-> v, from |-> cursor, length |-> Wanted(n)]
<1>1. /\ opened > 0 /\ n \in Nat \ {0} /\ cursor < total_size
      /\ cursor >= buffer_start /\ cursor + Wanted(n) <= buffer_start + buffer.length
      /\ Deliver(buffer.version, buffer.from + (cursor - buffer_start), Wanted(n))
      /\ UNCHANGED <<history, opened, total_size, buffer, buffer_start>>
  BY DEF ReadHit, AtEnd, Hit, IInv, TypeOK
<1>2. /\ buffer \in Run /\ cursor \in Nat /\ buffer_start \in Nat
      /\ buffer.version \in Nat /\ buffer.from \in Nat /\ buffer.length \in Nat
  BY DEF IInv, TypeOK, Run
<1> PICK w \in {Wanted(n)} : w = Wanted(n) /\ w \in Nat \ {0} /\ cursor + w <= total_size
  BY <1>1, WantedTypes
<1>3. buffer.length > 0
  <2>1. cursor + w <= buffer_start + buffer.length /\ cursor >= buffer_start
    BY <1>1
  <2>2. buffer.length \in Nat /\ buffer_start \in Nat /\ cursor \in Nat
    BY <1>2
  <2> QED BY <2>1, <2>2
<1>4. /\ buffer.from = buffer_start /\ buffer.version \in opened .. Now
      /\ buffer.from + buffer.length <= history[buffer.version]
  BY <1>3 DEF IInv, TypeOK
<1>5. PICK run \in {[version |-> buffer.version, from |-> cursor,
                     length |-> w]} :
        run = [version |-> buffer.version, from |-> cursor, length |-> w]
  OBVIOUS
<1>6. history[buffer.version] \in Nat
  <2>1. buffer.version \in 1 .. Now
    BY <1>1, <1>4, HistoryTypes DEF IInv, TypeOK
  <2> QED BY <2>1, HistoryTypes DEF IInv
<1>7. cursor + w <= history[buffer.version]
  BY <1>1, <1>2, <1>4, <1>6
<1>8. Deliver(run.version, run.from, w)
  <2>1. buffer.from + (cursor - buffer_start) = cursor
    BY <1>2, <1>4
  <2> QED BY <1>1, <1>5, <2>1
<1>9. run \in Run
  BY <1>2, <1>5 DEF Run
<1>10. IInv' /\ got' = [version |-> run.version, from |-> cursor, length |-> w]
  BY <1>1, <1>4, <1>5, <1>7, <1>8, <1>9, Delivered
<1> QED BY <1>4, <1>5, <1>7, <1>10

(* A miss is served by the response to a request that starts at the cursor.*)
LEMMA ReadMissRun ==
  ASSUME IInv, KeepsRange, NEW n \in Nat, ReadMiss(n)
  PROVE  /\ IInv'
         /\ \/ /\ history[Now] > cursor
               /\ got' = [version |-> Now, from |-> cursor,
                          length |-> Lesser(Wanted(n), history[Now] - cursor)]
               /\ cursor' = cursor + got'.length
            \/ got' = None /\ UNCHANGED cursor
<1>1. /\ opened > 0 /\ n \in Nat \ {0} /\ cursor < total_size
      /\ UNCHANGED <<history, opened, total_size>>
      /\ TypeOK /\ cursor \in Nat /\ total_size \in Nat /\ opened \in 0 .. Now
  BY DEF ReadMiss, AtEnd, IInv, TypeOK
<1> PICK w \in {Wanted(n)} : w = Wanted(n) /\ w \in Nat \ {0} /\ cursor + w <= total_size
  BY <1>1, WantedTypes
<1> PICK fetch \in {Lesser(Greater(w, BufferSize), total_size - cursor)} :
      fetch = Lesser(Greater(w, BufferSize), total_size - cursor)
  OBVIOUS
<1>2. fetch \in Nat /\ fetch >= w
  <2>1. Greater(w, BufferSize) \in Nat /\ Greater(w, BufferSize) >= w
    BY RunTypes, ReaderAssumption
  <2>2. total_size - cursor \in Nat /\ w <= total_size - cursor
    BY <1>1
  <2>3. fetch \in {Greater(w, BufferSize), total_size - cursor}
    BY <2>1, <2>2, RunTypes
  <2> QED BY <2>1, <2>2, <2>3
<1>3. PICK r \in Responses(cursor, fetch) :
        \/ /\ r.status \in {"206", "200"}
           /\ Deliver(r.body.version, r.body.from, Lesser(w, r.body.length))
           /\ IF Bypasses(r.body) THEN UNCHANGED <<buffer, buffer_start>>
              ELSE Refill(r.body)
        \/ /\ r.status \notin {"206", "200"}
           /\ Fails(IF r.status = "416" THEN "out_of_range" ELSE "unknown")
           /\ UNCHANGED <<cursor, buffer, buffer_start>>
  BY DEF ReadMiss, Available
<1> PICK size \in {history[Now]} : size = history[Now] /\ size \in Nat
  BY <1>1, HistoryTypes
<1>4. /\ r.status # "200"
      /\ r.body \in Run
      /\ r.status = "206" =>
           /\ cursor < size /\ r.body.version = Now /\ r.body.from = cursor
           /\ r.body.length = Lesser(fetch, size - cursor)
      /\ r.status = "416" => cursor >= size
  BY <1>1, <1>2, ResponseBody
<1>5. CASE r.status = "206"
  <2>1. PICK m \in {Lesser(w, r.body.length)} : m = Lesser(w, r.body.length)
    OBVIOUS
  <2>2. /\ r.body.length \in Nat \ {0} /\ size - cursor \in Nat \ {0}
        /\ cursor + r.body.length <= size
        /\ m = Lesser(w, size - cursor) /\ m \in Nat \ {0} /\ m <= r.body.length /\ m <= w
    BY <1>1, <1>2, <1>4, <1>5, <2>1 DEF Lesser
  <2>3. Deliver(r.body.version, r.body.from, m)
    BY <1>3, <1>5, <2>1
  <2>4. Now \in opened .. Now
    BY <1>1, HistoryTypes
  <2>5. IInv' /\ got' = [version |-> Now, from |-> cursor, length |-> m]
    <3>1. /\ r.body.version \in opened .. Now
          /\ r.body.from + r.body.length <= history[r.body.version]
      BY <1>4, <1>5, <2>2, <2>4
    <3>2. cursor + m <= total_size
      BY <1>1, <2>2
    <3>3. \/ UNCHANGED <<buffer, buffer_start>>
          \/ buffer' = r.body /\ buffer_start' = cursor
      BY <1>3, <1>5 DEF Refill
    <3> QED BY <1>1, <1>4, <1>5, <2>2, <2>3, <3>1, <3>2, <3>3, Delivered
  <2>6. cursor' = cursor + m
    BY <2>3 DEF Deliver
  <2> QED BY <1>1, <1>4, <1>5, <2>2, <2>5, <2>6
<1>6. CASE r.status # "206"
  <2>1. /\ got' = None /\ error' \in {"out_of_range", "unknown"}
        /\ error' = "out_of_range" => r.status = "416"
        /\ UNCHANGED <<cursor, buffer, buffer_start>>
    BY <1>3, <1>4, <1>6 DEF Fails
  <2>2. error' = "out_of_range" => size < total_size
    BY <1>1, <1>4, <2>1
  <2>3. cursor' \in 0 .. total_size
    BY <1>1, <2>1
  <2> QED BY <1>1, <2>1, <2>2, <2>3, Nothing
<1> QED BY <1>5, <1>6

LEMMA IInvNext == KeepsRange /\ IInv /\ [Next]_vars => IInv'
<1> SUFFICES ASSUME KeepsRange, IInv, [Next]_vars PROVE IInv'
  OBVIOUS
<1>1. ASSUME NEW n \in 0 .. MaxRead, ReadNothing(n) PROVE IInv'
  <2>1. /\ opened > 0 /\ got' = None /\ cursor' = cursor + 0 /\ error' = "none"
        /\ UNCHANGED <<history, opened, total_size, buffer, buffer_start>>
        /\ cursor \in 0 .. total_size
    BY <1>1 DEF ReadNothing, Deliver, IInv, TypeOK
  <2>2. cursor' \in 0 .. total_size
    BY <2>1
  <2> QED BY <2>1, <2>2, Nothing
<1>2. ASSUME NEW n \in 0 .. MaxRead, ReadHit(n) \/ ReadMiss(n) PROVE IInv'
  <2>1. n \in Nat
    BY <1>2, ReaderAssumption
  <2> QED BY <1>2, <2>1, ReadHitRun, ReadMissRun
<1>3. ASSUME NEW offset \in 0 .. total_size + 1, Seek(offset) PROVE IInv'
  <2>1. /\ opened > 0 /\ got' = None
        /\ UNCHANGED <<history, opened, total_size, buffer, buffer_start>>
        /\ error' \in {"beyond_size", "none"}
        /\ cursor \in 0 .. total_size /\ total_size \in Nat
        /\ cursor' = cursor \/ (cursor' = offset /\ ~(offset > total_size))
    BY <1>3 DEF Seek, Fails, IInv, TypeOK
  <2>2. cursor' \in 0 .. total_size
    BY <2>1
  <2> QED BY <2>1, <2>2, Nothing
<1>4. CASE UNCHANGED vars
  BY <1>4 DEF vars, reader, IInv, TypeOK, RightPlace, OnlyIfShrank, Now
<1> QED BY <1>1, <1>2, <1>3, <1>4, ReplaceInv, OpenInv DEF Next

LEMMA Invariance == ASSUME KeepsRange PROVE Spec => []IInv
BY IInvInit, IInvNext, PTL DEF Spec

(* Every field of the reader stays in range, whatever becomes of the object.*)
THEOREM TypeCorrect == ASSUME KeepsRange PROVE Spec => []TypeOK
<1>1. IInv => TypeOK
  BY DEF IInv
<1> QED BY <1>1, Invariance, PTL

(* Reads deliver what stands at the cursor, however the object changes.    *)
THEOREM RightPlaceHolds == ASSUME KeepsRange PROVE Spec => []RightPlace
<1>1. IInv => RightPlace
  BY DEF IInv
<1> QED BY <1>1, Invariance, PTL

(* A read is out of range only once the object shrank.                     *)
THEOREM OnlyIfShrankHolds == ASSUME KeepsRange PROVE Spec => []OnlyIfShrank
<1>1. IInv => OnlyIfShrank
  BY DEF IInv
<1> QED BY <1>1, Invariance, PTL

(* Reads wider than the buffer leave it alone.                             *)
THEOREM HeaderKeptHolds == ASSUME KeepsRange PROVE Spec => HeaderKept
<1>1. IInv /\ [Next]_vars =>
        [got'.length > BufferSize => UNCHANGED <<buffer, buffer_start>>]_vars
  <2> SUFFICES ASSUME IInv, Next, got'.length > BufferSize
               PROVE  UNCHANGED <<buffer, buffer_start>>
    OBVIOUS
  <2>1. /\ None.length = 0 /\ BufferSize \in Nat \ {0} /\ got' # None
    BY RunTypes, ReaderAssumption
  <2>2. CASE Replace
    BY <2>2 DEF Replace, reader
  <2>3. CASE Open
    <3>1. got' = None \/ UNCHANGED reader
      BY <2>3 DEF Open
    <3> QED BY <2>1, <3>1 DEF reader
  <2>4. ASSUME NEW n \in 0 .. MaxRead, ReadNothing(n) \/ ReadHit(n)
        PROVE  UNCHANGED <<buffer, buffer_start>>
    BY <2>4 DEF ReadNothing, ReadHit
  <2>5. ASSUME NEW n \in 0 .. MaxRead, ReadMiss(n)
        PROVE  UNCHANGED <<buffer, buffer_start>>
    <3>1. PICK r \in Responses(cursor, Lesser(Greater(Wanted(n), BufferSize), total_size - cursor)) :
            \/ /\ Deliver(r.body.version, r.body.from, Lesser(Wanted(n), r.body.length))
               /\ IF Bypasses(r.body) THEN UNCHANGED <<buffer, buffer_start>>
                  ELSE Refill(r.body)
            \/ UNCHANGED <<buffer, buffer_start>>
      BY <2>5 DEF ReadMiss, Available
    <3>2. SUFFICES ASSUME Deliver(r.body.version, r.body.from, Lesser(Wanted(n), r.body.length))
                   PROVE  Bypasses(r.body)
      BY <3>1
    <3>3. got'.length = Lesser(Wanted(n), r.body.length)
      BY <2>1, <3>2 DEF Deliver
    <3>4. cursor \in Nat /\ total_size \in Nat /\ opened > 0 /\ n \in Nat \ {0}
          /\ cursor < total_size
      BY <2>5, ReaderAssumption DEF ReadMiss, AtEnd, IInv, TypeOK
    <3>5. Wanted(n) \in Nat
      BY <3>4, WantedTypes
    <3>6. Lesser(Greater(Wanted(n), BufferSize), total_size - cursor) \in Nat
      <4>1. Greater(Wanted(n), BufferSize) \in Nat /\ total_size - cursor \in Nat
        BY <2>1, <3>4, <3>5, RunTypes
      <4> QED BY <4>1, RunTypes
    <3>7. r.body.length \in Nat
      <4>1. r.body \in Run
        BY <3>4, <3>6, ResponseBody DEF IInv
      <4> QED BY <4>1 DEF Run
    <3>8. r.body.length > BufferSize
      BY <2>1, <3>3, <3>5, <3>7, RunTypes
    <3> QED BY <3>8 DEF Bypasses
  <2>6. ASSUME NEW offset \in 0 .. total_size + 1, Seek(offset)
        PROVE  UNCHANGED <<buffer, buffer_start>>
    BY <2>6 DEF Seek
  <2> QED BY <2>2, <2>3, <2>4, <2>5, <2>6 DEF Next
<1> QED BY <1>1, Invariance, PTL DEF Spec, HeaderKept

------------------------------------------------------------------------------
(* The reader implements the cursor.                                       *)

Seen == {[version |-> v, length |-> history[v]] :
           v \in (IF opened = 0 THEN Now ELSE opened) .. Now}
Object(v) == [version |-> v, length |-> history[v]]
CursorVars == <<opened > 0, Seen, total_size, cursor, got>>

LEMMA CursorInit == Init => Cursor!Init
<1> SUFFICES ASSUME Init PROVE Cursor!Init
  OBVIOUS
<1>1. PICK n \in Lengths : history = <<n>>
  BY DEF Init
<1>2. Now = 1 /\ 1 \in 1 .. MaxVersions /\ opened = 0 /\ total_size = 0 /\ cursor = 0
      /\ got = None
  BY <1>1, ReaderAssumption DEF Now, Init
<1>3. Seen = {[version |-> 1, length |-> n]}
  BY <1>1, <1>2 DEF Seen
<1>4. [version |-> 1, length |-> n] \in [version: 1 .. MaxVersions, length: Lengths]
  BY <1>2
<1>5. (opened > 0) = FALSE
  BY <1>2
<1>6. \E v \in [version: 1 .. MaxVersions, length: Lengths] : Seen = {v}
  BY <1>3, <1>4
<1> QED BY <1>2, <1>5, <1>6, Zenon DEF Cursor!Init, Seen, Cursor!None, None

LEMMA CursorNext ==
  ASSUME KeepsRange, IInv, [Next]_vars
  PROVE  Cursor!Next \/ UNCHANGED CursorVars
<1>1. /\ TypeOK /\ Now \in Nat \ {0} /\ opened \in 0 .. Now /\ cursor \in Nat
      /\ total_size \in Nat /\ cursor <= total_size
  BY HistoryTypes DEF IInv, TypeOK
<1>2. CASE Replace
  <2>1. PICK n \in Lengths : history' = Append(history, n)
    BY <1>2 DEF Replace
  <2>2. /\ Now < MaxVersions /\ UNCHANGED <<opened, total_size, cursor, got>>
    BY <1>2 DEF Replace, reader
  <2>3. /\ Now' = Now + 1 /\ history'[Now + 1] = n
        /\ \A v \in 1 .. Now : history'[v] = history[v]
    BY <1>1, <2>1 DEF Now, TypeOK
  <2> PICK object \in {[version |-> Now + 1, length |-> n]} :
        object = [version |-> Now + 1, length |-> n]
    OBVIOUS
  <2>4. object \in [version: 1 .. MaxVersions, length: Lengths]
    <3>1. Now + 1 \in 1 .. MaxVersions
      BY <1>1, <2>2, ReaderAssumption
    <3> QED BY <3>1
  <2>5. CASE opened = 0
    <3>1. Seen' = {object}
      BY <1>1, <2>2, <2>3, <2>5 DEF Seen
    <3>2. Cursor!Replace(object)
      BY <2>2, <2>5, <3>1 DEF Cursor!Replace, Seen
    <3> QED BY <2>4, <3>2 DEF Cursor!Next
  <2>6. CASE opened # 0
    <3>1. Seen' = Seen \union {object}
      BY <1>1, <2>2, <2>3, <2>6 DEF Seen
    <3>2. Cursor!Replace(object)
      BY <1>1, <2>2, <2>6, <3>1 DEF Cursor!Replace, Seen
    <3> QED BY <2>4, <3>2 DEF Cursor!Next
  <2> QED BY <2>5, <2>6
<1> PICK object \in {Object(Now)} : object = [version |-> Now, length |-> history[Now]]
  BY DEF Object
<1>3. CASE Open
  <2>1. opened = 0 /\ UNCHANGED history /\ Now' = Now /\ got = None
    BY <1>3 DEF Open, IInv, Now
  <2>2. opened' = Now \/ UNCHANGED <<reader, got>>
    BY <1>3, <2>1 DEF Open, Fails
  <2>3. CASE opened' = Now
    <3>1. IInv'
      BY <1>3, OpenInv
    <3>2. /\ opened' > 0 /\ total_size' = history[Now] /\ cursor' = 0 /\ got' = None
      <4>1. opened' > 0 /\ total_size' = history[Now]
        BY <1>1, <2>1, <2>3, <3>1 DEF IInv
      <4>2. opened # Now
        BY <1>1, <2>1
      <4>3. got' = None /\ UNCHANGED cursor
        BY <1>3, <2>3, <4>2 DEF Open, reader
      <4> QED BY <1>1, <2>1, <4>1, <4>3 DEF IInv, TypeOK
    <3>3. Seen = {object} /\ Seen' = {object}
      BY <1>1, <2>1, <2>3, <3>2 DEF Seen
    <3>4. /\ ~(opened > 0) /\ (opened' > 0) = TRUE /\ object \in Seen
          /\ total_size' = object.length /\ Seen' = Seen
      BY <1>1, <2>1, <3>2, <3>3
    <3>5. Cursor!Open
      BY <3>2, <3>4 DEF Cursor!Open, Seen, Cursor!None, None
    <3> QED BY <3>5 DEF Cursor!Next
  <2>4. CASE UNCHANGED <<reader, got>>
    BY <2>1, <2>4 DEF reader, CursorVars, Seen
  <2> QED BY <2>2, <2>3, <2>4
<1>4. ASSUME NEW n \in 0 .. MaxRead, ReadNothing(n) PROVE Cursor!Next
  <2>1. /\ opened > 0 /\ got' = None /\ cursor' = cursor
        /\ UNCHANGED <<history, opened, total_size>> /\ (n = 0 \/ cursor >= total_size)
        /\ n \in Nat
    BY <1>1, <1>4, ReaderAssumption DEF ReadNothing, AtEnd, Deliver
  <2>2. Cursor!Lesser(n, total_size - cursor) = 0
    BY <1>1, <2>1 DEF Cursor!Lesser
  <2>3. UNCHANGED <<opened > 0, Seen, total_size>>
    BY <2>1 DEF Seen, Now
  <2>4. Cursor!Read(n)
    BY <2>1, <2>2, <2>3 DEF Cursor!Read, Seen, Cursor!None, None
  <2> QED BY <2>4 DEF Cursor!Next
<1>5. ASSUME NEW n \in 0 .. MaxRead, ReadHit(n) \/ ReadMiss(n) PROVE Cursor!Next
  <2>1. /\ opened > 0 /\ UNCHANGED <<history, opened, total_size>>
        /\ n \in Nat \ {0} /\ cursor < total_size
    BY <1>1, <1>5, ReaderAssumption DEF ReadHit, ReadMiss, AtEnd
  <2>2. UNCHANGED <<opened > 0, Seen, total_size>>
    BY <2>1 DEF Seen, Now
  <2> PICK w \in {Wanted(n)} : w = Wanted(n) /\ w \in Nat \ {0}
    BY <2>1, WantedTypes
  <2>3. Cursor!Lesser(n, total_size - cursor) = w
    BY DEF Cursor!Lesser, Wanted, Lesser
  <2>4. \/ got' = None /\ UNCHANGED cursor
        \/ \E v \in opened .. Now :
             /\ history[v] > cursor
             /\ got' = [version |-> v, from |-> cursor,
                        length |-> Lesser(w, history[v] - cursor)]
             /\ cursor' = cursor + got'.length
    <3>1. CASE ReadMiss(n)
      <4>1. Now \in opened .. Now
        BY <1>1
      <4> QED BY <2>1, <3>1, <4>1, ReadMissRun
    <3>2. CASE ReadHit(n)
      <4>1. PICK v \in opened .. Now :
              /\ cursor + w <= history[v]
              /\ got' = [version |-> v, from |-> cursor, length |-> w]
        BY <2>1, <3>2, ReadHitRun
      <4>2. cursor' = cursor + w
        BY <3>2 DEF ReadHit, Deliver
      <4>3. history[v] \in Nat
        <5>1. v \in 1 .. Now
          BY <1>1, <2>1
        <5> QED BY <1>1, <5>1, HistoryTypes
      <4>4. history[v] > cursor /\ Lesser(w, history[v] - cursor) = w
        BY <1>1, <4>1, <4>3 DEF Lesser
      <4> QED BY <4>1, <4>2, <4>4
    <3> QED BY <1>5, <3>1, <3>2
  <2>5. CASE got' = None /\ UNCHANGED cursor
    <3>1. Cursor!Fail
      BY <2>2, <2>5 DEF Cursor!Fail, Seen, Cursor!None, None
    <3> QED BY <3>1 DEF Cursor!Next
  <2>6. ASSUME NEW v \in opened .. Now, history[v] > cursor,
               got' = [version |-> v, from |-> cursor,
                       length |-> Lesser(w, history[v] - cursor)],
               cursor' = cursor + got'.length
        PROVE  Cursor!Next
    <3>1. PICK o \in {Object(v)} : /\ o = Object(v) /\ o.version = v /\ o.length = history[v]
      BY DEF Object
    <3>2. o \in Seen
      BY <2>1, <3>1 DEF Seen, Object
    <3>3. /\ o.length > cursor
          /\ got' = [version |-> o.version, from |-> cursor,
                     length |-> Cursor!Lesser(w, o.length - cursor)]
          /\ cursor' = cursor + got'.length
      BY <2>6, <3>1 DEF Cursor!Lesser, Lesser
    <3>4. Cursor!Read(n)
      BY <2>1, <2>2, <2>3, <3>2, <3>3 DEF Cursor!Read, Seen
    <3> QED BY <3>4 DEF Cursor!Next
  <2> QED BY <2>4, <2>5, <2>6
<1>6. ASSUME NEW offset \in 0 .. total_size + 1, Seek(offset) PROVE Cursor!Next
  <2>1. /\ opened > 0 /\ got' = None /\ UNCHANGED <<history, opened, total_size>>
        /\ cursor' = cursor \/ (cursor' = offset /\ ~(offset > total_size))
    BY <1>6 DEF Seek, Fails
  <2>2. UNCHANGED <<opened > 0, Seen, total_size>>
    BY <2>1 DEF Seen, Now
  <2>3. cursor' \in 0 .. total_size
    BY <1>1, <2>1
  <2>4. PICK o \in 0 .. total_size : cursor' = o
    BY <2>3
  <2>5. Cursor!Seek(o)
    BY <2>1, <2>2, <2>4 DEF Cursor!Seek, Seen, Cursor!None, None
  <2> QED BY <2>5 DEF Cursor!Next
<1>7. CASE UNCHANGED vars
  BY <1>7 DEF vars, reader, CursorVars, Seen, Now
<1> QED BY <1>2, <1>3, <1>4, <1>5, <1>6, <1>7 DEF Next

(* Whatever reads through the trait sees a cursor over the object, and may *)
(* see another version of it from one read to the next, never within one.  *)
THEOREM Refinement == ASSUME KeepsRange PROVE Spec => ImplementsByteCursor
<1>1. KeepsRange /\ IInv /\ [Next]_vars => [Cursor!Next]_CursorVars
  BY CursorNext
<1>2. [Cursor!Next]_CursorVars => [Cursor!Next]_(Cursor!vars)
  BY DEF CursorVars, Seen, Cursor!vars
<1> QED
  BY <1>1, <1>2, CursorInit, Invariance, PTL DEF Spec, ImplementsByteCursor, Cursor!Spec
=============================================================================
