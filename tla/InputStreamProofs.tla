-------------------------- MODULE InputStreamProofs --------------------------
(***************************************************************************)
(* For any clients, sizes and buffer, whether connections end early or the *)
(* length arrives in pieces: the length counts exactly what is left, and a *)
(* snippet is queued whole and once.                                       *)
(***************************************************************************)
EXTENDS InputStream, TLAPS

(* Appending to a sequence without repetitions.                            *)
LEMMA Appended ==
  ASSUME NEW S, NEW q \in Seq(S), NEW e \in S
  PROVE  /\ Append(q, e) \in Seq(S)
         /\ Range(Append(q, e)) = Range(q) \cup {e}
         /\ IsInjective(q) /\ e \notin Range(q) => IsInjective(Append(q, e))
<1>1. /\ Append(q, e) \in Seq(S) /\ DOMAIN Append(q, e) = 1 .. Len(q) + 1 /\ DOMAIN q = 1 .. Len(q)
      /\ Append(q, e)[Len(q) + 1] = e /\ \A i \in 1 .. Len(q) : Append(q, e)[i] = q[i]
      /\ Len(q) \in Nat
  OBVIOUS
<1>2. 1 .. Len(q) + 1 = 1 .. Len(q) \cup {Len(q) + 1}
  BY <1>1
<1>3. Range(Append(q, e)) = Range(q) \cup {e}
  BY <1>1, <1>2 DEF Range
<1>4. IsInjective(q) /\ e \notin Range(q) => IsInjective(Append(q, e))
  BY <1>1, <1>2 DEF Range, IsInjective
<1> QED
  BY <1>1, <1>3, <1>4

(* Taking the head off a sequence without repetitions.                     *)
LEMMA HeadTail ==
  ASSUME NEW S, NEW q \in Seq(S), q # <<>>
  PROVE  /\ Head(q) \in S /\ Tail(q) \in Seq(S)
         /\ Head(q) \in Range(q) /\ Range(Tail(q)) \subseteq Range(q)
         /\ IsInjective(q) => IsInjective(Tail(q)) /\ Head(q) \notin Range(Tail(q))
<1>1. /\ Head(q) \in S /\ Tail(q) \in Seq(S) /\ Head(q) = q[1] /\ Len(q) \in Nat /\ Len(q) >= 1
      /\ DOMAIN q = 1 .. Len(q) /\ DOMAIN Tail(q) = 1 .. Len(q) - 1
      /\ \A i \in 1 .. Len(q) - 1 : Tail(q)[i] = q[i + 1]
  OBVIOUS
<1>2. \A i \in 1 .. Len(q) - 1 : i + 1 \in 1 .. Len(q) /\ i + 1 # 1
  BY <1>1
<1>3. Head(q) \in Range(q) /\ Range(Tail(q)) \subseteq Range(q)
  BY <1>1, <1>2 DEF Range
<1>4. ASSUME IsInjective(q) PROVE IsInjective(Tail(q)) /\ Head(q) \notin Range(Tail(q))
  <2>1. \A i, j \in 1 .. Len(q) : q[i] = q[j] => i = j
    BY <1>1, <1>4 DEF IsInjective
  <2>2. \A i, j \in 1 .. Len(q) - 1 : Tail(q)[i] = Tail(q)[j] => i + 1 = j + 1
    BY <1>1, <1>2, <2>1
  <2>3. \A i, j \in 1 .. Len(q) - 1 : Tail(q)[i] = Tail(q)[j] => i = j
    BY <1>1, <2>2
  <2>4. 1 \in 1 .. Len(q)
    BY <1>1
  <2>5. Head(q) \notin Range(Tail(q))
    BY <1>1, <1>2, <2>1, <2>4 DEF Range
  <2> QED
    BY <1>1, <2>3, <2>5 DEF IsInjective
<1> QED
  BY <1>1, <1>3, <1>4

(* The sizes are positive and count below the modulus.                     *)
LEMMA Sizes ==
  /\ HeaderBytes \in Nat /\ HeaderBytes > 0 /\ BUFFER_SIZE \in Nat /\ BUFFER_SIZE > 1
  /\ SizeMod \in Nat /\ SizeMod > 0 /\ MaxFaults \in Nat /\ NoClient \notin Clients
  /\ \A c \in Clients : Size[c] \in 1 .. SizeMod - 1 /\ Size[c] \in Nat /\ Size[c] > 0
  /\ \A c \in Clients : Total(c) \in Nat /\ Total(c) = HeaderBytes + Size[c]
  BY InputAssumption DEF NoClient, Total

(* The initial state.                                                      *)
LEMMA InitInputInv == Init => InputInv
<1> SUFFICES ASSUME Init PROVE InputInv
  OBVIOUS
<1>1. Range(<<>>) = {} /\ IsInjective(<<>>)
  BY DEF Range, IsInjective
<1>2. TypeOK
  BY Sizes, InputAssumption DEF Init, TypeOK
<1> QED
  BY <1>1, <1>2, Sizes DEF Init, InputInv, LengthIsTheRest, AcceptedOnce, QueuedWhole, Queued

(* What the clients do leaves what has been read as it is.                 *)
LEMMA ClientKeepsInv ==
  ASSUME InputInv, NEW c \in Clients, Connect(c) \/ Arrive(c) \/ EndEarly(c)
  PROVE  InputInv'
<1> USE Sizes DEF InputInv, serverVars
<1>0. UNCHANGED serverVars /\ taken' = taken
  BY DEF Connect, Arrive, EndEarly
<1>1. LengthIsTheRest' /\ QueuedWhole'
  BY <1>0 DEF LengthIsTheRest, QueuedWhole, Queued, Total
<1>2. CASE Connect(c)
  <2>1. backlog \in Seq(Clients) /\ conn \in [Clients -> {"none", "open", "closed", "reset"}]
    BY DEF TypeOK
  <2>2. conn[c] = "none" /\ conn' = [conn EXCEPT ![c] = "open"] /\ backlog' = Append(backlog, c)
    BY <1>2 DEF Connect
  <2>3. IsInjective(backlog) /\ c \notin Range(backlog) /\ c # client_fd /\ taken[c] = 0
    BY <2>2 DEF AcceptedOnce
  <2>4. backlog' \in Seq(Clients) /\ Range(backlog') = Range(backlog) \cup {c} /\ IsInjective(backlog')
    BY <2>1, <2>2, <2>3, Appended
  <2>5. TypeOK'
    BY <1>0, <1>2, <2>1, <2>2, <2>4 DEF TypeOK, Connect, Total
  <2>6. \A d \in Clients : conn'[d] = "none" => d # c /\ conn[d] = "none"
    BY <2>1, <2>2
  <2>7. AcceptedOnce'
    BY <1>0, <2>3, <2>4, <2>6 DEF AcceptedOnce, Queued
  <2> QED
    BY <1>1, <2>5, <2>7
<1>3. CASE Arrive(c)
  <2>1. PICK n \in 1 .. Total(c) - stream[c] : stream' = [stream EXCEPT ![c] = @ + n]
    BY <1>3 DEF Arrive
  <2>2. stream \in [Clients -> Nat] /\ taken \in [Clients -> Nat]
    BY DEF TypeOK
  <2>3. \A d \in Clients : taken[d] <= stream[d] /\ stream[d] <= Total(d)
    BY DEF TypeOK
  <2>4. stream[c] + n \in Nat /\ taken[c] <= stream[c] + n /\ stream[c] + n <= Total(c)
    BY <2>1, <2>2, <2>3
  <2>5. stream' \in [Clients -> Nat] /\ \A d \in Clients : taken[d] <= stream'[d] /\ stream'[d] <= Total(d)
    BY <2>1, <2>2, <2>3, <2>4
  <2>6. TypeOK' /\ AcceptedOnce'
    BY <1>0, <1>3, <2>5 DEF Arrive, TypeOK, AcceptedOnce, Total, Queued
  <2> QED
    BY <1>1, <2>6
<1>4. CASE EndEarly(c)
  <2>1. PICK end \in {"closed", "reset"} : conn' = [conn EXCEPT ![c] = end]
    BY <1>4 DEF EndEarly
  <2>2. conn \in [Clients -> {"none", "open", "closed", "reset"}] /\ faults \in 0 .. MaxFaults
    BY DEF TypeOK
  <2>3. faults' \in 0 .. MaxFaults /\ backlog' = backlog /\ stream' = stream
    BY <1>4, <2>2 DEF EndEarly
  <2>4. conn' \in [Clients -> {"none", "open", "closed", "reset"}] /\ \A d \in Clients : conn'[d] = "none" => conn[d] = "none"
    BY <2>1, <2>2
  <2>5. TypeOK' /\ AcceptedOnce'
    BY <1>0, <2>3, <2>4 DEF TypeOK, AcceptedOnce, Total, Queued
  <2> QED
    BY <1>1, <2>5
<1> QED
  BY <1>2, <1>3, <1>4

(* A connection is taken off the backlog unread.                           *)
LEMMA AcceptKeepsInv == ASSUME InputInv, accept PROVE InputInv'
<1> USE Sizes DEF InputInv, clientVars
<1>1. backlog \in Seq(Clients) /\ backlog # <<>> /\ IsInjective(backlog)
  BY DEF TypeOK, AcceptedOnce, accept
<1>2. /\ Head(backlog) \in Clients /\ Tail(backlog) \in Seq(Clients) /\ Head(backlog) \in Range(backlog)
      /\ Range(Tail(backlog)) \subseteq Range(backlog)
      /\ IsInjective(Tail(backlog)) /\ Head(backlog) \notin Range(Tail(backlog))
  BY <1>1, HeadTail
<1>3. client_fd' = Head(backlog) /\ backlog' = Tail(backlog) /\ pc' = "header"
      /\ UNCHANGED <<clientVars, taken, length, json, header, scan_queue, worker_queue>>
  BY DEF accept
<1>4. taken[Head(backlog)] = 0 /\ conn[Head(backlog)] # "none"
  BY <1>2 DEF AcceptedOnce
<1>5. ~ Queued(Head(backlog))
  <2>1. ASSUME NEW c \in Clients, taken[c] = 0 PROVE ~ Queued(c)
    <3>1. Queued(c) => taken[c] = Total(c)
      BY DEF QueuedWhole
    <3> QED
      BY <2>1, <3>1
  <2> QED
    BY <1>2, <1>4, <2>1
<1>6. TypeOK'
  BY <1>2, <1>3 DEF TypeOK, Total
<1>7. QueuedWhole' /\ LengthIsTheRest'
  BY <1>3 DEF QueuedWhole, LengthIsTheRest, Queued, Total
<1>8. AcceptedOnce'
  BY <1>2, <1>3, <1>4, <1>5 DEF AcceptedOnce, Queued
<1> QED
  BY <1>6, <1>7, <1>8

(* The length is read.                                                     *)
LEMMA LengthKeepsInv == ASSUME InputInv, ReadLength \/ ReadLengthError PROVE InputInv'
<1> USE Sizes DEF InputInv, clientVars
<1>1. pc = "header" /\ client_fd \in Clients /\ taken[client_fd] = 0 /\ ~ Queued(client_fd)
  BY DEF TypeOK, AcceptedOnce, ReadLength, ReadLengthError
<1>2. stream \in [Clients -> Nat] /\ taken \in [Clients -> Nat]
  BY DEF TypeOK
<1>3. stream[client_fd] \in Nat /\ stream[client_fd] <= Total(client_fd)
  BY <1>1, <1>2 DEF TypeOK
<1>4. CASE ReadLength
  <2> DEFINE avail == Available(client_fd)
             n == IF avail < HeaderBytes THEN avail ELSE HeaderBytes
  <2>1. avail = stream[client_fd]
    BY <1>1, <1>3 DEF Available
  <2>2. n \in Nat /\ n <= HeaderBytes /\ n <= stream[client_fd]
    BY <1>3, <2>1
  <2>3. /\ n = HeaderBytes => length' = Size[client_fd]
        /\ n # HeaderBytes => length' \in 0 .. SizeMod - 1
        /\ taken' = [taken EXCEPT ![client_fd] = @ + n]
        /\ header' = n /\ json' = 0 /\ pc' = "body"
        /\ UNCHANGED <<backlog, clientVars, client_fd, scan_queue, worker_queue>>
    BY <1>4 DEF ReadLength
  <2>4. taken'[client_fd] = n /\ taken' \in [Clients -> Nat] /\ \A d \in Clients \ {client_fd} : taken'[d] = taken[d]
    BY <1>1, <1>2, <2>2, <2>3
  <2> HIDE DEF n, avail
  <2>5. length' \in 0 .. SizeMod - 1 /\ header' \in 0 .. HeaderBytes
    BY <1>1, <2>2, <2>3
  <2>6. \A d \in Clients : taken'[d] <= stream[d] /\ stream[d] <= Total(d)
    BY <1>2, <2>2, <2>4 DEF TypeOK
  <2>7. TypeOK'
    BY <1>1, <2>3, <2>4, <2>5, <2>6 DEF TypeOK, Total
  <2>8. LengthIsTheRest'
    BY <1>1, <2>2, <2>3, <2>4 DEF LengthIsTheRest
  <2>9. AcceptedOnce'
    BY <1>1, <2>3, <2>4 DEF AcceptedOnce, Queued
  <2>10. QueuedWhole'
    BY <1>1, <2>3, <2>4 DEF QueuedWhole, Queued, Total
  <2> QED
    BY <2>7, <2>8, <2>9, <2>10
<1>5. CASE ReadLengthError
  <2>1. conn \in [Clients -> {"none", "open", "closed", "reset"}] /\ conn[client_fd] # "none"
    BY <1>1 DEF TypeOK, AcceptedOnce
  <2>2. /\ conn' = [conn EXCEPT ![client_fd] = "closed"]
        /\ length' \in 0 .. SizeMod - 1 /\ header' = 0 /\ json' = 0 /\ pc' = "body"
        /\ UNCHANGED <<backlog, stream, taken, faults, client_fd, scan_queue, worker_queue>>
    BY <1>5 DEF ReadLengthError
  <2>3. /\ conn' \in [Clients -> {"none", "open", "closed", "reset"}]
        /\ \A d \in Clients : conn'[d] = "none" => conn[d] = "none"
    BY <1>1, <2>1, <2>2
  <2>4. TypeOK'
    <3>1. 0 \in 0 .. HeaderBytes /\ 0 \in Nat
      OBVIOUS
    <3> QED
      BY <1>1, <2>2, <2>3, <3>1 DEF TypeOK, Total
  <2>5. QueuedWhole'
    BY <2>2 DEF QueuedWhole, Queued, Total
  <2>6. LengthIsTheRest' /\ AcceptedOnce'
    <3>1. 0 # HeaderBytes
      OBVIOUS
    <3>2. LengthIsTheRest'
      BY <2>2, <3>1 DEF LengthIsTheRest
    <3>3. AcceptedOnce'
      BY <1>1, <2>2, <2>3 DEF AcceptedOnce, Queued
    <3> QED
      BY <3>2, <3>3
  <2> QED
    BY <2>4, <2>5, <2>6
<1> QED
  BY <1>4, <1>5

(* A read takes no more than is left, so that the subtraction cannot wrap. *)
LEMMA BodyKeepsInv == ASSUME InputInv, ReadBody PROVE InputInv'
<1> USE Sizes DEF InputInv, clientVars
<1> DEFINE avail == Available(client_fd)
           n == IF avail < BUFFER_SIZE - 1 THEN avail ELSE BUFFER_SIZE - 1
<1>1. pc = "body" /\ client_fd \in Clients /\ avail > 0
  BY DEF TypeOK, ReadBody
<1>2. /\ taken \in [Clients -> Nat] /\ stream \in [Clients -> Nat] /\ json \in Nat /\ length \in 0 .. SizeMod - 1
      /\ header \in 0 .. HeaderBytes
  BY DEF TypeOK
<1>3. /\ taken[client_fd] \in Nat /\ stream[client_fd] \in Nat
      /\ taken[client_fd] <= stream[client_fd] /\ stream[client_fd] <= Total(client_fd)
  BY <1>1, <1>2 DEF TypeOK
<1>4. n \in Nat /\ n > 0 /\ taken[client_fd] + n <= stream[client_fd]
  BY <1>1, <1>3 DEF Available
<1>5. /\ length' = (length - n) % SizeMod /\ json' = json + n
      /\ taken' = [taken EXCEPT ![client_fd] = @ + n]
      /\ pc' = IF length' = 0 THEN "parse" ELSE "body"
      /\ UNCHANGED <<backlog, clientVars, client_fd, header, scan_queue, worker_queue>>
  BY DEF ReadBody
<1> HIDE DEF n, avail
<1>6. /\ taken'[client_fd] = taken[client_fd] + n /\ taken' \in [Clients -> Nat]
      /\ \A d \in Clients \ {client_fd} : taken'[d] = taken[d]
  BY <1>1, <1>2, <1>3, <1>4, <1>5
<1>7. ASSUME NEW k \in Int PROVE k % SizeMod \in 0 .. SizeMod - 1
  OBVIOUS
<1>8. length' \in 0 .. SizeMod - 1 /\ json' \in Nat
  BY <1>2, <1>4, <1>5, <1>7
<1>9. TypeOK'
  <2>1. \A d \in Clients : taken'[d] <= stream[d] /\ stream[d] <= Total(d)
    BY <1>3, <1>4, <1>6 DEF TypeOK
  <2> QED
    BY <1>1, <1>5, <1>6, <1>8, <2>1 DEF TypeOK, Total
<1>10. LengthIsTheRest'
  <2>1. SUFFICES ASSUME header = HeaderBytes
                 PROVE  length' + json' = Size[client_fd] /\ taken'[client_fd] = HeaderBytes + json'
    BY <1>5, <1>8 DEF LengthIsTheRest
  <2>2. length + json = Size[client_fd] /\ taken[client_fd] = HeaderBytes + json
    BY <1>1, <2>1 DEF LengthIsTheRest
  <2>3. n <= length
    BY <1>1, <1>2, <1>3, <1>4, <2>2
  <2>4. ASSUME NEW k \in 0 .. SizeMod - 1 PROVE k % SizeMod = k
    OBVIOUS
  <2>5. length' = length - n
    BY <1>2, <1>4, <1>5, <2>3, <2>4
  <2> QED
    BY <1>1, <1>2, <1>4, <1>5, <1>6, <2>2, <2>5
<1>11. AcceptedOnce'
  <2>1. client_fd \notin Range(backlog) /\ conn[client_fd] # "none" /\ ~ Queued(client_fd)
    BY <1>1 DEF AcceptedOnce
  <2>2. pc' # "header"
    BY <1>5
  <2> QED
    BY <1>1, <1>5, <1>6, <2>1, <2>2 DEF AcceptedOnce, Queued
<1>12. QueuedWhole'
  <2>1. ~ Queued(client_fd)
    BY <1>1 DEF AcceptedOnce
  <2> QED
    BY <1>1, <1>5, <1>6, <2>1 DEF QueuedWhole, Queued, Total
<1> QED
  BY <1>9, <1>10, <1>11, <1>12

(* The connection has ended.                                               *)
LEMMA EndKeepsInv == ASSUME InputInv, ReadEnd \/ ReadError PROVE InputInv'
<1> USE Sizes DEF InputInv, clientVars
<1>1. pc = "body" /\ client_fd \in Clients
  BY DEF TypeOK, ReadEnd, ReadError
<1>2. UNCHANGED <<backlog, conn, stream, faults, taken, client_fd, length, json, header, scan_queue, worker_queue>>
  BY DEF ReadEnd, ReadError
<1>3. pc' \in {"body", "exited"} \/ (pc' = "parse" /\ length = 0)
  BY DEF ReadEnd, ReadError
<1>4. TypeOK'
  BY <1>1, <1>2, <1>3 DEF TypeOK, Total
<1>5. LengthIsTheRest'
  BY <1>1, <1>2, <1>3 DEF LengthIsTheRest
<1>6. AcceptedOnce' /\ QueuedWhole'
  BY <1>1, <1>2, <1>3 DEF AcceptedOnce, QueuedWhole, Queued, Total
<1> QED
  BY <1>4, <1>5, <1>6

(* What is queued is whole and new.                                        *)
LEMMA ParseKeepsInv == ASSUME InputInv, parse_snippet PROVE InputInv'
<1> USE Sizes DEF InputInv, clientVars
<1> DEFINE c == client_fd
           e == [client |-> c, type |-> IF Kind[c] = "block" THEN "as sent" ELSE "SST_FILE_SCAN"]
           Entries == [client : Clients, type : {"as sent", "SST_FILE_SCAN"}]
<1>1. pc = "parse" /\ c \in Clients /\ ~ Queued(c)
  BY DEF TypeOK, AcceptedOnce, parse_snippet
<1>2. /\ pc' \in {"accept", "exited"} /\ client_fd' = NoClient
      /\ UNCHANGED <<backlog, conn, stream, faults, taken, length, json, header>>
  BY DEF parse_snippet
<1>3. \/ UNCHANGED <<scan_queue, worker_queue>>
      \/ Whole /\ Kind[c] = "tmax" /\ worker_queue' = Append(worker_queue, c) /\ scan_queue' = scan_queue
      \/ Whole /\ Kind[c] # "tmax" /\ scan_queue' = Append(scan_queue, e) /\ worker_queue' = worker_queue
  BY DEF parse_snippet
<1>4. Whole => taken[c] = Total(c)
  BY <1>1 DEF Whole, LengthIsTheRest
<1>5. worker_queue \in Seq(Clients) /\ scan_queue \in Seq(Entries) /\ e \in Entries
  BY <1>1 DEF TypeOK
<1>6. c \notin Range(worker_queue) /\ e \notin Range(scan_queue)
  BY <1>1 DEF Queued
<1>7. ASSUME worker_queue' \in Seq(Clients), scan_queue' \in Seq(Entries) PROVE TypeOK'
  BY <1>1, <1>2, <1>7 DEF TypeOK, Total
<1>8. LengthIsTheRest'
  BY <1>2 DEF LengthIsTheRest
<1>9. AcceptedOnce'
  <2>1. backlog \in Seq(Clients)
    BY DEF TypeOK
  <2>2. Range(backlog) \subseteq Clients
    BY <2>1 DEF Range
  <2>3. client_fd' \notin Range(backlog') /\ pc' \notin {"header", "body", "parse"}
    BY <1>2, <2>2
  <2> QED
    BY <1>2, <2>3 DEF AcceptedOnce
<1>10. CASE UNCHANGED <<scan_queue, worker_queue>>
  <2>1. QueuedWhole'
    BY <1>2, <1>10 DEF QueuedWhole, Queued, Total
  <2> QED
    BY <1>5, <1>7, <1>8, <1>9, <1>10, <2>1
<1>11. CASE Whole /\ Kind[c] = "tmax" /\ worker_queue' = Append(worker_queue, c) /\ scan_queue' = scan_queue
  <2>1. /\ worker_queue' \in Seq(Clients) /\ Range(worker_queue') = Range(worker_queue) \cup {c}
        /\ IsInjective(worker_queue) => IsInjective(worker_queue')
    <3>1. client_fd \in Clients /\ client_fd \notin Range(worker_queue) /\ worker_queue \in Seq(Clients)
      BY <1>1, <1>5, <1>6
    <3>2. worker_queue' = Append(worker_queue, client_fd)
      BY <1>11
    <3> QED
      BY <3>1, <3>2, Appended
  <2>2. \A d \in Clients : Queued(d)' => Queued(d) \/ d = c
    BY <1>11, <2>1 DEF Queued
  <2>3. QueuedWhole'
    BY <1>2, <1>4, <1>11, <2>1, <2>2 DEF QueuedWhole, Total
  <2> QED
    BY <1>5, <1>7, <1>8, <1>9, <1>11, <2>1, <2>3
<1>12. CASE Whole /\ Kind[c] # "tmax" /\ scan_queue' = Append(scan_queue, e) /\ worker_queue' = worker_queue
  <2>1. e.client = c /\ e.type = IF Kind[c] = "block" THEN "as sent" ELSE "SST_FILE_SCAN"
    OBVIOUS
  <2> HIDE DEF e, Entries
  <2>2. /\ scan_queue' \in Seq(Entries) /\ Range(scan_queue') = Range(scan_queue) \cup {e}
        /\ IsInjective(scan_queue) => IsInjective(scan_queue')
    BY <1>5, <1>6, <1>12, Appended
  <2>3. \A d \in Clients : Queued(d)' => Queued(d) \/ d = c
    BY <1>12, <2>1, <2>2 DEF Queued
  <2>4. QueuedWhole'
    BY <1>2, <1>4, <1>12, <2>1, <2>2, <2>3 DEF QueuedWhole, Total
  <2> QED
    BY <1>5, <1>7, <1>8, <1>9, <1>12, <2>2, <2>4
<1> QED
  BY <1>3, <1>10, <1>11, <1>12

(* In every reachable state of the input thread the length counts what is  *)
(* left of the snippet being read and each queued snippet is whole,        *)
(* whatever the clients and the network do.                                *)
THEOREM InputInvariant == Spec => []InputInv
<1>1. ASSUME InputInv, [Next]_vars PROVE InputInv'
  <2>1. CASE UNCHANGED vars
    <3>1. TypeOK'
      BY <1>1, <2>1 DEF vars, InputInv, TypeOK, Total
    <3>2. LengthIsTheRest'
      BY <1>1, <2>1 DEF vars, InputInv, LengthIsTheRest
    <3>3. AcceptedOnce' /\ QueuedWhole'
      BY <1>1, <2>1 DEF vars, InputInv, AcceptedOnce, QueuedWhole, Queued, Total
    <3> QED
      BY <3>1, <3>2, <3>3 DEF InputInv
  <2>2. CASE Next
    BY <1>1, <2>2, ClientKeepsInv, AcceptKeepsInv, LengthKeepsInv, BodyKeepsInv, EndKeepsInv, ParseKeepsInv
       DEF Next, input_worker
  <2> QED
    BY <1>1, <2>1, <2>2
<1> QED
  BY <1>1, InitInputInv, PTL DEF Spec

(* The unsigned length of the input thread never wraps.                    *)
THEOREM LengthNeverWraps == Spec => []LengthIsTheRest
  BY InputInvariant, PTL DEF InputInv

(* A snippet is queued once, whole, and for the stage of its type.         *)
THEOREM SnippetsAreQueuedWhole == Spec => []QueuedWhole
  BY InputInvariant, PTL DEF InputInv
=============================================================================
