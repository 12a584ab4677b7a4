--------------------------- MODULE UploaderProofs ---------------------------
(***************************************************************************)
(* Proofs about Uploader, for every number of chunks and of connections:   *)
(* its type invariant, that no tarball is lost and that tar_dir of the     *)
(* server holds complete tarballs only until a retry overlaps an older     *)
(* delivery, and that the uploader implements Delivery, overlap or not.    *)
(***************************************************************************)
EXTENDS Uploader, TLAPS

(* Outside its scan the client has a connection and still has the tarball; *)
(* in the loop of _upload there is something left to send; a tarball is    *)
(* removed after a good answer on the last connection.                     *)
ClientInv ==
  /\ cpc # "scan" => conn \in Conns /\ local
  /\ ~local => conn \in Conns /\ answer[conn] = "good"
  /\ cpc = "send" => sent[conn] < Digest

(* Nothing has happened on a connection not yet made; a thread receives    *)
(* what was sent; it replies when it has the digest, and its answer is     *)
(* good, its last act, only if it received everything unaltered.           *)
ConnInv ==
  \A c \in Conns :
    /\ c > conn => thread[c] = "none" /\ sent[c] = 0
    /\ got[c] <= sent[c]
    /\ thread[c] = "reply" => got[c] = Digest
    /\ answer[c] = "good" => thread[c] = "done" /\ intact[c] /\ got[c] = Digest

BaseInv == UploaderTypeOK /\ ClientInv /\ ConnInv

(* Only the thread of the last connection still has something to read.     *)
OneReader ==
  \A c \in Conns : thread[c] \in {"run", "reply"} /\ c # conn => thread[c] = "run" /\ got[c] = sent[c]

(* The names in recv_dir and tar_dir stand for different files, each       *)
(* opened by a connection; the one in tar_dir is complete.  A connection   *)
(* that has received nothing owns neither, so opening its file harms       *)
(* neither.                                                                *)
FileInv ==
  /\ recv # None => got[recv] > 0 /\ recv # tar
  /\ tar # None => got[tar] > 0 /\ data[tar] = Whole

(* The thread of the last connection writes the file in recv_dir, and,     *)
(* unless a chunk was altered, this holds exactly what was received.       *)
ReceiveInv ==
  \A c \in Conns : thread[c] = "run" /\ got[c] > 0 /\ c = conn =>
    /\ got[c] < Digest
    /\ recv # None /\ handle[c] = recv
    /\ intact[c] => data[recv] = 1 .. (got[c] - 1)

(* All of the tarball is on the server's disk, moved to tar_dir or not.    *)
Stored ==
  \/ recv # None /\ data[recv] = Whole
  \/ tar # None /\ data[tar] = Whole

(* A thread that is about to confirm, and a client that has acted on that, *)
(* can rely on it, if the connection is the last one.                      *)
VerifiedInv ==
  conn \in Conns /\ ((thread[conn] = "reply" /\ intact[conn]) \/ answer[conn] = "good") => Stored

OrderlyInv == OneReader /\ FileInv /\ ReceiveInv /\ VerifiedInv

(* The inductive invariant.                                                *)
UploaderInv == BaseInv /\ (overlapped \/ OrderlyInv)

(* BaseInv does not depend on the order of retries.                        *)
LEMMA BaseInit == UploaderInit => BaseInv
<1> USE UploaderAssumption DEF UploaderInit, Conns, Digest, Whole, None
<1>1. UploaderInit => local \in BOOLEAN /\ overlapped \in BOOLEAN
  BY Zenon
<1>2. UploaderInit => UploaderTypeOK
  BY <1>1 DEF UploaderTypeOK
<1>3. UploaderInit => ClientInv /\ ConnInv
  BY DEF ClientInv, ConnInv
<1> QED BY <1>2, <1>3 DEF BaseInv

(* The steps of _upload and of the client's restart.                       *)
LEMMA BaseClient == BaseInv /\ (Client \/ ClientRestarts) => BaseInv'
<1> USE UploaderAssumption DEF BaseInv, UploaderTypeOK, ClientInv, ConnInv, Conns, Digest, Whole, None,
      clientVars, threadVars, fileVars, netVars
<1>1. ASSUME BaseInv, Connect PROVE BaseInv'
  BY <1>1 DEF Connect
<1>2. ASSUME BaseInv, Send PROVE BaseInv'
  <2>1. conn \in Conns /\ local /\ sent[conn] \in 0 .. Digest /\ sent[conn] < Digest
    BY <1>2 DEF Send
  <2>2. sent' = [sent EXCEPT ![conn] = sent[conn] + 1]
    BY <1>2 DEF Send
  <2>3. cpc' = IF sent[conn] + 1 = Digest THEN "wait" ELSE "send"
    BY <1>2 DEF Send, AllSent
  <2>4. UNCHANGED <<local, conn, end, thread, got, answer, handle, intact, overlapped, data, recv, tar>>
    BY <1>2 DEF Send
  <2>5. sent' \in [Conns -> 0 .. Digest]
    BY <1>2, <2>1, <2>2
  <2>6. UploaderTypeOK'
    BY <1>2, <2>3, <2>4, <2>5
  <2>7. ClientInv'
    BY <1>2, <2>1, <2>2, <2>3, <2>4
  <2>8. ConnInv'
    BY <1>2, <2>1, <2>2, <2>4
  <2> QED BY <2>6, <2>7, <2>8
<1>3. ASSUME BaseInv, RecvDigest PROVE BaseInv'
  BY <1>3 DEF RecvDigest, SameDigest
<1>4. ASSUME BaseInv, UploadFails PROVE BaseInv'
  BY <1>4 DEF UploadFails
<1>5. ASSUME BaseInv, ClientSpins PROVE BaseInv'
  BY <1>5 DEF ClientSpins
<1>6. ASSUME BaseInv, ClientRestarts PROVE BaseInv'
  BY <1>6 DEF ClientRestarts
<1> QED BY <1>1, <1>2, <1>3, <1>4, <1>5, <1>6 DEF Client

(* The steps of run, and of the network.                                   *)
LEMMA BaseServer ==
  ASSUME BaseInv, NEW c \in Conns, Thread(c) \/ FileFails(c) \/ Reset(c) \/ Corrupt(c)
  PROVE  BaseInv'
<1> USE UploaderAssumption DEF BaseInv, UploaderTypeOK, ClientInv, ConnInv, Conns, Digest, Whole, None,
      clientVars, threadVars, fileVars, netVars, Receives, Consume
<1>1. CASE OpenFile(c)
  BY <1>1 DEF OpenFile
<1>2. CASE WriteChunk(c)
  <2>1. data' \in [Conns -> SUBSET Whole]
    BY <1>2 DEF WriteChunk
  <2>2. /\ got[c] < sent[c] /\ got[c] \in 1 .. Chunks
        /\ got' = [got EXCEPT ![c] = @ + 1]
        /\ UNCHANGED <<local, cpc, conn, sent, end, thread, answer, handle, intact, overlapped, recv, tar>>
    BY <1>2 DEF WriteChunk
  <2> QED BY <2>1, <2>2
<1>3. CASE VerifyDigest(c)
  <2>1. recv' \in Conns \cup {None} /\ tar' \in Conns \cup {None}
    BY <1>3 DEF VerifyDigest
  <2>2. got[c] < sent[c] /\ got[c] = Chunks + 1 /\ thread[c] = "run"
    BY <1>3 DEF VerifyDigest
  <2> QED BY SMTT(30), <1>3, <2>1, <2>2 DEF VerifyDigest
<1>4. CASE SendDigest(c)
  BY <1>4 DEF SendDigest, LocalDigest
<1>5. CASE ThreadFails(c)
  BY <1>5 DEF ThreadFails
<1>6. CASE ThreadSpins(c)
  BY <1>6 DEF ThreadSpins
<1>7. CASE Reset(c)
  BY <1>7 DEF Reset
<1>8. CASE Corrupt(c)
  BY SMTT(30), <1>8 DEF Corrupt
<1>9. CASE FileFails(c)
  BY <1>9 DEF FileFails, Ends
<1> QED BY <1>1, <1>2, <1>3, <1>4, <1>5, <1>6, <1>7, <1>8, <1>9 DEF Thread

(* The server is killed and restarted.                                     *)
LEMMA BaseRestart == BaseInv /\ ServerRestarts => BaseInv'
BY UploaderAssumption
DEF BaseInv, UploaderTypeOK, ClientInv, ConnInv, Conns, Digest, Whole, None, fileVars, netVars,
    ServerRestarts, Ends

(* No step, and no overlap of connections, disturbs BaseInv.               *)
LEMMA BaseStep == BaseInv /\ [UploaderNext]_vars => BaseInv'
<1>1. BaseInv /\ UNCHANGED vars => BaseInv'
  BY DEF BaseInv, UploaderTypeOK, ClientInv, ConnInv, vars, clientVars, threadVars, fileVars, netVars
<1> QED BY <1>1, BaseClient, BaseServer, BaseRestart DEF UploaderNext

(* _upload sends, and run receives, no more than the name, the chunks and  *)
(* the digest, and neither leaves its states, even when connections        *)
(* overlap.                                                                *)
THEOREM UploaderTypeCorrect == UploaderSpec => []UploaderTypeOK
<1>1. BaseInv => UploaderTypeOK
  BY DEF BaseInv
<1> QED BY <1>1, BaseInit, BaseStep, PTL DEF UploaderSpec

(* The invariant holds at the start.                                       *)
LEMMA UploaderInvInit == UploaderInit => UploaderInv
<1>1. UploaderInit => OrderlyInv
  BY DEF UploaderInit, OrderlyInv, OneReader, FileInv, ReceiveInv, VerifiedInv, Conns, None
<1> QED BY <1>1, BaseInit DEF UploaderInv

(* The client's steps.  Connect is the one that may end the good order: if *)
(* it does not, the threads of the older connections have read everything. *)
LEMMA ClientKeepsOrder ==
  ASSUME BaseInv, BaseInv', OrderlyInv, Client \/ ClientRestarts
  PROVE  overlapped' \/ OrderlyInv'
<1> USE UploaderAssumption DEF BaseInv, UploaderTypeOK, ClientInv, ConnInv, OrderlyInv, OneReader, FileInv,
      ReceiveInv, VerifiedInv, Stored, Conns, Digest, Whole, None, clientVars, threadVars, fileVars, netVars
<1>1. CASE Connect
  <2>1. overlapped' \/ Drained
    BY <1>1, Zenon DEF Connect
  <2>2. CASE Drained
    <3>1. OneReader'
      BY <1>1, <2>2 DEF Connect, Drained
    <3>2. FileInv' /\ ReceiveInv'
      BY <1>1 DEF Connect
    <3>3. VerifiedInv'
      BY <1>1 DEF Connect
    <3> QED BY <3>1, <3>2, <3>3
  <2> QED BY <2>1, <2>2
<1>2. CASE Send
  BY <1>2 DEF Send
<1>3. CASE RecvDigest
  BY <1>3 DEF RecvDigest, SameDigest
<1>4. CASE UploadFails
  BY <1>4 DEF UploadFails
<1>5. CASE ClientSpins
  BY <1>5 DEF ClientSpins
<1>6. CASE ClientRestarts
  BY <1>6 DEF ClientRestarts
<1> QED BY <1>1, <1>2, <1>3, <1>4, <1>5, <1>6 DEF Client

(* A thread that receives, or is about to reply, serves the last           *)
(* connection.                                                             *)
LEMMA OnlyReader ==
  ASSUME BaseInv, OneReader, NEW c \in Conns, Receives(c) \/ thread[c] = "reply"
  PROVE  c = conn
BY DEF BaseInv, UploaderTypeOK, ConnInv, OneReader, Receives

(* The chunks received so far, and the next one.                           *)
LEMMA IntervalGrows == ASSUME NEW n \in Nat \ {0} PROVE (1 .. (n - 1)) \cup {n} = 1 .. n
OBVIOUS

(* The steps of run and of the network.  The file opened is not the one in *)
(* tar_dir; the file moved there has all chunks if the digest is right; a  *)
(* chunk cannot be altered once all are received.                          *)
LEMMA ServerKeepsOrder ==
  ASSUME BaseInv, OrderlyInv, NEW c \in Conns, Thread(c) \/ FileFails(c) \/ Reset(c) \/ Corrupt(c)
  PROVE  OrderlyInv'
<1> USE UploaderAssumption DEF BaseInv, UploaderTypeOK, ConnInv, OrderlyInv, OneReader, FileInv,
      ReceiveInv, VerifiedInv, Stored, Conns, Digest, Whole, None, clientVars, threadVars, fileVars, netVars, Receives, Consume
<1>1. CASE OpenFile(c)
  <2>1. c = conn
    BY <1>1, OnlyReader DEF OpenFile
  <2> DEFINE f == IF recv = None THEN c ELSE recv
  <2>2. /\ f \in Conns /\ f # tar /\ (f = c \/ f = recv)
        /\ handle' = [handle EXCEPT ![c] = f] /\ recv' = f
        /\ data' = [data EXCEPT ![f] = {}]
    BY <1>1 DEF OpenFile
  <2> HIDE DEF f
  <2>3. /\ thread[c] = "run" /\ got[c] = 0 /\ got' = [got EXCEPT ![c] = 1]
        /\ UNCHANGED <<local, cpc, conn, sent, end, thread, answer, intact, tar>>
    BY <1>1 DEF OpenFile
  <2>4. OneReader' /\ VerifiedInv'
    BY SMTT(30), <2>1, <2>3
  <2>5. FileInv'
    BY <2>1, <2>2, <2>3
  <2>6. ReceiveInv'
    BY <2>1, <2>2, <2>3
  <2> QED BY <2>4, <2>5, <2>6
<1>2. CASE WriteChunk(c)
  <2>1. c = conn
    BY <1>2, OnlyReader DEF WriteChunk
  <2>2. /\ thread[c] = "run" /\ got[c] \in 1 .. Chunks /\ got' = [got EXCEPT ![c] = @ + 1]
        /\ UNCHANGED <<local, cpc, conn, sent, end, thread, answer, handle, intact, recv, tar>>
    BY <1>2 DEF WriteChunk
  <2>3. recv \in Conns /\ recv # tar /\ handle[c] = recv
    BY <2>1, <2>2
  <2>4. /\ \A f \in Conns \ {recv} : data'[f] = data[f]
        /\ intact[c] => data'[recv] = data[recv] \cup {got[c]}
    BY <1>2, <2>3 DEF WriteChunk
  <2>5. OneReader' /\ VerifiedInv'
    BY <2>1, <2>2
  <2>6. FileInv'
    <3>1. recv' # None => got'[recv'] > 0 /\ recv' # tar'
      BY <2>2, <2>3
    <3>2. tar # None => tar \in Conns \ {recv} /\ data[tar] = Whole /\ got'[tar] > 0
      BY <2>2, <2>3
    <3>3. tar # None => data'[tar] = data[tar]
      BY <2>4, <3>2
    <3> QED BY <2>2, <3>1, <3>2, <3>3
  <2>7. intact[c] => data'[recv] = 1 .. got[c]
    <3>1. intact[c] => data[recv] = 1 .. (got[c] - 1)
      BY <2>1, <2>2
    <3>2. got[c] \in Nat \ {0}
      BY <2>2
    <3>3. (1 .. (got[c] - 1)) \cup {got[c]} = 1 .. got[c]
      BY ONLY <3>2, IntervalGrows
    <3> QED BY <2>4, <3>1, <3>3
  <2>8. ReceiveInv'
    <3>1. got'[c] = got[c] + 1 /\ got[c] + 1 < Digest
      BY <2>2
    <3>3. got[c] = got'[c] - 1
      BY <2>2, <3>1
    <3>2. intact[c] => data'[recv] = 1 .. (got'[c] - 1)
      BY <2>7, <3>3
    <3> QED BY <2>1, <2>2, <2>3, <3>1, <3>2
  <2> QED BY <2>5, <2>6, <2>8
<1>3. CASE VerifyDigest(c)
  <2>1. c = conn
    BY <1>3, OnlyReader DEF VerifyDigest
  <2>2. /\ thread[c] = "run" /\ got[c] = Chunks + 1 /\ got' = [got EXCEPT ![c] = Chunks + 2]
        /\ thread' = [thread EXCEPT ![c] = "reply"]
        /\ UNCHANGED <<local, cpc, conn, sent, end, answer, handle, intact, data>>
    BY <1>3 DEF VerifyDigest
  <2>3. recv \in Conns /\ recv # tar /\ (intact[c] => data[recv] = Whole)
    BY SMTT(30), <2>1, <2>2
  <2>4. \/ intact[c] /\ tar' = recv /\ recv' = None
        \/ UNCHANGED <<tar, recv>>
    BY <1>3, <2>3 DEF VerifyDigest, Verified
  <2>5. OneReader' /\ ReceiveInv'
    BY SMTT(30), <2>1, <2>2
  <2>6. FileInv' /\ VerifiedInv'
    <3>1. CASE intact[c] /\ tar' = recv /\ recv' = None
      BY <2>1, <2>2, <2>3, <3>1
    <3>2. CASE UNCHANGED <<tar, recv>>
      <4>1. FileInv'
        <5>1. \A d \in Conns : got[d] > 0 => got'[d] > 0
          BY <2>2
        <5> QED BY <2>2, <3>2, <5>1
      <4>2. intact[c] => Stored'
        BY <2>2, <2>3, <3>2
      <4> QED BY <2>1, <2>2, <4>1, <4>2
    <3> QED BY <2>4, <3>1, <3>2
  <2> QED BY <2>5, <2>6
<1>4. CASE SendDigest(c)
  BY <1>4 DEF SendDigest, LocalDigest
<1>5. CASE ThreadFails(c)
  BY <1>5 DEF ThreadFails
<1>6. CASE ThreadSpins(c)
  BY <1>6 DEF ThreadSpins
<1>7. CASE Reset(c)
  BY <1>7 DEF Reset
<1>8. CASE Corrupt(c)
  BY SMTT(30), <1>8 DEF Corrupt
<1>9. CASE FileFails(c)
  BY <1>9 DEF FileFails, Ends
<1> QED BY <1>1, <1>2, <1>3, <1>4, <1>5, <1>6, <1>7, <1>8, <1>9 DEF Thread

(* A restart of the server leaves files behind, but no reader.             *)
LEMMA RestartKeepsOrder ==
  ASSUME BaseInv, OrderlyInv, ServerRestarts
  PROVE  OrderlyInv'
BY UploaderAssumption
DEF BaseInv, UploaderTypeOK, ConnInv, OrderlyInv, OneReader, FileInv, ReceiveInv, VerifiedInv, Stored, Conns,
    Digest, Whole, None, fileVars, netVars, ServerRestarts, Ends

(* Only Connect changes overlapped.                                        *)
LEMMA OverlapLasts == BaseInv /\ overlapped /\ [UploaderNext]_vars => overlapped'
BY DEF UploaderNext, Client, Thread, Connect, Send, RecvDigest, UploadFails, ClientSpins, ClientRestarts,
       ServerRestarts, FileFails, Ends, OpenFile, WriteChunk, VerifyDigest, SendDigest, ThreadFails,
       ThreadSpins, Reset, Corrupt, vars, netVars

(* The invariant is inductive.                                             *)
LEMMA UploaderInvStep == UploaderInv /\ [UploaderNext]_vars => UploaderInv'
<1> SUFFICES ASSUME UploaderInv, [UploaderNext]_vars
             PROVE  UploaderInv'
  OBVIOUS
<1>1. BaseInv /\ BaseInv'
  BY BaseStep DEF UploaderInv
<1>2. CASE overlapped
  BY <1>1, <1>2, OverlapLasts DEF UploaderInv
<1>3. CASE OrderlyInv
  <2>1. OrderlyInv /\ UNCHANGED vars => OrderlyInv'
    BY DEF OrderlyInv, OneReader, FileInv, ReceiveInv, VerifiedInv, Stored, vars, clientVars, threadVars,
           fileVars, netVars
  <2> QED BY <1>1, <1>3, <2>1, ClientKeepsOrder, ServerKeepsOrder, RestartKeepsOrder
          DEF UploaderNext, UploaderInv
<1> QED BY <1>2, <1>3 DEF UploaderInv

(* So it holds throughout.                                                 *)
LEMMA UploaderInvariant == UploaderSpec => []UploaderInv
BY UploaderInvInit, UploaderInvStep, PTL DEF UploaderSpec

(* The client removes a tarball only when all of it is on the server's     *)
(* disk: for any number of chunks and retries, across resets, restarts of  *)
(* either side, altered chunks and failed commands, unless a retry         *)
(* overlapped an older delivery.                                           *)
THEOREM UploadNeverLosesData == UploaderSpec => []NoDataLoss
<1>1. UploaderInv => NoDataLoss
  BY DEF UploaderInv, BaseInv, ClientInv, OrderlyInv, VerifiedInv, Stored, NoDataLoss
<1> QED BY <1>1, UploaderInvariant, PTL

(* What the mv of uploader_server.py has put in tar_dir is complete, and   *)
(* stays so: neither the truncation by a later open nor a chunk of another *)
(* connection reaches it, unless a retry overlapped an older delivery,     *)
(* which MCUploaderOverlap shows to spoil it.                              *)
THEOREM TarDirIsComplete == UploaderSpec => []OnlyOverlapsDamage
<1>1. UploaderInv => OnlyOverlapsDamage
  BY DEF UploaderInv, OrderlyInv, FileInv, TarDirComplete, OnlyOverlapsDamage
<1> QED BY <1>1, UploaderInvariant, PTL

(* Only the digest of a connection whose chunks are unaltered changes what *)
(* the server has received.                                                *)
LEMMA ReceivedBy ==
  ASSUME BaseInv, BaseInv', NEW c \in Conns,
         got' = [got EXCEPT ![c] = @ + 1], got[c] + 1 # Digest \/ ~intact[c], intact' = intact
  PROVE  Received' <=> Received
<1>1. got[c] # Digest
  BY UploaderAssumption DEF BaseInv, UploaderTypeOK, Digest
<1>2. \A d \in Conns : intact'[d] /\ got'[d] = Digest <=> intact[d] /\ got[d] = Digest
  BY <1>1 DEF BaseInv, UploaderTypeOK
<1> QED BY <1>2 DEF Received

(* Step simulation, whatever connections overlap: the move to tar_dir, or  *)
(* its failure, is Deliver, a write to the moved file is Rewrite, the      *)
(* removal by the client is Remove, everything else stutters.              *)
LEMMA DeliverySim ==
  BaseInv /\ BaseInv' /\ [UploaderNext]_vars => [Promise!DeliveryNext]_Promise!deliveryVars
<1> SUFFICES ASSUME BaseInv, BaseInv', [UploaderNext]_vars
             PROVE  [Promise!DeliveryNext]_Promise!deliveryVars
  OBVIOUS
<1> USE DEF Promise!deliveryVars, AsSet
<1>1. ASSUME NEW c \in Conns, VerifyDigest(c) PROVE [Promise!DeliveryNext]_Promise!deliveryVars
  <2>1. /\ local' = local /\ data' = data /\ intact' = intact
        /\ got[c] + 1 = Digest /\ got' = [got EXCEPT ![c] = @ + 1]
        /\ \/ intact[c] /\ tar' # None
           \/ tar' = tar
    BY <1>1, UploaderAssumption
    DEF VerifyDigest, Verified, Consume, clientVars, netVars, Digest, BaseInv, UploaderTypeOK, None
  <2>2. ~local => Received
    BY DEF BaseInv, ClientInv, ConnInv, Received
  <2>3. CASE intact[c]
    <3>1. Received'
      BY <2>1, <2>3 DEF Received, BaseInv, UploaderTypeOK
    <3>2. Promise!Deliver(None)
      BY <2>1, <2>2, <3>1 DEF Promise!Deliver
    <3> QED BY <3>2 DEF Promise!DeliveryNext
  <2>4. CASE ~intact[c]
    <3>1. Received' <=> Received
      BY <2>1, <2>4, ReceivedBy
    <3> QED BY <2>1, <2>4, <3>1
  <2> QED BY <2>3, <2>4
<1>2. ASSUME NEW c \in Conns, OpenFile(c) \/ WriteChunk(c)
      PROVE  [Promise!DeliveryNext]_Promise!deliveryVars
  <2>1. /\ local' = local /\ tar' = tar /\ intact' = intact
        /\ got[c] + 1 # Digest /\ got' = [got EXCEPT ![c] = @ + 1]
    BY <1>2, UploaderAssumption
    DEF OpenFile, WriteChunk, Consume, clientVars, netVars, Digest, BaseInv, UploaderTypeOK
  <2>2. Received' <=> Received
    BY <2>1, ReceivedBy
  <2>3. CASE tar = None
    BY <2>1, <2>2, <2>3
  <2>4. CASE tar # None
    <3>1. Promise!Rewrite(None)
      BY <2>1, <2>2, <2>4 DEF Promise!Rewrite
    <3> QED BY <3>1 DEF Promise!DeliveryNext
  <2> QED BY <2>3, <2>4
<1>3. CASE RecvDigest
  <2>1. /\ UNCHANGED <<got, intact, tar, data>> /\ local
        /\ local' \/ Received
    BY <1>3 DEF RecvDigest, SameDigest, fileVars, threadVars, netVars, BaseInv, ClientInv, ConnInv, Received
  <2>2. Received' <=> Received
    BY <2>1 DEF Received
  <2>3. CASE local'
    BY <2>1, <2>2, <2>3
  <2>4. CASE ~local'
    <3>1. Promise!Remove(None)
      BY <2>1, <2>2, <2>4 DEF Promise!Remove
    <3> QED BY <3>1 DEF Promise!DeliveryNext
  <2> QED BY <2>3, <2>4
<1>4. ASSUME NEW c \in Conns, Corrupt(c) PROVE [Promise!DeliveryNext]_Promise!deliveryVars
  <2>1. /\ UNCHANGED <<local, got, tar, data>>
        /\ intact' = [intact EXCEPT ![c] = FALSE] /\ got[c] # Digest
    BY <1>4, UploaderAssumption DEF Corrupt, clientVars, threadVars, fileVars, Digest
  <2>2. Received' <=> Received
    BY <2>1 DEF Received, BaseInv, UploaderTypeOK
  <2> QED BY <2>1, <2>2
<1>5. ASSUME UNCHANGED <<local, got, intact, tar, data>>
      PROVE  [Promise!DeliveryNext]_Promise!deliveryVars
  <2>1. Received' <=> Received
    BY <1>5 DEF Received
  <2> QED BY <1>5, <2>1
<1>6. \/ \E c \in Conns : VerifyDigest(c) \/ OpenFile(c) \/ WriteChunk(c) \/ Corrupt(c)
      \/ RecvDigest
      \/ UNCHANGED <<local, got, intact, tar, data>>
  BY DEF UploaderNext, Client, Thread, Connect, Send, UploadFails, ClientSpins, ClientRestarts,
    ServerRestarts, FileFails, Ends, SendDigest, ThreadFails, ThreadSpins, Reset,
    vars, clientVars, threadVars, fileVars, netVars
<1> QED BY <1>1, <1>2, <1>3, <1>4, <1>5, <1>6

(* uploader_client.py and uploader_server.py implement Delivery, the       *)
(* promise Pipeline composes with the collector and the analyzer, for any  *)
(* number of chunks and of connections, overlapping or not.                *)
THEOREM UploaderImplementsDelivery == UploaderSpec => ImplementsDelivery
<1>1. UploaderInit => Promise!DeliveryInit
  BY UploaderAssumption
  DEF UploaderInit, Promise!DeliveryInit, AsSet, Received, None, Digest
<1>2. BaseInv /\ BaseInv' /\ [UploaderNext]_vars => [Promise!DeliveryNext]_Promise!deliveryVars
  BY DeliverySim
<1> QED BY <1>1, <1>2, BaseInit, BaseStep, PTL DEF UploaderSpec, ImplementsDelivery, Promise!DeliverySpec
=============================================================================
