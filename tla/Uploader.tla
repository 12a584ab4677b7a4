------------------------------ MODULE Uploader ------------------------------
(***************************************************************************)
(* The transfer of one tarball from a vehicle to the server:               *)
(* uploader_client.py and a thread of uploader_server.py per connection.   *)
(*                                                                         *)
(* The client sends the name, Chunks chunks and its digest down a TCP      *)
(* connection and waits for the digest of the server.  TCP delivers what   *)
(* was sent in order, possibly long after the client gave up, until the    *)
(* connection is reset.  All threads receive the tarball under the same    *)
(* name in recv_dir: a thread writes through the handle it opened, even    *)
(* when another one has truncated or moved the file since.                 *)
(***************************************************************************)
EXTENDS Naturals

CONSTANTS
  Chunks,      \* chunks of the tarball
  MaxConns,    \* bound: connections the client makes
  Corruption,  \* TRUE if a chunk may be altered on its way
  Crashes      \* TRUE if the server process may be killed and restarted

ASSUME UploaderAssumption ==
  /\ Chunks \in Nat \ {0} /\ MaxConns \in Nat \ {0}
  /\ Corruption \in BOOLEAN /\ Crashes \in BOOLEAN

Conns == 1 .. MaxConns
None == 0               \* no connection, no file
Digest == Chunks + 2    \* a connection carries the name, the chunks, the digest
Whole == 1 .. Chunks

VARIABLES
  local,    \* the tarball is in the client's tar_dir
  cpc,      \* where the client is: scan, send, wait or spin in _recv_msg
  conn,     \* the client's last connection
  sent,     \* messages the client has sent on a connection
  end,      \* how the client's side ended: open, fin or rst
  thread,   \* a server thread: none, run, reply, spin or done
  got,      \* messages the thread has received
  answer,   \* what the server sent back: none, good, bad or fin
  intact,   \* FALSE once a chunk was altered on this connection
  overlapped, \* history: a connection was made before older ones were drained
  handle,   \* the file the thread has opened
  data,     \* the chunks a file holds unaltered
  recv,     \* the file under the tarball's name in recv_dir
  tar       \* the file under the tarball's name in the server's tar_dir

clientVars == <<local, cpc, conn, sent, end>>
threadVars == <<thread, got, answer, handle>>
fileVars == <<data, recv, tar>>
netVars == <<intact, overlapped>>
vars == <<clientVars, threadVars, netVars, fileVars>>

UploaderInit ==
  /\ local = TRUE /\ cpc = "scan" /\ conn = None
  /\ sent = [c \in Conns |-> 0] /\ end = [c \in Conns |-> "open"]
  /\ thread = [c \in Conns |-> "none"] /\ got = [c \in Conns |-> 0]
  /\ answer = [c \in Conns |-> "none"] /\ intact = [c \in Conns |-> TRUE]
  /\ overlapped = FALSE /\ handle = [c \in Conns |-> None]
  /\ data = [c \in Conns |-> {}] /\ recv = None /\ tar = None

-----------------------------------------------------------------------------
(* The client.                                                             *)

(* Nothing of an earlier connection is still to be received.               *)
Drained == \A c \in Conns : c <= conn /\ thread[c] \in {"run", "reply"} =>
             thread[c] = "run" /\ got[c] = sent[c]

(* start and _create_client_socket.  The server accepts at once.  Nothing  *)
(* makes a retry wait until the server has read the older connections: the *)
(* daemon scans every 120 s, and a client that died is restarted at once.  *)
Connect ==
  /\ cpc = "scan" /\ local /\ conn < MaxConns
  /\ overlapped' = (overlapped \/ ~Drained)
  /\ conn' = conn + 1
  /\ cpc' = "send"
  /\ thread' = [thread EXCEPT ![conn + 1] = "run"]
  /\ UNCHANGED <<local, sent, end, got, answer, handle, intact, fileVars>>

(* Mutant: the client sends one message too many.                          *)
MutSendsOn == sent[conn] = Digest

AllSent == sent[conn] + 1 = Digest

(* The sends of _upload.                                                   *)
Send ==
  /\ cpc = "send" /\ end[conn] = "open" /\ answer[conn] # "fin"
  /\ sent' = [sent EXCEPT ![conn] = @ + 1]
  /\ cpc' = IF AllSent THEN "wait" ELSE "send"
  /\ UNCHANGED <<local, conn, end, threadVars, netVars, fileVars>>

(* Mutant: the client does not compare the digests.                        *)
MutAnyDigest == answer[conn] \in {"good", "bad"}

SameDigest == answer[conn] = "good"

(* The digest arrives: the tarball is removed if it is the same.  A "rm"   *)
(* that fails goes unnoticed: the tarball is found again by the next scan. *)
RecvDigest ==
  /\ cpc = "wait" /\ answer[conn] \in {"good", "bad"}
  /\ \E removed \in BOOLEAN : local' = ~(SameDigest /\ removed)
  /\ cpc' = "scan"
  /\ end' = [end EXCEPT ![conn] = IF @ = "open" THEN "fin" ELSE @]
  /\ UNCHANGED <<conn, sent, threadVars, netVars, fileVars>>

(* The except clause of _upload: sending to a closed peer, or a reset.     *)
UploadFails ==
  /\ \/ cpc \in {"send", "wait"} /\ end[conn] = "rst"
     \/ cpc = "send" /\ answer[conn] = "fin"
  /\ cpc' = "scan"
  /\ end' = [end EXCEPT ![conn] = "rst"]
  /\ UNCHANGED <<local, conn, sent, threadVars, netVars, fileVars>>

(* recv returns b'' when the server closed the connection: _recv_msg does  *)
(* not count down and asks again, for ever; a later reset does not show.   *)
ClientSpins ==
  /\ cpc = "wait" /\ answer[conn] = "fin" /\ end[conn] = "open"
  /\ cpc' = "spin"
  /\ UNCHANGED <<local, conn, sent, end, threadVars, netVars, fileVars>>

(* SIGTERM (sig_handler) and a new start: what was sent is still delivered. *)
ClientRestarts ==
  /\ cpc # "scan"
  /\ cpc' = "scan"
  /\ end' = [end EXCEPT ![conn] = IF @ = "open" THEN "fin" ELSE @]
  /\ UNCHANGED <<local, conn, sent, threadVars, netVars, fileVars>>

-----------------------------------------------------------------------------
(* The network.                                                            *)

(* A connection is reset, or times out.  The thread may still read what has *)
(* arrived before it notices (ThreadFails).                                 *)
Reset(c) ==
  /\ c <= conn /\ end[c] # "rst"
  /\ end' = [end EXCEPT ![c] = "rst"]
  /\ UNCHANGED <<local, cpc, conn, sent, threadVars, netVars, fileVars>>

Corrupt(c) ==
  /\ Corruption
  /\ got[c] \in 1 .. Chunks /\ got[c] < sent[c]
  /\ intact' = [intact EXCEPT ![c] = FALSE]
  /\ UNCHANGED <<clientVars, overlapped, threadVars, fileVars>>

-----------------------------------------------------------------------------
(* A thread of the server: ClientProcessor.run.                            *)

Receives(c) == thread[c] = "run" /\ got[c] < sent[c]

Consume(c) == got' = [got EXCEPT ![c] = @ + 1]

(* The name: open(file_path, "wb") truncates the file that is there.       *)
OpenFile(c) ==
  LET f == IF recv = None THEN c ELSE recv
  IN
  /\ Receives(c) /\ got[c] = 0
  /\ Consume(c)
  /\ handle' = [handle EXCEPT ![c] = f]
  /\ recv' = f
  /\ data' = [data EXCEPT ![f] = {}]
  /\ UNCHANGED <<clientVars, thread, answer, netVars, tar>>

(* A chunk goes to its place in the file the thread opened.                *)
WriteChunk(c) ==
  /\ Receives(c) /\ got[c] \in 1 .. Chunks
  /\ Consume(c)
  /\ data' = [data EXCEPT ![handle[c]] = IF intact[c] THEN @ \cup {got[c]} ELSE @ \ {got[c]}]
  /\ UNCHANGED <<clientVars, thread, answer, handle, netVars, recv, tar>>

(* Mutant: the server does not compare the digests.                        *)
MutUnverified(c) == TRUE

Verified(c) == intact[c]

(* The digest: "mv" takes whatever is under the name in recv_dir.  It does *)
(* nothing if there is no file, or if it fails for any other reason (full  *)
(* disk, permissions: both directories are on one file system, so that mv  *)
(* renames or leaves the file where it is).  Its result is ignored, and    *)
(* the good digest is sent all the same.                                   *)
VerifyDigest(c) ==
  /\ Receives(c) /\ got[c] = Chunks + 1
  /\ Consume(c)
  /\ thread' = [thread EXCEPT ![c] = "reply"]
  /\ \/ Verified(c) /\ recv # None /\ tar' = recv /\ recv' = None
     \/ UNCHANGED <<tar, recv>>
  /\ UNCHANGED <<clientVars, answer, handle, netVars, data>>

LocalDigest(c) == IF intact[c] THEN "good" ELSE "bad"

SendDigest(c) ==
  /\ thread[c] = "reply"
  /\ thread' = [thread EXCEPT ![c] = "done"]
  /\ answer' = [answer EXCEPT ![c] = IF end[c] = "open" THEN LocalDigest(c) ELSE @]
  /\ UNCHANGED <<clientVars, got, handle, netVars, fileVars>>

(* The except clause of run.                                               *)
ThreadFails(c) ==
  /\ thread[c] = "run" /\ end[c] = "rst"
  /\ thread' = [thread EXCEPT ![c] = "done"]
  /\ UNCHANGED <<clientVars, got, answer, handle, netVars, fileVars>>

(* The client closed in the middle: _recv_msg of the server spins as well. *)
ThreadSpins(c) ==
  /\ thread[c] = "run" /\ end[c] = "fin" /\ got[c] = sent[c]
  /\ thread' = [thread EXCEPT ![c] = "spin"]
  /\ UNCHANGED <<clientVars, got, answer, handle, netVars, fileVars>>

(* The server's side of connections ends: its kernel closes one that has   *)
(* nothing left to read, and resets the others.                            *)
Ends(conns) ==
  LET unread == {c \in conns : got[c] < sent[c]}
  IN
  /\ thread' = [c \in Conns |-> IF c \in conns THEN "done" ELSE thread[c]]
  /\ answer' = [c \in Conns |-> IF c \in conns \ unread THEN "fin" ELSE answer[c]]
  /\ end' = [c \in Conns |-> IF c \in unread THEN "rst" ELSE end[c]]
  /\ UNCHANGED <<local, cpc, conn, sent, got, handle, netVars, fileVars>>

(* The file cannot be opened, written or flushed (disk full): the except   *)
(* and finally clauses of run.                                             *)
FileFails(c) == thread[c] = "run" /\ sent[c] > 0 /\ Ends({c})

(* The server is killed and started again.                                 *)
ServerRestarts ==
  LET alive == {c \in Conns : thread[c] \in {"run", "reply", "spin"}}
  IN  Crashes /\ alive # {} /\ Ends(alive)

-----------------------------------------------------------------------------

Client == Connect \/ Send \/ RecvDigest \/ UploadFails \/ ClientSpins

Thread(c) ==
  \/ OpenFile(c)
  \/ WriteChunk(c)
  \/ VerifyDigest(c)
  \/ SendDigest(c)
  \/ ThreadFails(c)
  \/ ThreadSpins(c)

UploaderNext ==
  \/ Client
  \/ ClientRestarts
  \/ ServerRestarts
  \/ \E c \in Conns : Thread(c) \/ FileFails(c) \/ Reset(c) \/ Corrupt(c)

UploaderSpec == UploaderInit /\ [][UploaderNext]_vars

(* Both processes run, and TCP delivers on a connection that stays up.     *)
FairUploaderSpec ==
  /\ UploaderSpec
  /\ WF_vars(Client)
  /\ \A c \in Conns : WF_vars(Thread(c))

-----------------------------------------------------------------------------
(* Properties.                                                             *)

(* The type invariant: where _upload and run may be, and no more than the  *)
(* name, the chunks and the digest on a connection.                        *)
UploaderTypeOK ==
  /\ local \in BOOLEAN
  /\ cpc \in {"scan", "send", "wait", "spin"}
  /\ conn \in 0 .. MaxConns
  /\ sent \in [Conns -> 0 .. Digest] /\ got \in [Conns -> 0 .. Digest]
  /\ end \in [Conns -> {"open", "fin", "rst"}]
  /\ thread \in [Conns -> {"none", "run", "reply", "spin", "done"}]
  /\ answer \in [Conns -> {"none", "good", "bad", "fin"}]
  /\ intact \in [Conns -> BOOLEAN] /\ overlapped \in BOOLEAN
  /\ handle \in [Conns -> Conns \cup {None}]
  /\ data \in [Conns -> SUBSET Whole]
  /\ recv \in Conns \cup {None} /\ tar \in Conns \cup {None}

(* The client removes a tarball only when all of it is on the server's     *)
(* disk, across resets, restarts of either side, altered chunks and failed *)
(* commands: in tar_dir, or still in recv_dir if the mv failed, where no   *)
(* later connection truncates it.  The exception: a retry that overlapped  *)
(* an older delivery.                                                      *)
NoDataLoss ==
  ~local /\ ~overlapped => \E f \in {recv, tar} \ {None} : data[f] = Whole

(* "where to store file which is received successfully" (--tar_dir of      *)
(* uploader_server.py): a tarball in tar_dir is complete.                  *)
TarDirComplete == tar # None => data[tar] = Whole

(* A tarball in tar_dir is complete, and is not truncated, overwritten or  *)
(* replaced by an incomplete one later, until a retry overlaps an older    *)
(* delivery: nothing else, no reset, restart, altered chunk or failed      *)
(* command, spoils it.                                                     *)
OnlyOverlapsDamage == TarDirComplete \/ overlapped

(* The server has received all of the tarball, unaltered, on a connection. *)
Received == \E c \in Conns : intact[c] /\ got[c] = Digest

(* The promise the rest of the pipeline relies on, for this tarball.       *)
AsSet(p) == IF p THEN {None} ELSE {}

Promise == INSTANCE Delivery WITH
  Tarball <- {None}, vtar <- AsSet(local), star <- AsSet(tar # None),
  received <- AsSet(Received), damaged <- AsSet(tar # None /\ data[tar] # Whole)

(* uploader_client.py and uploader_server.py implement Delivery, overlaps  *)
(* included: whatever is done to the files, the tarball leaves the vehicle *)
(* only after the server has received all of it unaltered, gets to tar_dir *)
(* only after that, stays there, and does not come back to the vehicle.    *)
ImplementsDelivery == Promise!DeliverySpec

(* "Periodically scan tar_dir and upload tarballs to server"               *)
(* (UploaderClient): an upload ends, one way or another, and the client    *)
(* goes on to scan.                                                        *)
ScansAgain == cpc # "scan" ~> cpc = "scan"

=============================================================================
