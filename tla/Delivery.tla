------------------------------ MODULE Delivery ------------------------------
(***************************************************************************)
(* What the uploader promises the collector and the analyzer: a tarball    *)
(* leaves the vehicle's tar_dir only after the server has received all of  *)
(* it.  It may turn up in the server's tar_dir more than once, or never,   *)
(* if the mv fails; and what is there may be incomplete, if retries        *)
(* overlapped.  Uploader implements this specification for one tarball.    *)
(***************************************************************************)
CONSTANT Tarball

VARIABLES
  vtar,      \* tarballs in tar_dir of the vehicle
  star,      \* tarballs in tar_dir of the server
  received,  \* tarballs the server has received completely so far
  damaged    \* tarballs in tar_dir of the server that are not complete

deliveryVars == <<vtar, star, received, damaged>>

(* The digests agree and the tarball, as it is on the disk, is moved to    *)
(* tar_dir, unless mv fails.  An older connection may deliver it after the *)
(* client has removed it.                                                  *)
Deliver(t) ==
  /\ t \in vtar \cup received
  /\ received' = received \cup {t}
  /\ \/ star' = star \cup {t} /\ damaged' \in {damaged \ {t}, damaged \cup {t}}
     \/ UNCHANGED <<star, damaged>>
  /\ UNCHANGED vtar

(* Another connection still writes the file that was moved.                *)
Rewrite(t) ==
  /\ t \in star
  /\ damaged' \in {damaged \ {t}, damaged \cup {t}}
  /\ UNCHANGED <<vtar, star, received>>

(* The client has the server's digest and removes the tarball.             *)
Remove(t) ==
  /\ t \in vtar \cap received
  /\ vtar' = vtar \ {t}
  /\ UNCHANGED <<star, received, damaged>>

DeliveryNext == \E t \in Tarball : Deliver(t) \/ Rewrite(t) \/ Remove(t)

DeliveryInit == vtar = Tarball /\ star = {} /\ received = {} /\ damaged = {}

DeliverySpec == DeliveryInit /\ [][DeliveryNext]_deliveryVars
=============================================================================
