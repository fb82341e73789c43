---------------------------- MODULE TenantLifecycle ----------------------------
(***************************************************************************)
(* What the operator promises about one DistributionTenant resource and    *)
(* its CloudFront tenant, without calls, caches, queues or failures: the   *)
(* tenant is provisioned under a finalizer, its identity is recorded       *)
(* before it counts as the resource's own, a recorded tenant never loses   *)
(* that status but by going away, and the finalizer is released only when  *)
(* no recorded tenant is left.                                             *)
(***************************************************************************)
VARIABLES
  exists, deleting, finalizer,   \* the resource
  tenant                         \* its tenant, and whether status has its ID

vars == <<exists, deleting, finalizer, tenant>>

TypeOK ==
  /\ {exists, deleting, finalizer} \subseteq BOOLEAN
  /\ tenant \in {"none", "unrecorded", "recorded"}

Init ==
  /\ exists = TRUE /\ deleting = FALSE /\ finalizer = FALSE
  /\ tenant = "none"

Protect ==
  /\ exists /\ ~deleting /\ ~finalizer
  /\ finalizer' = TRUE
  /\ UNCHANGED <<exists, deleting, tenant>>

Provision ==
  /\ exists /\ finalizer /\ tenant = "none"
  /\ tenant' = "unrecorded"
  /\ UNCHANGED <<exists, deleting, finalizer>>

Record ==
  /\ exists /\ finalizer /\ ~deleting /\ tenant = "unrecorded"
  /\ tenant' = "recorded"
  /\ UNCHANGED <<exists, deleting, finalizer>>

(* The user deletes the resource.                                          *)
Delete ==
  /\ exists /\ ~deleting
  /\ IF finalizer THEN deleting' = TRUE /\ UNCHANGED exists
                  ELSE exists' = FALSE /\ UNCHANGED deleting
  /\ UNCHANGED <<finalizer, tenant>>

(* The tenant is deleted, by the operator or by someone else.              *)
Deprovision ==
  /\ tenant # "none" /\ tenant' = "none"
  /\ UNCHANGED <<exists, deleting, finalizer>>

Release ==
  /\ exists /\ deleting /\ finalizer /\ tenant # "recorded"
  /\ exists' = FALSE /\ finalizer' = FALSE
  /\ UNCHANGED <<deleting, tenant>>

Next ==
  Protect \/ Provision \/ Record \/ Delete \/ Deprovision \/ Release

(* A deletion once begun goes on to the end.                               *)
Fairness ==
  /\ WF_vars(Release)
  /\ WF_vars(deleting /\ tenant = "recorded" /\ Deprovision)

(* The order of the stages, without the promise that they come about.      *)
Safety == Init /\ [][Next]_vars

Spec == Safety /\ Fairness
================================================================================
