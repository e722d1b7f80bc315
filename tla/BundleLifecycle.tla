--------------------------- MODULE BundleLifecycle ---------------------------
(***************************************************************************)
(* What the container stack promises about one submitted bundle, without   *)
(* saying who does the work: the bundle is accepted once, claimed once,    *)
(* its two result documents appear in a fixed order while it is being      *)
(* processed and are never replaced, and its status ends as completed or   *)
(* failed.  IngestStack implements this module.                            *)
(*                                                                         *)
(* Revoke is part of the promise because the code takes it: an update that *)
(* reaches the database while its reply is lost makes the worker write     *)
(* failed over completed.  MayRevoke says whether replies can be lost.     *)
(***************************************************************************)
CONSTANTS BundleIds,   \* the bundle identifiers clients may use
          Payloads,    \* the bundle contents clients may submit
          None,        \* no content, no document
          MayRevoke    \* whether a completed bundle may still become failed

VARIABLES stage,      \* the status of each bundle
          content,    \* the submitted content, None before it is accepted
          parsed,     \* the content the parsed result was computed from
          report      \* the content the report was computed from

lifecycleVars == <<stage, content, parsed, report>>

Stages == {"absent", "pending", "processing", "completed", "failed"}

LifecycleInit ==
    /\ stage = [b \in BundleIds |-> "absent"]
    /\ content = [b \in BundleIds |-> None]
    /\ parsed = [b \in BundleIds |-> None]
    /\ report = [b \in BundleIds |-> None]

Accept(b, p) ==
    /\ stage[b] = "absent"
    /\ stage' = [stage EXCEPT ![b] = "pending"]
    /\ content' = [content EXCEPT ![b] = p]
    /\ UNCHANGED <<parsed, report>>

Claim(b) ==
    /\ stage[b] = "pending"
    /\ stage' = [stage EXCEPT ![b] = "processing"]
    /\ UNCHANGED <<content, parsed, report>>

PublishParsed(b) ==
    /\ stage[b] = "processing"
    /\ parsed[b] = None
    /\ parsed' = [parsed EXCEPT ![b] = content[b]]
    /\ UNCHANGED <<stage, content, report>>

PublishReport(b) ==
    /\ stage[b] = "processing"
    /\ parsed[b] # None
    /\ report[b] = None
    /\ report' = [report EXCEPT ![b] = content[b]]
    /\ UNCHANGED <<stage, content, parsed>>

Complete(b) ==
    /\ stage[b] = "processing"
    /\ report[b] # None
    /\ stage' = [stage EXCEPT ![b] = "completed"]
    /\ UNCHANGED <<content, parsed, report>>

Fail(b) ==
    /\ stage[b] = "processing"
    /\ stage' = [stage EXCEPT ![b] = "failed"]
    /\ UNCHANGED <<content, parsed, report>>

Revoke(b) ==
    /\ MayRevoke
    /\ stage[b] = "completed"
    /\ stage' = [stage EXCEPT ![b] = "failed"]
    /\ UNCHANGED <<content, parsed, report>>

LifecycleNext ==
    \E b \in BundleIds :
        \/ \E p \in Payloads : Accept(b, p)
        \/ Claim(b)
        \/ PublishParsed(b)
        \/ PublishReport(b)
        \/ Complete(b)
        \/ Fail(b)
        \/ Revoke(b)

LifecycleSpec == LifecycleInit /\ [][LifecycleNext]_lifecycleVars
=============================================================================
