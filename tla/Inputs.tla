------------------------------ MODULE Inputs -------------------------------
(***************************************************************************)
(* The configuration and the client address are computed from their input  *)
(* in one go: a behaviour looks at one input, which never changes, and the *)
(* properties say what is computed from it.                                *)
(***************************************************************************)
EXTENDS Configuration, ClientAddress

VARIABLE task   \* [kind |-> "config", file, env], [kind |-> "xff", peer, values, prefixes, forged] or another kind

\* Every configuration of the run, see HoneytokensCovered (SensitiveValues,
\* newSensitiveValueReplacer).
HoneytokensRedacted == task.kind = "config" => HoneytokensCovered(task.file, task.env)

\* Every chain of proxies of the run, see Unforged (clientAddrFromXFF).
ClientAddressUnforged ==
    task.kind = "xff" => Unforged(task.peer, task.values, task.prefixes, task.forged)
====
