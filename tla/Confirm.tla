------------------------------ MODULE Confirm -------------------------------
(***************************************************************************)
(* The "confirm" field of a check (internal/confirm): what is in the JSON   *)
(* and the configuration that evaluateWithBurst gets from it.               *)
(*                                                                         *)
(* Raw values are records: the shape, the value of a boolean, and for an    *)
(* object the fields that are written; "malformed" is an object with an     *)
(* unknown field, a value of a wrong type or an interval that durationx     *)
(* does not accept.                                                         *)
(***************************************************************************)
EXTENDS Integers

DefaultChecks == 3
DefaultInterval == 30

Config(oneStrike, checks, interval) ==
  [oneStrike |-> oneStrike, checks |-> checks, interval |-> interval]

Default == Config(FALSE, DefaultChecks, DefaultInterval)

\* The Config that comes with an error; its callers give up.
Error == [error |-> TRUE]

ParseBool(value) == IF value THEN Error ELSE Config(TRUE, 0, 0)

ParseObject(fields) ==
  LET checks == IF "checks" \in DOMAIN fields THEN fields.checks ELSE DefaultChecks
      interval == IF "interval" \in DOMAIN fields THEN fields.interval
                                                  ELSE DefaultInterval
  IN IF checks < 1 THEN Error ELSE Config(FALSE, checks, interval)

Absent == [shape |-> "absent"]
Bool(value) == [shape |-> "bool", value |-> value]
Object(fields) == [shape |-> "object", fields |-> fields]

Parse(raw) ==
  CASE raw.shape = "absent" -> Default
    [] raw.shape = "bool"   -> ParseBool(raw.value)
    [] raw.shape = "object" -> ParseObject(raw.fields)
    [] raw.shape = "malformed" -> Error
=============================================================================
