--------------------------- MODULE CommandDevice ----------------------------
(***************************************************************************)
(* Abstract specification of the aesdchar device: the last MaxWriteOps     *)
(* newline-terminated commands, and the bytes of the command that is still *)
(* unterminated.  A write is one indivisible step however many tasks write.*)
(***************************************************************************)
EXTENDS BoundedLog

CONSTANTS Payload,      \* the byte strings tasks write
          NL            \* the byte that terminates a command

VARIABLES up,           \* the module is loaded
          log,          \* the completed commands, oldest first
          pending       \* the unterminated command

vars == <<up, log, pending>>

Terminated(bytes) == \E i \in DOMAIN bytes : bytes[i] = NL

Init == up = TRUE /\ log = << >> /\ pending = << >>

Write(bytes) ==
    LET command == pending \o bytes IN
    /\ up
    /\ IF Terminated(command)
       THEN log' = Push(log, command) /\ pending' = << >>
       ELSE log' = log /\ pending' = command
    /\ UNCHANGED up

\* Unloading the module forgets everything.
Unload == up /\ up' = FALSE /\ log' = << >> /\ pending' = << >>

Load == ~up /\ up' = TRUE /\ UNCHANGED <<log, pending>>

Next == Unload \/ Load \/ \E bytes \in Payload : Write(bytes)

Spec == Init /\ [][Next]_vars

=============================================================================
