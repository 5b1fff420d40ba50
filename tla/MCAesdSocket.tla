---------------------------- MODULE MCAesdSocket ----------------------------
(***************************************************************************)
(* Two clients and a device of two commands.  Between them the clients     *)
(* send more commands than the device keeps, a seek it accepts, one it     *)
(* rejects, and a packet without '\n'.                                     *)
(*                                                                         *)
(* With the regular file, each client sends one packet and the timer       *)
(* expires twice; an earlier run has left a line in the file.              *)
(***************************************************************************)
EXTENDS AesdSocket, TLC

CONSTANTS c1, c2, x, y, nl, stamp

MCClient == {c1, c2}

MCScript == { <<Line(<<x, nl>>), Line(<<nl>>)>>,
              <<Line(<<y, nl>>), SeekCmd(1, 0)>>,
              <<SeekCmd(0, 1)>>,
              <<Part>> }

MCFileScript == { <<Line(<<x, nl>>)>> }

MCStamp == <<stamp, nl>>

MCLeftover == {<<y, nl>>}

=============================================================================
