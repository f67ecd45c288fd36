----------------------------- MODULE BootSysctl -----------------------------
(***************************************************************************)
(* A boot-time query through the sysctl hooks                              *)
(* (BootTimeSysctlMitigation.c): the caller's buffer and the length it     *)
(* claims, in words of which struct timeval is "Required".  A call is      *)
(* [room, length, write, tells, written, result]: room is what the caller  *)
(* really has (0: a null oldp), length is *oldlenp.                        *)
(***************************************************************************)
EXTENDS Naturals

CONSTANT Required

ASSUME RequiredAssumption == Required \in Nat \ {0}

Query(room, length, write) ==
  [room |-> room, length |-> length, write |-> write,
   tells |-> "nothing", written |-> 0, result |-> "none"]

Answered(call, tells) ==
  [call EXCEPT !.length = Required, !.result = "success",
               !.tells = IF call.room = 0 THEN "nothing" ELSE tells,
               !.written = IF call.room = 0 THEN 0 ELSE Required]

Refused(call) == [call EXCEPT !.length = Required, !.result = "ENOMEM"]

(* LHBootTimeCopyOut, "synthetic": there is a boot time to tell. *)
CopyOut(call, synthetic) ==
  CASE ~synthetic -> [call EXCEPT !.result = "ENOENT"]
    [] synthetic /\ call.room # 0 /\ call.length < Required -> Refused(call)
    [] OTHER -> Answered(call, "synthetic")

(* The kernel answers as CopyOut does, and refuses to set the boot time.   *)
Kernel(call) ==
  CASE call.write -> [call EXCEPT !.result = "EPERM"]
    [] ~call.write /\ call.room # 0 /\ call.length < Required -> Refused(call)
    [] OTHER -> Answered(call, "real")

(* A replacement before it calls its original, which it does unless this   *)
(* is a success; what CopyOut did to the length stays for that call.       *)
Replacement(call, synthetic) == IF call.write THEN call ELSE CopyOut(call, synthetic)

(* The public wrapper calls the private one, which is hooked on its own.   *)
Private(call, synthetic, hooked) ==
  LET tried == IF hooked THEN Replacement(call, synthetic) ELSE call
  IN IF tried.result = "success" THEN tried ELSE Kernel(tried)

Public(call, synthetic, hooked) ==
  LET tried == Replacement(call, synthetic)
  IN IF tried.result = "success" THEN tried ELSE Private(tried, synthetic, hooked)
=============================================================================
