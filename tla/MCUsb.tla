-------------------------------- MODULE MCUsb --------------------------------
(* Worlds for TLC. *)
EXTENDS UsbHost

Labels == BetweenRequests \cup {"load", "start", "check", "sleep", "wait_done", "zero_done",
            "zero_again", "zero_retry", "read_ctl", "retry_cnt", "retry_flag", "check_plug"}

MakeWorld(prompt, glitch, stray, pullAt, putAt) ==
    [prompt |-> prompt, glitch |-> glitch, stray |-> stray, pullAt |-> pullAt, putAt |-> putAt]

(* The keyboard comes and goes between requests; it stays, with retries;   *)
(* anything may happen at any time; it may be pulled out during a request. *)
CalmWorld    == MakeWorld(TRUE, FALSE, FALSE, BetweenRequests \cup {"check_plug"}, BetweenRequests)
RetryWorld   == MakeWorld(TRUE, TRUE, FALSE, {}, BetweenRequests)
TroubleWorld == MakeWorld(FALSE, TRUE, TRUE, Labels, Labels)
PulledWorld  == MakeWorld(TRUE, FALSE, FALSE, {"sleep"}, BetweenRequests)

AllWorlds    == {CalmWorld, RetryWorld, TroubleWorld}
PulledWorlds == {PulledWorld}
=============================================================================
