----------------------------- MODULE MCUpdates -----------------------------
(***************************************************************************)
(* An instance of Updates for TLC: user 1 chooses a mode twice on Telegram *)
(* and also writes on MAX.                                                 *)
(***************************************************************************)
EXTENDS Updates

From(u, kind) == [user |-> u, kind |-> kind]

TheStream ==
    [p \in Platforms |->
        IF p = "telegram" THEN <<From(1, "auto"), From(1, "manual"), From(1, "message")>>
                          ELSE <<From(1, "message")>>]
=============================================================================
