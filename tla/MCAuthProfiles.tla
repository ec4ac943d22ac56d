--------------------------- MODULE MCAuthProfiles ---------------------------
EXTENDS AuthProfiles, TLC

CONSTANTS d1, d2, c1, daemon, terminal, home, other

InProcess == (d1 :> daemon) @@ (d2 :> daemon) @@ (c1 :> terminal)

\* two requests of the daemon, one of them with an override, and any command
TheCalls ==
  (d1 :> {<<"token", None>>}) @@ (d2 :> {<<"token", home>>})
    @@ (c1 :> {<<"token", None>>}
                 \cup {"token", "login", "remove", "activate"} \X Profiles)
=============================================================================
