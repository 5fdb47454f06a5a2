------------------------------- MODULE MCStartup -------------------------------
(***************************************************************************)
(* Two calls of InitXXDK, a database, and two releases.                    *)
(***************************************************************************)
EXTENDS Startup, TLC

CONSTANTS call1, call2, database, release1, release2

MCCalls == {call1, call2}
MCDatabases == {database}
MCReleases == {release1, release2}

=============================================================================
