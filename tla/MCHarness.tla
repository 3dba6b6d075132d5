----------------------------- MODULE MCHarness -----------------------------
(***************************************************************************)
(* Small instances of Harness.                                             *)
(***************************************************************************)
EXTENDS Harness

Opts(b, s, l, d) == [background |-> b, save |-> s, load |-> l, dry_run |-> d]

\* Standalone, recording to a file without tests, and testing from that file; in
\* the background.
MCOptions == {Opts(FALSE, TRUE, FALSE, TRUE), Opts(FALSE, FALSE, TRUE, FALSE),
              Opts(TRUE, FALSE, FALSE, FALSE)}

SaveAndLoad == {Opts(FALSE, TRUE, FALSE, FALSE), Opts(FALSE, FALSE, TRUE, FALSE)}
============================================================================
