--------------------------- MODULE MCOverlayStore ---------------------------
(***************************************************************************)
(* Two provider ids, 1 configured in the TOML file with a chain of aliases *)
(* 1 -> 2 -> 3 and with 3 disabled.  1 may become an entry without alias,  *)
(* 3 a second alias of 2, and every id is switched and deleted.            *)
(***************************************************************************)
EXTENDS OverlayStore

On(id, up) == [id |-> id, up |-> up, enabled |-> TRUE]
Off(id, up) == [On(id, up) EXCEPT !.enabled = FALSE]
Config(catalog, disabled) ==
  [enabled |-> TRUE, dest |-> 1, key |-> 1, catalog |-> catalog, disabled |-> disabled]
Configured(c) == [p \in Providers |-> IF p = 1 THEN c ELSE None]

MCToml == Configured(Config(<<On(1, 2), On(2, 3)>>, {3}))
MCNewProviders == {Config(<<On(1, 2), On(3, None)>>, {})}
MCEntries == {On(1, None), On(3, 2), Off(1, 2)}
MCEdits ==
  {[enabled |-> FALSE, dest |-> 2, key |-> 1], [enabled |-> TRUE, dest |-> 1, key |-> 2]}

(* Two aliases of one upstream model in the TOML file. *)
MCSiblings == Configured(Config(<<On(1, 2), On(3, 2)>>, {}))
=============================================================================
