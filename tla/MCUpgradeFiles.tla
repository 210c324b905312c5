--------------------------- MODULE MCUpgradeFiles ---------------------------
(***************************************************************************)
(* UpgradeFiles for TLC: a quadlet that changes with every version, a      *)
(* config that only the second version ships, and the Caddyfile.           *)
(***************************************************************************)
EXTENDS UpgradeFiles

MCFiles == {"quadlet", "config", "caddyfile"}
MCLines == {"self", "other", "edit", "v1", "v2", "v3"}
MCRender ==
    << [quadlet |-> <<"v1">>, config |-> Absent],
       [quadlet |-> <<"v2">>, config |-> <<"v2">>],
       [quadlet |-> <<"v3">>, config |-> Absent] >>
MCKeys == {"k1", "k2"}
MCRenderKeys == << {"k1"}, {"k1", "k2"}, {"k2"} >>
==============================================================================
