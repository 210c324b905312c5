------------------------------ MODULE MCHostTests ------------------------------
EXTENDS HostTests

\* An application with a volume, the identity provider that --auth pulls in
\* (without one), and a native service.  The third test removes what it never adds.
MCServices == {"app", "idp", "tool"}
MCNative == {"tool"}
MCVolumes == {"app"}
MCTests == {"t1", "t2", "t3"}
MCScript == [t \in MCTests |->
    CASE t = "t1" -> << Do("add", "app", {"idp"}), Do("check", "app", {}), Do("remove", "app", {}) >>
      [] t = "t2" -> SimpleScript(<<"idp", "tool">>)
      [] t = "t3" -> << Do("remove", "app", {}), Do("add", "idp", {}) >>]
MCPulling == {<<"t1">>, <<"t2">>, <<"t1", "t2">>}
MCSelections == MCPulling \cup {<<"t3">>}
================================================================================
