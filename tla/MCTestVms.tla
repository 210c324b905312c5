------------------------------- MODULE MCTestVms -------------------------------
EXTENDS TestVms

\* A small test, and a large one that drives a browser; each adds one service.
MCTests == {"t1", "t2"}
MCAdds == [t \in MCTests |-> IF t = "t1" THEN {"app"} ELSE {"big"}]
MCImplied == [t \in MCTests |-> {}]
MCMemory == [s \in {"app", "big"} |-> IF s = "app" THEN 0 ELSE 1000]
MCImages == [s \in {"app", "big"} |-> {"c"}]
MCSelections == {<<"t1">>, <<"t2", "t1">>}
MCSizes == {1024, 2048}
MCAvailable == {Unknown, 3500, 5000}
================================================================================
