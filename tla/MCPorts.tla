------------------------------- MODULE MCPorts -------------------------------
(* The proxy; a service on 3000 with two slots; and one on 3000 whose next      *)
(* version has the proxy's number before its own, and whose option brings 3000. *)
EXTENDS Ports

CONSTANTS caddy, web, app

MCServices == {caddy, web, app}

MCPortNames == {"http", "http_blue", "http_green", "admin", "db", "plain"}

At(name, container) == [name |-> name, container |-> container, host |-> 0]

MCDeclared ==
    [s \in MCServices |->
        CASE s = caddy -> << << At("http", 8080) >> >>
          [] s = web -> << << At("http", 3000) >> >>
          [] s = app -> << << At("http", 3000) >>, << At("admin", 8080), At("http", 3000) >> >>]

MCGated ==
    [s \in MCServices |->
        IF s = app THEN << At("db", 3000), [At("plain", 8000) EXCEPT !.host = 80] >> ELSE << >>]
===============================================================================
