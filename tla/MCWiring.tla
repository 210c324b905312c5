------------------------------- MODULE MCWiring -------------------------------
(* Four scenes: a proxy, an identity provider and an application; a proxy, a    *)
(* relay, an application and a native service; a store, a dashboard and a       *)
(* scraped application; a store, an exporter on the host's network and a native *)
(* service that is scraped.                                                     *)
EXTENDS Wiring

CONSTANTS app, db, site, node

MCServices == {Proxy, Idp, Relay, Store, Dash, app, db, site, node}
MCScenes == {{Proxy, Idp, app}, {Proxy, Relay, app, site}, {Store, Dash, db},
             {Store, Dash, node, site}}

Plain == [url |-> "none", auth |-> FALSE, smtp |-> FALSE]
At1(host) == [Plain EXCEPT !.url = host]

MCRequests ==
    [s \in MCServices |->
        CASE s = Idp -> {At1("a"), At1("tailnet")}
          [] s = app -> {Plain, At1("b"), [At1("b") EXCEPT !.auth = TRUE],
                         [At1("tailnet") EXCEPT !.auth = TRUE],
                         [At1("b") EXCEPT !.smtp = TRUE]}
          [] s = site -> {At1("a")}
          [] OTHER -> {Plain}]
===============================================================================
