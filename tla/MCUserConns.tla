---------------------------- MODULE MCUserConns ----------------------------
(* The proxy services for model checking: the four services, each kind of  *)
(* parent, and a socks5 proxy before the parents of http and of tcp.       *)
EXTENDS UserConns

Service(k, p, proxy) == [kind |-> k, parent |-> p, proxy |-> proxy]

MCServices ==
    {Service("http", "none", FALSE), Service("http", "lb", TRUE),
     Service("socks", "none", FALSE), Service("socks", "lb", FALSE), Service("socks", "ssh", FALSE),
     Service("sps", "lb", FALSE), Service("tcp", "fixed", TRUE)}

=============================================================================
