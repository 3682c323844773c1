------------------------------- MODULE Socks5 -------------------------------
(***************************************************************************)
(* The SOCKS5 handshake of core/socks5 as functions of what each side      *)
(* reads: the server's choices (server.go), the verdict of the credentials *)
(* center (core/basicAuth) and the outcome of the client's exchange with a *)
(* parent proxy (client.go).  Bytes are abstracted to the cases the code   *)
(* tells apart; a message that cannot be read is "bad".                    *)
(***************************************************************************)

(* What a greeting can offer and the commands of a request.                *)
Methods  == {"noauth", "userpass"}
Commands == {"connect", "bind", "associate", "other"}

(* Pairs of user and password: the empty one, ":", and another.  A center  *)
(* of credentials has pairs of its own, from flags or a file, and may ask  *)
(* a URL; a server may have no center.                                     *)
Pairs    == {"empty", "user"}
NoCenter == [on |-> FALSE, pairs |-> {}, url |-> FALSE]
Centers  == [on : {TRUE}, pairs : SUBSET Pairs, url : BOOLEAN] \cup {NoCenter}

(* A faulty variant: no credentials are asked of a client offering none.   *)
SelectMethodLax(center, offered) ==
    CASE "noauth" \in offered /\ "userpass" \notin offered -> "noauth"
      [] "userpass" \in offered                            -> "userpass"
      [] OTHER                                             -> "unacceptable"

(* The method a server answers a greeting with.  Without a center it still *)
(* asks for the credentials of a client that offers to send them: they are *)
(* passed on to the parent.                                                *)
SelectMethod(center, offered) ==
    CASE ~center.on /\ "noauth" \in offered /\ "userpass" \notin offered -> "noauth"
      [] "userpass" \in offered                                          -> "userpass"
      [] OTHER                                                           -> "unacceptable"

(* Center.Verify: the pair is one of the center's own, or the URL, which   *)
(* says what it likes, answers with the success code.                      *)
VerifyFromLocal(center, pair) == pair \in center.pairs
VerifyFromURL(center, answer) == center.url /\ answer
Verify(center, pair, answer) == VerifyFromLocal(center, pair) \/ VerifyFromURL(center, answer)

(* The pair Server.Handshake has verified when the client has sent one: it *)
(* formats s.user and s.password, which nothing assigns.  What was sent is *)
(* kept in s.pAuth.                                                        *)
Verified(sent) == "empty"

(* The user and password message is answered with success if there is no   *)
(* center or the center accepts.                                           *)
AuthAccepts(center, sent, answer) == ~center.on \/ Verify(center, Verified(sent), answer)

(* The outcome of a request: only CONNECT, and ASSOCIATE when the server   *)
(* relays UDP, succeed.  A command the code does not know is answered with *)
(* nothing at all and still returns no error.                              *)
RequestOutcome(cmd, enableUDP, listens) ==
    CASE cmd = "bind"                                 -> "refused"
      [] cmd = "associate" /\ ~(enableUDP /\ listens) -> "refused"
      [] OTHER                                        -> cmd

(* The credentials a client sends to the parent: those configured for it   *)
(* if they are a pair, otherwise those of the socks client, if this server *)
(* did not check them itself.                                              *)
RealAuth(parentAuth, center, clientAuth, fromSS) ==
    CASE parentAuth = "pair"                                -> "parent"
      [] parentAuth = "bad"                                 -> "error"
      [] ~fromSS /\ ~center.on /\ clientAuth                  -> "client"
      [] OTHER                                              -> "none"

(* The methods a client offers with those credentials.                     *)
Greeting(auth) == IF auth = "none" THEN {"noauth"} ELSE Methods

(* Everything a parent can answer: a method, which need not be one that    *)
(* was offered, the verdict on the credentials, and the reply with the     *)
(* type of its address.                                                    *)
ParentAnswers == [method : Methods \cup {"unacceptable", "unread"},
                  auth   : {"accept", "reject", "unread"},
                  reply  : {"success", "error", "unread"},
                  atyp   : {"ip", "domain", "unknown"}]

(* Client.handshake: it goes on exactly as the parent's answers tell it    *)
(* to, whatever it offered.                                                *)
Negotiated(answer) ==
    /\ answer.method \notin {"unacceptable", "unread"}
    /\ answer.method = "userpass" => answer.auth = "accept"

(* Client.Handshake: the negotiation, then the request and its reply.      *)
ClientHandshake(auth, answer) ==
    /\ auth # "error"
    /\ Negotiated(answer)
    /\ answer.reply = "success"
    /\ answer.atyp # "unknown"

(* The outcomes of HandshakeSocksParent for the credentials that may be    *)
(* configured and what a parent may answer.                                *)
ParentOutcomes ==
    {ClientHandshake(RealAuth(parentAuth, center, clientAuth, fromSS), answer) :
        parentAuth \in {"none", "pair", "bad"}, center \in Centers,
        clientAuth \in BOOLEAN, fromSS \in BOOLEAN, answer \in ParentAnswers}
=============================================================================
