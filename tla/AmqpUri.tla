------------------------------ MODULE AmqpUri ------------------------------
(***************************************************************************)
(* From the -uri flag to the transport (uri.go, the dialing half of        *)
(* connection.go): what ParseURI makes of a URL, what String makes of a    *)
(* URI, and the address, credentials and vhost DialConfig opens with.      *)
(* The parts of a URL are sequences of tokens: brackets, colons, slashes,  *)
(* and pluses are themselves, "blank" is one, "1" is a digit, and others   *)
(* stand for other text.  One Config may serve several dials.              *)
(***************************************************************************)
EXTENDS Naturals, Sequences, SequencesExt

CONSTANTS
  Urls,      \* URLs as net/url splits them: scheme, host, user, password, path
  Later,     \* those that are dialed with a Config dialed with before
  Configs    \* what DialConfig is given: whether with TLS, its server name, SASL, vhost

AmqpUriAssumption ==
  /\ \A u \in Urls : u.host \in Seq(STRING) /\ u.path \in Seq(STRING)
  /\ Later \subseteq Urls
  /\ \A c \in Configs : c.tls \in BOOLEAN

Schemes == {"amqp", "amqps"}
schemePorts == [s \in Schemes |-> IF s = "amqp" THEN <<"5672">> ELSE <<"5671">>]

None == <<"none">>   \* no user in the URL, no password behind it, nothing given

defaultURI == [Scheme |-> "amqp", Host |-> <<"localhost">>, Port |-> <<"5672">>,
               Username |-> <<"guest">>, Password |-> <<"guest">>, Vhost |-> <<"/">>]

-----------------------------------------------------------------------------
(* splitHostPort: at the last colon, unless that one is inside brackets.   *)

HostPort(host, port) == [host |-> host, port |-> port]

splitAnywhere(addr) ==
  LET i == SelectLastInSeq(addr, LAMBDA t : t = ":")
  IN IF i = 0 THEN HostPort(addr, <<>>) ELSE HostPort(SubSeq(addr, 1, i - 1), SubSeq(addr, i + 1, Len(addr)))

splitHostPort(addr) ==
  LET i == SelectLastInSeq(addr, LAMBDA t : t = ":")
      port == SubSeq(addr, i + 1, Len(addr))
      inner == port # <<>> /\ Last(port) = "]" /\ addr[1] = "["
  IN IF i = 0 \/ inner THEN HostPort(addr, <<>>) ELSE HostPort(SubSeq(addr, 1, i - 1), port)

-----------------------------------------------------------------------------
(* ParseURI. *)

Failed == [err |-> TRUE, uri |-> defaultURI]
Ok(uri) == [err |-> FALSE, uri |-> uri]

Or(text, default) == IF text = <<>> THEN default ELSE text

vhost(u) ==
  IF u.path = <<>> THEN defaultURI.Vhost
  ELSE IF Head(u.path) # "/" THEN u.path
  ELSE IF u.host = <<>> /\ IsPrefix(<<"/", "/", "/">>, u.path) THEN Or(SubSeq(u.path, 4, Len(u.path)), defaultURI.Vhost)
  ELSE Or(Tail(u.path), defaultURI.Vhost)

(* ParseInt, for 32 bits: eleven digits are too many.                      *)
IsNumber(s) == Len(s) \in 1..10 /\ \A i \in 1..Len(s) : s[i] = "1"

ParseURI(u) ==
  LET hp == splitHostPort(u.host)
  IN IF u.scheme \notin Schemes \/ ~(hp.port = <<>> \/ IsNumber(hp.port)) THEN Failed
     ELSE Ok([Scheme   |-> u.scheme,
              Host     |-> Or(hp.host, defaultURI.Host),
              Port     |-> IF hp.port = <<>> THEN schemePorts[u.scheme] ELSE hp.port,
              Username |-> IF u.user = None THEN defaultURI.Username ELSE u.user,
              Password |-> IF u.password = None THEN defaultURI.Password ELSE u.password,
              Vhost    |-> vhost(u)])

(* String, as net/url splits the text again.  Defaults are left out.  Name *)
(* and password are written as they are, and a slash in them ends the      *)
(* authority.  QueryEscape escapes the vhost: a slash and a plus survive,  *)
(* a blank becomes a plus that nothing turns back in a path.               *)
NamedAuthority(me) ==
  LET full == me.Username # defaultURI.Username
  IN [user     |-> IF full THEN me.Username ELSE None,
      password |-> IF full /\ me.Password # defaultURI.Password THEN me.Password ELSE None]

StringAuthority(me) ==
  LET full == me.Username # defaultURI.Username \/ me.Password # defaultURI.Password
  IN [user     |-> IF full THEN me.Username ELSE None,
      password |-> IF full /\ me.Password # defaultURI.Password THEN me.Password ELSE None]

Respaced(path) == [i \in 1..Len(path) |-> IF path[i] = "blank" THEN "+" ELSE path[i]]

Torn(me) == "/" \in Range(me.Username) \cup Range(me.Password)

TornAt(text) ==
  LET slash == SelectInSeq(text, LAMBDA t : t = "/")
  IN [host |-> SubSeq(text, 1, slash - 1), path |-> SubSeq(text, slash, Len(text))]

StringOf(me) ==
  LET host == me.Host \o (IF me.Port # schemePorts[me.Scheme] THEN <<":">> \o me.Port ELSE <<>>)
      path == <<"/">> \o (IF me.Vhost # defaultURI.Vhost THEN Respaced(me.Vhost) ELSE <<>>)
      torn == TornAt(me.Username \o <<":">> \o me.Password \o <<"@">> \o host \o path)
  IN IF Torn(me)
     THEN [scheme |-> me.Scheme, host |-> torn.host, user |-> None, password |-> None, path |-> torn.path]
     ELSE [scheme |-> me.Scheme, host |-> host, user |-> StringAuthority(me).user,
           password |-> StringAuthority(me).password, path |-> path]

-----------------------------------------------------------------------------
(* DialConfig. *)

(* net.JoinHostPort puts brackets around a host with a colon, and the      *)
(* dialer takes them off again; what it then finds may hold no bracket,    *)
(* and no colon when there were none to take off.                          *)
JoinHostPort(host, port) == [host |-> IF Contains(host, ":") THEN <<"[">> \o host \o <<"]">> ELSE host, port |-> port]

Unbracketed(host) == IF host # <<>> /\ Head(host) = "[" /\ Last(host) = "]" THEN SubSeq(host, 2, Len(host) - 1) ELSE host

Dialable(addr) ==
  LET inside == Unbracketed(addr.host)
  IN /\ ~Contains(inside, "[") /\ ~Contains(inside, "]")
     /\ Contains(inside, ":") => inside # addr.host

VARIABLES
  url,      \* what Dial was given
  given,    \* the Config it was given
  tlsName,  \* the ServerName in the tls.Config of the caller
  config,   \* the address dialed, and what Open is given
  secure,   \* has TLS shaken hands on the connection
  pc

vars == <<url, given, tlsName, config, secure, pc>>

Unset == [addr |-> None, sasl |-> None, vhost |-> None, tls |-> FALSE, serverName |-> None]

Init ==
  /\ url \in Urls /\ given \in Configs /\ tlsName = given.serverName
  /\ pc = "dial" /\ secure = FALSE /\ config = Unset

DialFails ==
  /\ pc = "dial" /\ ParseURI(url).err
  /\ pc' = "failed"
  /\ UNCHANGED <<url, given, tlsName, config, secure>>

Dial ==
  /\ pc = "dial" /\ ~ParseURI(url).err
  /\ LET uri == ParseURI(url).uri
     IN config' = [addr       |-> JoinHostPort(uri.Host, uri.Port),
                   sasl       |-> IF given.sasl = None THEN <<uri.Username, uri.Password>> ELSE given.sasl,
                   vhost      |-> IF given.vhost = None THEN uri.Vhost ELSE given.vhost,
                   tls        |-> given.tls \/ uri.Scheme = "amqps",
                   serverName |-> IF given.tls THEN tlsName ELSE None]
  /\ pc' = "dialing"
  /\ UNCHANGED <<url, given, tlsName, secure>>

(* The dialer connects, or not.  With TLS, the host of the URL is put into *)
(* a copy of the tls.Config that names no server; TLS shakes hands, or     *)
(* not; then Open.                                                         *)
ConnectsInTheClear ==
  /\ pc = "dialing" /\ Dialable(config.addr)
  /\ pc' = IF given.tls THEN "handshake" ELSE "open"
  /\ UNCHANGED <<url, given, tlsName, config, secure>>

SharedName == IF given.tls /\ tlsName = None THEN ParseURI(url).uri.Host ELSE tlsName
CopiedName == tlsName

Connects ==
  /\ pc = "dialing" /\ Dialable(config.addr)
  /\ IF config.tls
     THEN /\ pc' = "handshake" /\ tlsName' = CopiedName
          /\ config' = IF config.serverName = None THEN [config EXCEPT !.serverName = ParseURI(url).uri.Host] ELSE config
     ELSE pc' = "open" /\ UNCHANGED <<tlsName, config>>
  /\ UNCHANGED <<url, given, secure>>

Handshake ==
  /\ pc = "handshake"
  /\ pc' = "open" /\ secure' = TRUE
  /\ UNCHANGED <<url, given, tlsName, config>>

GivesUp ==
  /\ pc \in {"dialing", "handshake"}
  /\ pc' = "failed"
  /\ UNCHANGED <<url, given, tlsName, config, secure>>

(* The caller dials another URL with the same Config.                      *)
DialAgain ==
  /\ pc \in {"open", "failed"}
  /\ url' \in Later
  /\ pc' = "dial" /\ config' = Unset /\ secure' = FALSE
  /\ UNCHANGED <<given, tlsName>>

Next == DialFails \/ Dial \/ Connects \/ Handshake \/ GivesUp \/ DialAgain

Spec == Init /\ [][Next]_vars

-----------------------------------------------------------------------------
Word(s) == s # <<>> /\ \A i \in 1..Len(s) : s[i] \in {"h", "1"}
Inside(s) == s # <<>> /\ \A i \in 1..Len(s) : s[i] \in {"h", "1", ":"}
Bracketed(s) == Len(s) > 2 /\ Head(s) = "[" /\ Last(s) = "]" /\ Inside(Unbracketed(s))

(* The addresses "host:port, host, [ho:st]:port, or [ho:st]" of uri.go:113 *)
(* with their parts.                                                       *)
Grammar(addr) ==
  {hp \in {HostPort(SubSeq(addr, 1, k), SubSeq(addr, k + 2, Len(addr))) : k \in 0..Len(addr)} :
     /\ Word(hp.host) \/ Bracketed(hp.host)
     /\ addr = hp.host \/ (Word(hp.port) /\ addr = hp.host \o <<":">> \o hp.port)}

(* uri.go:113: "Splits host:port, host, [ho:st]:port, or [ho:st]".         *)
SplitsByGrammar == \A hp \in Grammar(url.host) : splitHostPort(url.host) = hp

(* The text of a parsed URI is a URL of the same URI: nothing String       *)
(* leaves out as a default is anything but what ParseURI puts back, for    *)
(* every mix of scheme, host, port, name, password and vhost that its      *)
(* escaping keeps: no slash in name and password, no blank in the vhost.   *)
StringParsesBack ==
  LET me == ParseURI(url).uri
  IN /\ ~ParseURI(url).err /\ (Grammar(url.host) # {} \/ url.host \in {<<>>, <<":", "1">>})
     /\ ~Torn(me) /\ "blank" \notin Range(me.Vhost)
     => ParseURI(StringOf(me)) = ParseURI(url)

(* connection.go: amqps is not opened before a handshake, and that is for  *)
(* the server the caller named or else for the host of the URL, also when  *)
(* the Config ("so not to modify the caller's reference when the caller    *)
(* reuses a tls.Config for a different URL") has served other URLs before. *)
NeverInTheClear ==
  pc = "open" /\ url.scheme = "amqps" =>
    /\ secure
    /\ config.serverName = IF given.tls /\ given.serverName # None THEN given.serverName
                           ELSE ParseURI(url).uri.Host

(* What uri.go promises of addresses, and DialConfig of their schemes.     *)
AddressesHold == SplitsByGrammar /\ StringParsesBack /\ NeverInTheClear
=============================================================================
