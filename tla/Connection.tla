----------------------------- MODULE Connection -----------------------------
(***************************************************************************)
(* The binary protocol on one connection: a client that may send requests  *)
(* ahead of the answers, and the worker that reads them unit by unit       *)
(* (src/src/server.c, the handlers of src/src/controller.c, the formats of *)
(* src/src/types.h).  A byte is known by the request and the unit it is    *)
(* of; what a handler finds in the cache, and whether memory suffices, is  *)
(* left open (Controller has it).  Bytes that are no header are never      *)
(* taken for one: a value does not hold the three control bytes.           *)
(***************************************************************************)
EXTENDS Integers, SequencesExt

CONSTANTS
  Requests,     \* the requests the client may send
  MaxRequests,  \* bound on how many it sends
  HeaderSize,   \* sizeof (Request)
  TagSize,      \* of each tag
  NfoSize,      \* sizeof (NFOResponsePayload)
  Sizes         \* of values and lists: Payload.nmemb

ASSUME ConnectionAssumption ==
  /\ Requests \subseteq [op : {"get", "set", "del", "clr", "lst", "nfo", "bad"}, klen : Nat, ntags : Nat,
                         vlen : Nat, only_ttl : BOOLEAN, mode : {"all", "match", "none", "bad"}]
  /\ MaxRequests \in Nat /\ {HeaderSize, TagSize, NfoSize} \subseteq Nat \ {0}
  /\ Sizes \subseteq Nat /\ 0 \in Sizes

(* The formats of types.h: only SET has a value; GET, DEL and NFO have no  *)
(* tags, CLR and LST no key, and what is no operation has nothing.         *)
ASSUME FormatAssumption ==
  \A r \in Requests :
    /\ r.op \in {"clr", "lst", "bad"} => r.klen = 0
    /\ r.op \in {"get", "del", "nfo", "bad"} => r.ntags = 0
    /\ r.op # "set" => r.vlen = 0

VARIABLES
  sent,      \* the requests sent so far
  input,     \* the bytes the worker has not read
  gone,      \* the client has hung up
  pc,        \* "read", "apply", "respond", "payload", "closed"
  unit,      \* what read_request_payload is reading
  need,      \* remaining_size
  got,       \* the bytes of the header
  cur,       \* the number of the request being handled, 0 for garbage
  todo,      \* tags still to be read
  status,    \* StatusCode of the handler
  buffer,    \* worker->payload_buffer: whose bytes it holds, and nmemb
  payload,   \* *response_payload: NULL, the buffer, or alt_payload
  answers,   \* the responses written: header and body
  derailed   \* history: a handler has left bytes of its request unread

reader == <<unit, need, got, todo>>
stream == <<sent, gone>>
vars == <<sent, input, gone, pc, unit, need, got, cur, todo, status, buffer, payload, answers, derailed>>

TypeOK ==
  /\ sent \in Seq(Requests) /\ Len(sent) <= MaxRequests
  /\ input \in Seq([req : 1 .. MaxRequests, part : {"header", "key", "tag_size", "tag", "value"}, at : Nat])
  /\ gone \in BOOLEAN /\ derailed \in BOOLEAN
  /\ pc \in {"read", "apply", "respond", "payload", "closed"}
  /\ unit \in {"header", "key", "tag_size", "tag", "value"}
  /\ need \in Nat /\ todo \in Nat
  /\ Len(got) = IF unit = "header" THEN HeaderSize - need ELSE HeaderSize
  /\ cur \in 0 .. Len(sent)
  /\ status \in {"ok", "protocol", "missing", "memory"}
  /\ buffer \in [of : 0 .. Len(sent), nmemb : Nat]
  /\ payload \in {"none", "buffer", "alt"}
  /\ \A a \in Range(answers) : a.to \in 0 .. Len(sent) /\ a.size \in Nat /\ a.body.nmemb \in Nat

(***************************************************************************)
(* The client.                                                             *)
(***************************************************************************)

Bytes(i, part, n) == [j \in 1 .. n |-> [req |-> i, part |-> part, at |-> j]]

(* n tags, the size of each before it. *)
TagBytes(i, n) ==
  [j \in 1 .. n * (1 + TagSize) |->
     [req |-> i, part |-> IF j % (1 + TagSize) = 1 THEN "tag_size" ELSE "tag", at |-> j]]

(* The formats of the requests: header, key, tags, value. *)
Encode(r, i) ==
  Bytes(i, "header", HeaderSize) \o Bytes(i, "key", r.klen)
  \o TagBytes(i, r.ntags) \o Bytes(i, "value", r.vlen)

Send(r) ==
  /\ ~gone /\ pc # "closed"
  /\ Len(sent) < MaxRequests
  /\ sent' = Append(sent, r)
  /\ input' = input \o Encode(r, Len(sent) + 1)
  /\ UNCHANGED <<gone, pc, reader, cur, status, buffer, payload, answers, derailed>>

HangUp ==
  /\ ~gone /\ pc # "closed"
  /\ gone' = TRUE
  /\ UNCHANGED <<sent, input, pc, reader, cur, status, buffer, payload, answers, derailed>>

(***************************************************************************)
(* Reading.                                                                *)
(***************************************************************************)

Request == sent[cur]
Reading(u) == pc = "read" /\ unit = u
Read(u) == Reading(u) /\ need = 0
Ask(u, n) == pc' = "read" /\ unit' = u /\ need' = n
Respond(s) == pc' = "respond" /\ status' = s
Close == pc' = "closed"

(* Defect: the base moves on, the remaining size does not. *)
ReadSomeMore(n) ==
  /\ pc = "read"
  /\ n \in 1 .. need /\ n <= Len(input)
  /\ input' = SubSeq(input, n + 1, Len(input))
  /\ need' = IF n = need THEN 0 ELSE need
  /\ got' = IF unit = "header" THEN got \o SubSeq(input, 1, n) ELSE got
  /\ UNCHANGED <<stream, pc, unit, cur, todo, status, buffer, payload, answers, derailed>>

(* read may return less than asked for; the loop goes on behind it. *)
ReadSome(n) ==
  /\ pc = "read"
  /\ n \in 1 .. need /\ n <= Len(input)
  /\ input' = SubSeq(input, n + 1, Len(input))
  /\ need' = need - n
  /\ got' = IF unit = "header" THEN got \o SubSeq(input, 1, n) ELSE got
  /\ UNCHANGED <<stream, pc, unit, cur, todo, status, buffer, payload, answers, derailed>>

(* STATUS_CONNECTION_CLOSED *)
ReadFails ==
  /\ pc = "read" /\ need > 0
  /\ gone /\ input = <<>>
  /\ Close
  /\ UNCHANGED <<stream, input, reader, cur, status, buffer, payload, answers, derailed>>

Heard == sent[got[1].req]
IsHeader == got = Bytes(got[1].req, "header", HeaderSize)

(* handle_request: the control bytes and the operation. *)
Refuse ==
  /\ Read("header")
  /\ ~IsHeader \/ Heard.op = "bad"
  /\ cur' = IF IsHeader THEN got[1].req ELSE 0
  /\ payload' = "none"
  /\ Respond("protocol")
  /\ UNCHANGED <<stream, input, reader, buffer, answers, derailed>>

(* Operations that start with a key.  handle_nfo_request has its payload set before. *)
StartKey ==
  /\ Read("header") /\ IsHeader
  /\ cur' = got[1].req
  /\ \/ Heard.op \in {"get", "set", "del"} /\ payload' = "none" /\ UNCHANGED buffer
     \/ /\ Heard.op = "nfo" /\ Heard.klen > 0
        /\ payload' = "buffer" /\ buffer' = [of |-> got[1].req, nmemb |-> NfoSize]
  /\ Ask("key", Heard.klen)
  /\ UNCHANGED <<stream, input, got, todo, status, answers, derailed>>

(* populate_nfo_response *)
ServerInfo ==
  /\ Read("header") /\ IsHeader
  /\ cur' = got[1].req
  /\ Heard.op = "nfo" /\ Heard.klen = 0
  /\ payload' = "buffer" /\ buffer' = [of |-> got[1].req, nmemb |-> NfoSize]
  /\ Respond("ok")
  /\ UNCHANGED <<stream, input, reader, answers, derailed>>

(* The next of n tags, or what comes after them; the tags of request i are *)
(* in the buffer then.                                                     *)
NextTag(i, n) ==
  IF n > 0 THEN Ask("tag_size", 1) /\ todo' = n - 1 /\ UNCHANGED buffer
  ELSE /\ pc' = "apply"
       /\ buffer' = [of |-> i, nmemb |-> sent[i].ntags * TagSize]
       /\ UNCHANGED <<unit, need, todo>>

(* Defect: the mode is tested before the tags have been read. *)
StartTagsChecked ==
  /\ Read("header") /\ IsHeader
  /\ cur' = got[1].req
  /\ Heard.op \in {"clr", "lst"}
  /\ payload' = "none"
  /\ IF Heard.mode = "bad" THEN Respond("protocol") /\ UNCHANGED <<unit, need, todo, buffer>>
     ELSE NextTag(got[1].req, Heard.ntags) /\ UNCHANGED status
  /\ UNCHANGED <<stream, input, got, answers, derailed>>

StartTags ==
  /\ Read("header") /\ IsHeader
  /\ cur' = got[1].req
  /\ Heard.op \in {"clr", "lst"}
  /\ payload' = "none"
  /\ NextTag(got[1].req, Heard.ntags)
  /\ UNCHANGED <<stream, input, got, status, answers, derailed>>

SetTags ==
  /\ Read("key") /\ Request.op = "set" /\ ~Request.only_ttl
  /\ NextTag(cur, Request.ntags)
  /\ UNCHANGED <<stream, input, got, cur, status, payload, answers, derailed>>

ReadTag ==
  /\ Read("tag_size")
  /\ Ask("tag", TagSize)
  /\ UNCHANGED <<stream, input, got, cur, todo, status, buffer, payload, answers, derailed>>

(* The buffer is full: the rest of the request stays unread. *)
TagTooBig ==
  /\ Read("tag_size")
  /\ Respond("memory")
  /\ derailed' = TRUE
  /\ UNCHANGED <<stream, input, reader, cur, buffer, payload, answers>>

TagRead ==
  /\ Read("tag")
  /\ NextTag(cur, todo)
  /\ UNCHANGED <<stream, input, got, cur, status, payload, answers, derailed>>

(***************************************************************************)
(* The handlers.                                                           *)
(***************************************************************************)

(* Defect: an empty value leaves nmemb as it was, and the payload is set. *)
GetStale ==
  /\ Read("key") /\ Request.op = "get"
  /\ \/ Respond("missing") /\ UNCHANGED <<buffer, payload>>
     \/ /\ Respond("ok") /\ payload' = "buffer"
        /\ \E n \in Sizes : buffer' = IF n = 0 THEN buffer ELSE [of |-> cur, nmemb |-> n]
     \/ Close /\ UNCHANGED <<status, buffer, payload>>
  /\ UNCHANGED <<stream, input, reader, cur, answers, derailed>>

(* handle_get_request: not found or expired; a copy of the value; a value  *)
(* that is too big for the buffer is STATUS_BUG.                           *)
Get ==
  /\ Read("key") /\ Request.op = "get"
  /\ \/ Respond("missing") /\ UNCHANGED <<buffer, payload>>
     \/ \E n \in Sizes :
          /\ Respond("ok")
          /\ IF n > 0 THEN payload' = "buffer" /\ buffer' = [of |-> cur, nmemb |-> n]
             ELSE UNCHANGED <<buffer, payload>>
     \/ Close /\ UNCHANGED <<status, buffer, payload>>
  /\ UNCHANGED <<stream, input, reader, cur, answers, derailed>>

Del ==
  /\ Read("key") /\ Request.op = "del"
  /\ Respond("ok") \/ Respond("missing")
  /\ UNCHANGED <<stream, input, reader, cur, buffer, payload, answers, derailed>>

(* SET_FLAG_ONLY_TTL: tags and value are not read. *)
Renew ==
  /\ Read("key") /\ Request.op = "set" /\ Request.only_ttl
  /\ Respond("ok") \/ Respond("missing")
  /\ derailed' = (derailed \/ Request.ntags + Request.vlen > 0)
  /\ UNCHANGED <<stream, input, reader, cur, buffer, payload, answers>>

(* handle_nfo_request with a key: its tags are added, or do not fit. *)
KeyInfo ==
  /\ Read("key") /\ Request.op = "nfo"
  /\ \/ Respond("missing") /\ UNCHANGED buffer
     \/ Respond("ok") /\ \E n \in Sizes : buffer' = [buffer EXCEPT !.nmemb = @ + n]
     \/ Close /\ UNCHANGED <<status, buffer>>
  /\ UNCHANGED <<stream, input, reader, cur, payload, answers, derailed>>

(* reserve_and_lock_entry; without memory the value stays unread. *)
Reserve ==
  /\ pc = "apply" /\ Request.op = "set"
  /\ \/ Ask("value", Request.vlen) /\ UNCHANGED <<status, derailed>>
     \/ Respond("memory") /\ derailed' = (derailed \/ Request.vlen > 0) /\ UNCHANGED <<unit, need>>
  /\ UNCHANGED <<stream, input, got, cur, todo, buffer, payload, answers>>

(* The map may be full. *)
Store ==
  /\ Read("value")
  /\ Respond("ok") \/ Respond("memory")
  /\ UNCHANGED <<stream, input, reader, cur, buffer, payload, answers, derailed>>

Clear ==
  /\ pc = "apply" /\ Request.op = "clr"
  /\ Respond(IF Request.mode = "bad" THEN "protocol" ELSE "ok")
  /\ UNCHANGED <<stream, input, reader, cur, buffer, payload, answers, derailed>>

(* handle_lst_request: what does not fit fails with the payload set;       *)
(* MATCH_NONE uses the room behind the tags, as a payload of its own;      *)
(* without tags the other matches find no keys and have nothing to fit.    *)
List ==
  /\ pc = "apply" /\ Request.op = "lst"
  /\ \/ Request.mode = "bad" /\ Respond("protocol") /\ UNCHANGED <<buffer, payload>>
     \/ /\ Request.mode = "match" /\ Request.ntags = 0
        /\ Respond("ok")
        /\ payload' = "buffer" /\ buffer' = [of |-> cur, nmemb |-> 0]
     \/ /\ Request.mode = "all" \/ (Request.mode = "match" /\ Request.ntags > 0)
        /\ Respond("ok") \/ Respond("memory")
        /\ payload' = "buffer" /\ \E n \in Sizes : buffer' = [of |-> cur, nmemb |-> n]
     \/ /\ Request.mode = "none"
        /\ Respond("ok") \/ Respond("memory")
        /\ payload' = "alt" /\ UNCHANGED buffer
  /\ UNCHANGED <<stream, input, reader, cur, answers, derailed>>

(***************************************************************************)
(* Answering: process_worker_events, write_response.                       *)
(***************************************************************************)

(* payload->nmemb.  alt_payload is local to a block that has been left:    *)
(* each read of it may find another value.                                 *)
Nmemb == CASE payload = "none" -> {0}
           [] payload = "buffer" -> {buffer.nmemb}
           [] payload = "alt" -> Sizes

(* MAKE_SUCCESS_RESPONSE, MAKE_FAILURE_RESPONSE; the body follows. *)
Response(n) ==
  [to |-> cur, ok |-> status = "ok", size |-> IF status = "ok" THEN n ELSE 0,
   from |-> payload, body |-> [of |-> 0, nmemb |-> 0]]

NextRequest == Ask("header", HeaderSize) /\ got' = <<>> /\ cur' = 0 /\ UNCHANGED todo

(* Defect: a request that was refused is not answered. *)
WriteResponseIfKnown ==
  /\ pc = "respond"
  /\ \E n \in Nmemb, m \in Nmemb :
       /\ answers' = IF status = "protocol" THEN answers ELSE Append(answers, Response(n))
       /\ IF m > 0 THEN pc' = "payload" /\ UNCHANGED <<reader, cur>> ELSE NextRequest
  /\ UNCHANGED <<stream, input, status, buffer, payload, derailed>>

(* The payload follows whatever the status is. *)
WriteResponse ==
  /\ pc = "respond"
  /\ \E n \in Nmemb, m \in Nmemb :
       /\ answers' = Append(answers, Response(n))
       /\ IF m > 0 THEN pc' = "payload" /\ UNCHANGED <<reader, cur>> ELSE NextRequest
  /\ UNCHANGED <<stream, input, status, buffer, payload, derailed>>

WritePayload ==
  /\ pc = "payload"
  /\ \E n \in Nmemb :
       answers' = [answers EXCEPT ![Len(answers)].body = [of |-> buffer.of, nmemb |-> n]]
  /\ NextRequest
  /\ UNCHANGED <<stream, input, status, buffer, payload, derailed>>

(* The client is gone, or alt_payload.base is no address any more. *)
WriteFails ==
  /\ \/ pc \in {"respond", "payload"} /\ gone
     \/ pc = "payload" /\ payload = "alt"
  /\ Close
  /\ UNCHANGED <<stream, input, reader, cur, status, buffer, payload, answers, derailed>>

(***************************************************************************)
(* The specification.                                                      *)
(***************************************************************************)

Init ==
  /\ sent = <<>> /\ input = <<>> /\ gone = FALSE
  /\ pc = "read" /\ unit = "header" /\ need = HeaderSize /\ got = <<>>
  /\ cur = 0 /\ todo = 0 /\ status = "ok"
  /\ buffer = [of |-> 0, nmemb |-> 0] /\ payload = "none"
  /\ answers = <<>> /\ derailed = FALSE

Worker ==
  \/ \E n \in 1 .. need : ReadSome(n)
  \/ ReadFails \/ Refuse \/ StartKey \/ ServerInfo \/ StartTags
  \/ SetTags \/ ReadTag \/ TagTooBig \/ TagRead
  \/ Get \/ Del \/ Renew \/ KeyInfo \/ Reserve \/ Store \/ Clear \/ List
  \/ WriteResponse \/ WritePayload \/ WriteFails

Next == (\E r \in Requests : Send(r)) \/ HangUp \/ Worker

Spec == Init /\ [][Next]_vars

(***************************************************************************)
(* Properties.                                                             *)
(***************************************************************************)

(* Unless a handler has left a part of its request unread (a tag that does *)
(* not fit, controller.c:93; a value without memory, 237; tags and value   *)
(* of ONLY_TTL, 209), a header is read where a request begins: every other *)
(* early return of the handlers has read all its request consists of.      *)
InStep ==
  ~derailed /\ Reading("header") /\ got \o input # <<>> =>
    LET first == (got \o input)[1] IN first.part = "header" /\ first.at = 1

(* Until then the n-th answer is the answer to the n-th request, also when *)
(* the client sends ahead (server.c:228-301).                              *)
AnswersInOrder ==
  ~derailed =>
    /\ \A i \in DOMAIN answers : answers[i].to = i
    /\ Reading("header") /\ got \o input = <<>> => Len(answers) = Len(sent)

(* The body of a successful answer is what its own request has put into    *)
(* the buffer that the worker uses for all, and as long as announced       *)
(* (server.c:268-285); MATCH_NONE, whose payload is dead, is left out.     *)
FreshBody ==
  \A i \in DOMAIN answers :
    answers[i].ok /\ answers[i].from # "alt" /\ ~(pc \in {"payload", "closed"} /\ i = Len(answers)) =>
      /\ answers[i].body.nmemb = answers[i].size
      /\ answers[i].size > 0 => answers[i].body.of = answers[i].to
      /\ answers[i].to > 0 /\ sent[answers[i].to].op \in {"set", "del", "clr"} => answers[i].size = 0

(* "payload_size: Indicates size of body if status = t", "error_code:      *)
(* Error code if status = f" (types.h:442-443): a failure has no body, and *)
(* the body of a success has the size announced, unless the client is gone *)
(* before it is written.                                                   *)
BodyAsAnnounced ==
  \A i \in DOMAIN answers :
    ~(i = Len(answers) /\ (pc = "payload" \/ gone)) => answers[i].body.nmemb = answers[i].size

(***************************************************************************)
(* The inductive invariant.  Request k is the one the worker is at: of its *)
(* bytes Left are still in the input, and what follows them is the header  *)
(* of the next, or nothing if no other has been sent.                      *)
(***************************************************************************)

Length(r) == HeaderSize + r.klen + r.ntags * (1 + TagSize) + r.vlen

HeaderByte(i, h) == [req |-> i, part |-> "header", at |-> h]
IsStart(b) == b.part = "header" /\ b.at = 1

(* A request in the input that has not been begun is there as a whole. *)
WholeAt(j) ==
  LET i == input[j].req  end == j + Length(sent[i])
  IN /\ end <= Len(input) + 1
     /\ \A h \in 1 .. HeaderSize : input[j + h - 1] = HeaderByte(i, h)
     /\ IF end = Len(input) + 1 THEN i = Len(sent) ELSE input[end] = HeaderByte(i + 1, 1)

WholeInv == \A j \in 1 .. Len(input) : IsStart(input[j]) => WholeAt(j)

(* What the worker holds, whether it is in step or not. *)
Received == [req : 1 .. Len(sent), part : {"header", "key", "tag_size", "tag", "value"}, at : Nat]
Answer == [to : 0 .. Len(sent), ok : BOOLEAN, size : Nat, from : {"none", "buffer", "alt"},
           body : [of : 0 .. Len(sent), nmemb : Nat]]

HeldInv ==
  /\ input \in Seq(Received) /\ got \in Seq(Received) /\ answers \in Seq(Answer)
  /\ unit = "header" => need <= HeaderSize

Handling == pc \in {"apply", "respond", "payload"} \/ (pc = "read" /\ unit # "header")

(* The operations a unit can be of, and whose the buffer is. *)
HandlerInv ==
  /\ Handling /\ pc \in {"read", "apply"} =>
       /\ cur > 0
       /\ pc = "read" /\ unit = "key" => Request.op \in {"get", "set", "del", "nfo"}
       /\ pc = "read" /\ unit \in {"tag_size", "tag"} => Request.op \in {"set", "clr", "lst"}
       /\ pc = "read" /\ unit = "value" => Request.op = "set"
       /\ pc = "apply" => Request.op \in {"set", "clr", "lst"}
       /\ pc = "apply" \/ (pc = "read" /\ unit \in {"tag_size", "tag", "value"}) => payload = "none"
  /\ Handling /\ unit = "header" => need = 0
  /\ Handling /\ payload # "none" =>
       /\ cur > 0 /\ Request.op \in {"get", "nfo", "lst"}
       /\ payload = "buffer" => buffer.of = cur
  /\ pc = "payload" =>
       /\ Len(answers) > 0 /\ payload # "none"
       /\ LET a == answers[Len(answers)]
          IN /\ a.to = cur /\ a.from = payload
             /\ a.ok /\ payload = "buffer" => a.size = buffer.nmemb

(* The number of the request that is handled or will be next. *)
Turn == IF pc = "payload" THEN Len(answers) ELSE Len(answers) + 1

Left ==
  CASE pc = "read" /\ unit = "key"      -> need + Request.ntags * (1 + TagSize) + Request.vlen
    [] pc = "read" /\ unit = "tag_size" -> need + TagSize + todo * (1 + TagSize) + Request.vlen
    [] pc = "read" /\ unit = "tag"      -> need + todo * (1 + TagSize) + Request.vlen
    [] pc = "read" /\ unit = "value"    -> need
    [] pc = "apply"                     -> Request.vlen
    [] OTHER                            -> 0

Aligned(k, left) ==
  /\ left <= Len(input)
  /\ IF left = Len(input) THEN k = Len(sent) ELSE input[left + 1] = HeaderByte(k + 1, 1)

(* In step: until a handler has left bytes of its request unread. *)
StepInv ==
  /\ \A i \in 1 .. Len(answers) : answers[i].to = i
  /\ Handling => cur = Turn /\ Aligned(cur, Left)
  /\ Reading("header") =>
       IF got = <<>> THEN Aligned(Len(answers), 0)
       ELSE /\ Turn <= Len(sent)
            /\ got = Bytes(Turn, "header", Len(got))
            /\ \A h \in 1 .. need : input[h] = HeaderByte(Turn, Len(got) + h)
            /\ Aligned(Turn, Length(sent[Turn]) - Len(got))

IInv ==
  /\ TypeOK /\ HeldInv /\ WholeInv /\ HandlerInv /\ FreshBody /\ AnswersInOrder
  /\ pc # "closed" /\ ~derailed => StepInv
=============================================================================
