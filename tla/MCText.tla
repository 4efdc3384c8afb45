-------------------------------- MODULE MCText --------------------------------
\* Texts for TLC: in each behaviour a client reads the tokens of one, clients parse,
\* build and copy JSON documents, or one reads a text of another form.
EXTENDS Tokenizer, SequencesExt, TLC

CONSTANTS Handles, Asks, MaxBlocks

\* Texts of up to n of the words of S.
RECURSIVE Texts(_, _)
Texts(S, n) ==
  IF n = 0 THEN {""} ELSE LET T == Texts(S, n - 1) IN T \cup {t \o w : t \in T, w \in S}

Plain == [comments |-> "none", newlines |-> FALSE]
Readings ==
  {[text |-> t, how |-> Plain] :
     t \in Texts(Among("01.-e+fx"), 3) \cup Texts(Among(">=<-!.1"), 3)
             \cup Texts({"\"", "\\", "u", "0a1F", "n"}, 4) \cup {"-1.0e+10f", "a1_ .5e1", "0b12", ">>>="}}
  \cup {[text |-> t, how |-> [comments |-> c, newlines |-> n]] :
          t \in Texts(Among("/*\n a"), 4) \cup {"/*/ */a", "a;b#c\nd"},
          c \in {"none", "slash", "hash", "semi"}, n \in BOOLEAN}

Sources ==
  Texts({"[", "]", "{", "}", ",", ":", "\"k\"", "1", "-", "null"}, 3)
    \cup {"[1,{\"k\":[true,\"\\n\"]}]", "{\"k\":1,\"k\":2}", "[1.5,-1.5]", "- -5", "0x1f",
          " [ 1 , 2 ] x", "\"\\u0041\"", "{\"a\\\"\":[[],{}], \"k\": \"x\" }", "[null,1 2]",
          "{\"k\":{\"k\":\"v\"},\"l\"}"}
Scalars == {[kind |-> "int", int |-> -12], [kind |-> "string", string |-> "a\"\n\\"],
            [kind |-> "double", double |-> "1.5"], [kind |-> "double", double |-> "-0.5"]}
Keys == {"k", "q\""}

\* The texts clients write, from parts that hold the marks of other parts.
Mark(c, w) == IF w = "" THEN "" ELSE c \o w
Who(u, h)  == [userinfo |-> u, host |-> h, port |-> 80]
Url(who, path, query, fragment) ==
  LET there == who.host # ""
      host  == IF ":" \in Among(who.host) THEN "[" \o who.host \o "]" ELSE who.host
  IN  [form |-> "url",
       text |-> "a+b:" \o (IF there THEN "//" ELSE "") \o who.userinfo
                  \o (IF who.userinfo = "" THEN "" ELSE "@") \o host
                  \o (IF who.port = 0 THEN "" ELSE ":80") \o path \o Mark("?", query)
                  \o Mark("#", fragment),
       parts |-> [form |-> "url", scheme |-> "a+b", who |-> who, path |-> path,
                  query |-> query, fragment |-> fragment]]
Urls ==
  {Url(w, p, q, f) :
     w \in {[userinfo |-> "", host |-> "", port |-> 0]}
             \cup [userinfo : {"", "u:p"}, host : {"h", "::1"}, port : {0, 80}],
     p \in {"", "/a@b:c", "/[x]"}, q \in {"", "k=/?x"}, f \in {"", "f?#/"}}
NoUrls == {[form |-> "url", text |-> t, parts |-> [form |-> "wrong"]] :
             t \in {"", "1a:b", "a", "a b:c", "a://u@/p", "a://[::1/p", "a://h:/p",
                    "a://h:8x", "a://h:65536"}}

Users == {[form |-> "userinfo", text |-> u \o ":" \o p,
           parts |-> [form |-> "userinfo", username |-> u, password |-> p]] :
            u \in {"", "u"}, p \in {"", "p:q"}}

Queries == {[form |-> "query", text |-> k \o "=" \o v \o a \o "l",
             parts |-> [form |-> "query", params |-> <<<<k, v>>, <<"l", "">>>>]] :
              k \in {"", "k"}, v \in {"", "v=w"}, a \in {"&", "&&"}}

Codes    == ("25" :> "%") @@ ("2B" :> "+") @@ ("2f" :> "/")
\* A character with one of the ways to write it.
Coded    == {<<c, c>> : c \in Among("a2/")} \cup {<<" ", "+">>}
              \cup {<<Codes[x], "%" \o x>> : x \in DOMAIN Codes}
Percent(t, w) == [form |-> "percent", text |-> t, parts |-> [form |-> "percent", text |-> w]]
Percents == {Percent(a[2] \o b[2], a[1] \o b[1]) : a, b \in Coded} \cup {Percent("a%2", "a%2")}
              \cup {[form |-> "percent", text |-> "%2g", parts |-> [form |-> "wrong"]]}

Csvs == {[form |-> "csv", text |-> v \o a \o w, parts |-> [form |-> "csv", values |-> <<v, w>>]] :
           v, w \in {"a", "\"b,#\"", "-1.5"}, a \in {",", "\n", " ,# c\n"}}

\* Values as they are written and as they are found.
Written == {<<"-1.5", "-1.5">>, <<"\"a#]\"", "a#]">>, <<"[1,[\"]\"]]", "1,[\"]\"]">>,
            <<"true", "true">>}
Tomls == {[form |-> "toml", text |-> a \o "k=" \o v[1] \o "\n" \o b \o "l = " \o w[1],
           parts |-> [form |-> "toml", entries |-> <<<<"k", v[2]>>, <<"l", w[2]>>>>]] :
            v, w \in Written, a, b \in {"", "[t.u]\n", "# m = 1\n"}}

Given == Urls \cup NoUrls \cup Users \cup Queries \cup Percents \cup Csvs \cup Tomls

VARIABLES which, ts, taken, wanted, docs, held, spilled, given, found
tokens == <<ts, taken, wanted>>
json   == <<docs, held, spilled>>
parts  == <<given, found>>
vars   == <<which, tokens, json, parts>>

T == INSTANCE Tokens
J == INSTANCE Json
F == INSTANCE Formats

NoTokens == ts = <<>> /\ taken = <<>> /\ wanted = FALSE
NoJson   == docs = <<>> /\ held = 0 /\ spilled = FALSE
NoParts  == given = <<>> /\ found = <<>>

Init ==
  \/ which = "tokens" /\ T!Init /\ NoJson /\ NoParts
  \/ which = "json" /\ J!Init /\ NoTokens /\ NoParts
  \/ which = "formats" /\ F!Init /\ NoTokens /\ NoJson

Next ==
  /\ which' = which
  /\ \/ which = "tokens" /\ T!Next /\ UNCHANGED json /\ UNCHANGED parts
     \/ which = "json" /\ J!Next /\ UNCHANGED tokens /\ UNCHANGED parts
     \/ which = "formats" /\ F!Read /\ UNCHANGED tokens /\ UNCHANGED json

Spec == Init /\ [][Next]_vars

-----------------------------------------------------------------------------
\* Clients are given every token once and in order (token_stream.c:8-47,
\* tokenizer.c:11-74, 422-487), and each is as long as its kind allows
\* (tokenizer.c:80-211, 262-327).
InOrder == which = "tokens" => T!InOrder /\ T!Longest

\* Every block belongs to one document, whatever step of a call failed, unless a
\* copy went on without a block (json.c:12-372, 488-575).
Owned == which = "json" => J!Owned

\* A document is the same when it is parsed from its text and when it is copied,
\* but for what the code does not write as it reads it (json.c:59-117, 187-277,
\* 536-707).
Reproduced == which = "json" => J!Reproduced

\* What a text was put together from is found in it (url.c:4-141,
\* userinfo.c:4-29, query_string.c:5-56, percent.c:4-36, csv.c:6-34, toml.c:5-88).
ReadBack == which = "formats" => F!ReadBack
=============================================================================
