-------------------------------- MODULE MCRunFeed --------------------------------
EXTENDS RunFeed

ColonOf == [w \in Words |-> ":" \o w]

\* v1 emits three times, once with the payload nil; v2 emits and then logs at a
\* level there is none of.
OneEach ==
  [v1 |-> {<<Call("emit", <<Value("symbol", "pull"), Nil>>), Call("noop", <<>>),
             Call("apply", <<Value("keyword", "a")>>)>>},
   v2 |-> {<<Call("delete-action", <<Value("str", "a")>>),
             Call("log", <<Value("keyword", "a"), Value("str", "a")>>)>>}]

\* 0.20s, 0.23s, 1.00s: text and time differ within a second.
Times == <<20, 23, 100>>

OneTailsAll == [s \in Subscribers |-> IF s = "one" THEN {"v1"} ELSE Vigies]

================================================================================
