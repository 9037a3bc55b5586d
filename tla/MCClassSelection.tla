--------------------------- MODULE MCClassSelection ---------------------------
(* The instance of ClassSelection that TLC checks.  Two of the names are    *)
(* Chinese, of the same length, and are the same in Latin-1.                *)
EXTENDS ClassSelection

MCName == {"a", "b", "c", "d", "e acute", "han", "hai", "??", ""}

MCLatin1(n) == IF n \in {"han", "hai"} THEN "??" ELSE n

Named(names) ==
  [i \in DOMAIN names |-> [id |-> <<"1", "2", "3", "4", "5", "6", "7">>[i],
                           name |-> names[i]]]

Listing(names) == [Bare("object", "true", "list") EXCEPT !.rows = Named(names)]

MCTemplateAnswers ==
  {Nothing} \cup
  {Listing(names) :
     names \in {<<"a", "b">>, <<"a", "e acute">>, <<"han", "a", "hai">>,
                <<"a", "b", "c", "">>,
                <<"a", "b", "c", "d", "han", "b">>,
                <<"a", "b", "c", "d", "han", "hai", "">>}}

MCRoomAnswers ==
  {Nothing,
   [Bare("object", "true", "array") EXCEPT !.rows = Named(<<"a">>)]}

MCReplies ==
  {Nothing, Bare("text", "absent", "absent"), Bare("object", "true", "absent"),
   Bare("object", "true", "array"), Bare("object", "other", "array")}
=============================================================================
