--------------------------- MODULE MCSyndicationView ---------------------------
(* Two themes.  The first has two accounts whose timelines differ, a reply  *)
(* that is in no timeline itself, and two feeds, of which the text filter   *)
(* lets only one through.                                                   *)
EXTENDS SyndicationView, TLC

CONSTANTS t1, t2, f1, f2, f3, a1, a2, a3, u1

FeedOfItem == 1 :> f1 @@ 2 :> f2 @@ 3 :> f3
FilterPasses == "text" :> {2,3}
MainOf == t1 :> a1 @@ t2 :> a3
ThemeOfItem == 1 :> t1 @@ 2 :> t1 @@ 3 :> t2
ThemeOfFeed == f1 :> t1 @@ f2 :> t1 @@ f3 :> t2
ThemeOfAccount == a1 :> t1 @@ a2 :> t1 @@ a3 :> t2
ColumnsOf == a1 :> {"home", "manage"} @@ a2 :> {"following"} @@ a3 :> {"home"}
FrontOf == a1 :> "home" @@ a2 :> "following" @@ a3 :> "home"
OfAccount == 1 :> a1 @@ 2 :> a1 @@ 3 :> a2 @@ 4 :> a3
InColumn == 1 :> "home" @@ 2 :> Nowhere @@ 3 :> "following" @@ 4 :> "home"
ReplyTo == 1 :> None @@ 2 :> 1 @@ 3 :> None @@ 4 :> None
AuthorOf == 1 :> u1 @@ 2 :> u1
================================================================================
