--------------------------- MODULE MCKnowledgeInbox ---------------------------
(* Two themes.  The first has accounts on three servers, one of which has no  *)
(* quotes and one another protocol than the publication, a post by another    *)
(* user of the instance that shows a page, a post of its own in the home      *)
(* timeline, and an entity in its database; the second has no accounts, and   *)
(* its database has the public page of the publication for a document.        *)
EXTENDS KnowledgeInbox

CONSTANTS t1, t2, ap, old, at, d, q, post, page, share, site, x, noise

ByTheme(u, v) == [t \in {t1, t2} |-> IF t = t1 THEN u ELSE v]
WritersOf == ByTheme({ap, old, at}, {})
ProtoOf == [a \in {ap, old, at} |-> IF a = at THEN "at" ELSE "ap"]
SiteOf == [a \in {ap, old, at} |-> site]
SeedPost(urls, url, tags, in) ==
    [acct |-> ap, urls |-> urls, url |-> url, tags |-> tags, feeds |-> in, sent |-> 0]
Seed == ByTheme(<<SeedPost({post, page}, post, {x, noise}, {}),
                  SeedPost({site}, site, {}, {"home"})>>,
                <<>>)
FeedsOf == ByTheme({"home"}, {})
DocsOf == ByTheme({}, {d})
DocUrlOf == [e \in {d} |-> share]
GraphOf == ByTheme({x}, {})
ShareOf == [p \in {q} |-> share]
TagsOf == [p \in {q} |-> {x}]
ProtosOf == [p \in {q} |-> {"ap"}]
===============================================================================
