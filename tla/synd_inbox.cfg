SPECIFICATION Spec
CONSTANTS
    t1 = t1
    t2 = t2
    ap = ap
    at = at
    old = old
    d = d
    q = q
    post = post
    page = page
    share = share
    site = site
    x = x
    noise = noise
    Themes = {t1, t2}
    Names = {x, noise}
    Noise = {noise}
    Typed = {x}
    Urls = {post, page, share, site}
    Accts = {ap, old, at}
    Writers <- WritersOf
    Proto <- ProtoOf
    Quoters = {ap}
    Site <- SiteOf
    SeedPosts <- Seed
    Links = {page}
    Feeds <- FeedsOf
    Docs <- DocsOf
    DocUrl <- DocUrlOf
    GraphNames <- GraphOf
    Pubs = {q}
    Share <- ShareOf
    PubTags <- TagsOf
    PubProtos <- ProtosOf
    Quotable = {q}
    Importable = {q}
    MaxItems = 2
    MaxPosts = 3
    MaxReshares = 1
    MaxSyncs = 1
INVARIANTS
    TypeOK
    OneItemPerUrl
    DocumentsStayHome
    BooksBalance
PROPERTIES
    EntitiesNeedDocuments
    RetractionRespected
