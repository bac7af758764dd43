----------------------------- MODULE MCLibrary -----------------------------
(* Small instances of what the product offers to those who submit nothing: the public library
   (the search box and its history, the lists the server renders, the way of one task to its
   digest page) and the plug-in's server for agents. They share no state; in each behaviour
   one of them is active and the others rest in an initial state.                         *)
EXTENDS LibrarySearch, LibraryCatalog, PublicDigest, PluginServer

VARIABLE active

libraryPageVars == <<active, libraryVars, catalogVars, digestVars, pluginVars>>

SearchRests ==
  /\ shown = BuildLibraryHref(Home, "all", Exactly(Empty), 1)
  /\ box = MountBox(shown) /\ pending = None /\ hist = <<shown>> /\ at = 1
  /\ onPage = TRUE /\ moves = 0 /\ stray = FALSE

CatalogRests ==
  /\ catalog = << >> /\ changes = 0 /\ req = Idle /\ requests = 0
  /\ view = [kind |-> "nothing", list |-> << >>]

DigestRests ==
  /\ task = NewRow(TRUE, TRUE, TRUE)
  /\ outs = [s \in Slots |-> IF s /= "unset" THEN Pending ELSE Absent]
  /\ writes = 0 /\ visits = 0 /\ page = NoPage /\ cached = NoAnswer

LibraryPageInit ==
  /\ active \in {"search", "catalog", "digest", "plugin"}
  /\ IF active = "search"  THEN LibraryInit ELSE SearchRests
  /\ IF active = "catalog" THEN CatalogInit ELSE CatalogRests
  /\ IF active = "digest"  THEN DigestInit  ELSE DigestRests
  /\ PluginInit

LibraryPageNext ==
  /\ UNCHANGED active
  /\ \/ active = "search"  /\ LibraryNext /\ UNCHANGED <<catalogVars, digestVars, pluginVars>>
     \/ active = "catalog" /\ CatalogNext /\ UNCHANGED <<libraryVars, digestVars, pluginVars>>
     \/ active = "digest"  /\ DigestNext  /\ UNCHANGED <<libraryVars, catalogVars, pluginVars>>
     \/ active = "plugin"  /\ PluginNext  /\ UNCHANGED <<libraryVars, catalogVars, digestVars>>

LibraryPageSpec == LibraryPageInit /\ [][LibraryPageNext]_libraryPageVars
=============================================================================
