SPECIFICATION Spec
CONSTANTS
  boot = boot  identity = identity  network = network
  sysctl = sysctl  private = private  hostname = hostname
  app = app  lib = lib  late = late
  Entry = Entry  Body = Body  Null = Null
  Modules = {boot, identity, network}
  Symbols = {sysctl, private, hostname}
  Images = {app, lib, late}
  Imports <- MCImports
  First = app
  Plan <- MCPlan
  Limit = 4
INVARIANTS TypeOK CallsEnd ImagesCovered EarlierReached
CHECK_DEADLOCK FALSE
