SPECIFICATION FairSpec
CONSTANTS
    Collectors = {"hazelcast", "handlers"}
    Modes = {"watcher", "provisioning"}
INVARIANTS TypeOK GaugesScraped HooksRun StoresAfterInformers
PROPERTIES StopsWhenTold GaugesAppear
