SPECIFICATION TreeSpec
CONSTANTS
    LAST = 8
    Addresses <- MCAddresses
    ROOTFSD = rootfsd
    Devices = {tty1}
    Users = {user1}
    Files = {"f"}
    MountPoint <- MCMountPoint
    FileNames <- MCFileNames
    FS_MOUNT_MAX = 3
INVARIANTS
    ListsOK
    NamesUnique
    Routed
