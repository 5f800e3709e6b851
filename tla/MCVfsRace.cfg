SPECIFICATION TreeSpec
CONSTANTS
    LAST = 5
    Addresses <- MCAddresses
    ROOTFSD = rootfsd
    Devices = {tty1, tty2}
    Users = {user1, user2}
    Files = {"f", "tty0"}
    MountPoint <- MCMountPoint
    FileNames <- MCFileNames
    FS_MOUNT_MAX = 3
SYMMETRY MCSymmetry
INVARIANTS
    ListsOK
    NamesUnique
    Routed
